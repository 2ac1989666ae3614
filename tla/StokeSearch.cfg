SPECIFICATION Spec
CONSTANTS
    t = t
    a = a
    b = b
    c = c
    d = d
    x = x
    y = y
    Rewrite = {t, a, b, c, d}
    Target = t
    Input = {x, y}
    Code <- MCCode
    Distance <- MCDistance
    Perf <- MCPerf
    Post <- MCPost
    SigPenalty = 4
    Slack = {0, 2}
    Trainings <- OneTraining
    Starts = {t, a}
    Timeouts = {0}
    TimeLimit = TRUE
    MaxItr = 4
    Strategy <- HoldOutLeakage
    TestSet <- OneTest
    Covered <- MCCovered
    Leaky = {t, d}
    MaxCex = 2
    CycleTimeout <- TwoEach
    TimeoutIterations = 3
    CacheResults = TRUE
    Options <- SavingOrNot
    MaxCycles = 3
INVARIANTS
    CachedResultFresh
    SuccessVerified
    ReferencesCurrent
    IterationBudget
    AcceptedByAll
    CounterExamplesRefute
PROPERTIES
    Terminates
    ImplementsSynthesis
CHECK_DEADLOCK FALSE

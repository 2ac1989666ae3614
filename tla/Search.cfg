SPECIFICATION SearchSpec
CONSTANTS
    t = t
    a = a
    b = b
    c = c
    x = x
    y = y
    Rewrite = {t, a, b, c}
    Target = t
    Input = {x, y}
    Code <- MCCode
    Distance <- MCDistance
    Perf <- MCPerf
    SigPenalty = 4
    Slack = {0, 1, 4}
    Trainings <- MCTrainings
    Starts = {t, a, c}
    Timeouts = {0, 1, 3}
    TimeLimit = TRUE
    MaxItr = 3
INVARIANTS
    CostsExact
    BestSound
    IterationsCounted
PROPERTIES
    StopHonoured
    SearchReturns

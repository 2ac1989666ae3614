SPECIFICATION Spec
CONSTANTS
    Reg = {a, zf}
    DefIns = {a, zf}
    LiveOuts = {a}
    Targets <- MCTargets
    Rewrites <- MCRewrites
    Again <- MCAgain
    Aux <- MCAux
    Input <- MCInput
    Bound = {1, 2}
    Foreign <- MCForeign
    SupportedReg = {a, zf}
    Unsupported = {"cpuid"}
    LeakageClasses <- MCLeakageClasses
    MaxJumps = 12
INVARIANTS
    PathsCoverRuns
    AcceptedUpToBound
    RejectedForCause
    CounterExamplesConfirmed
    AcceptedNotLeaky

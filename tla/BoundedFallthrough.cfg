SPECIFICATION Spec
CONSTANTS
    Reg = {a, zf}
    DefIns = {a, zf}
    LiveOuts = {a}
    Targets <- FallthroughTargets
    Rewrites <- FallthroughRewrites
    Again = {}
    Aux <- MCAux
    Input <- MCInput
    Bound = {1}
    Foreign <- MCForeign
    SupportedReg = {a, zf}
    Unsupported = {"cpuid"}
    LeakageClasses <- MCLeakageClasses
    MaxJumps = 12
INVARIANT AcceptedUpToBound
CHECK_DEADLOCK FALSE

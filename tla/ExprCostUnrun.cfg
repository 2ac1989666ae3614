SPECIFICATION Spec
CONSTANTS
    t = t
    near = near
    far = far
    trap = trap
    x = x
    y = y
    Rewrite = {t, near, far, trap}
    Target = t
    Input = {x, y}
    Code <- MCCode
    Distance <- MCDistance
    Perf <- MCPerf
    SigPenalty = 4
    LeafName <- MCLeafName
    NumberOf <- MCNumber
    Setups <- LatencyOnly
    Trace <- MCTrace
    LeakageRanges <- MCLeakageRanges
    Bounds = {0, 1, 3, 20}
    MaxTests = 2
PROPERTY CounterExampleWitnesses

SPECIFICATION Spec
CONSTANTS
    f = f
    g = g
    Label = {f, g}
    Bodies <- MCBodies
    rip_offset <- MCrip_offset
    Inputs <- MCInputs
    StackSize = 3
    AbiCheck = FALSE
    StackCheck = TRUE
    MaxJumps = 3
    Word = 8
    MaxInputs = 1
INVARIANTS
    TypeOK
    CompiledCurrent
    RecursionCaught
PROPERTIES
    RunsRepeatable
    RunsEnd

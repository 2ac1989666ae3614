SPECIFICATION Spec
CONSTANTS
    rax = rax
    rbx = rbx
    zf = zf
    Memory = Memory
    Reg = {rax, rbx, zf}
    DefIns = {rax}
    LiveOuts = {rbx}
    Programs <- MCPrograms
    Replacements <- Copies
    Requests <- SafeRequests
    MaxMoves = 1
INVARIANTS
    InvariantsKept
    SameResult
    NothingLeft
CHECK_DEADLOCK FALSE

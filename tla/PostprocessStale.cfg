SPECIFICATION Spec
CONSTANTS
    rax = rax
    rbx = rbx
    zf = zf
    Memory = Memory
    Reg = {rax, rbx, zf}
    DefIns = {rax}
    LiveOuts = {rbx}
    Programs <- LinePrograms
    Replacements <- Plain
    Requests <- CallbackFull
    MaxMoves = 1
INVARIANT
    SameResult
CHECK_DEADLOCK FALSE

SPECIFICATION Spec
CONSTANTS
    rax = rax
    rbx = rbx
    zf = zf
    Reg = {rax, rbx, zf}
    DefIns = {rax}
    LiveOuts = {rbx}
    Programs <- MCPrograms
INVARIANTS
    DefsSound
    NoUndefReads
    LivenessSound
CHECK_DEADLOCK FALSE

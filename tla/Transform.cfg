SPECIFICATION Spec
CONSTANTS
    Shape <- MCShape
    NopShape <- MCNop
    RipOffset = 100
    Globals = {300, 400}
    MaxLen = 4
    InitLens = {3, 4}
INVARIANTS
    TypeOK
    MetaDataCurrent
    RipTargetsKept
    UndoRestores
    BlocksCurrent

SPECIFICATION Spec
CONSTANTS
    Pairs <- MCPairs
    Assignments <- MCAssignments
    Strategies = {"string", "string_no_alias"}
    HeapOut = {TRUE, FALSE}
    Top = 60
    Margin = 1
    Align = 4
    Quad = 2
    Slot = 2
INVARIANTS
    ProvedAgrees
    ModelsDiffer
    TestcaseRefutes
CHECK_DEADLOCK FALSE

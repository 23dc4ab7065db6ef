SPECIFICATION Spec
CONSTANTS
    N = 6
    Values = {1, 2, 3}
    InsertionCutoff = 2
    SizeCutoff = 2
    Threads = 3
    Rules = {"median3", "last"}
INVARIANTS WorkIsDisjoint ScansStayInside HalvesStayOrdered ReturnsSorted ResourcesBounded
PROPERTY SortEnds
CHECK_DEADLOCK TRUE

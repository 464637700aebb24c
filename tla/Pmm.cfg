SPECIFICATION Spec
CONSTANTS
    Map <- MCMap
    Align = 2
    StructPages = 3
    LowPages = 1
    PageSize = 2
    Sizes = {2, 3, 6}
    Memories = {a, b}
    OwnedAt = {8}
SYMMETRY Symmetry
CHECK_DEADLOCK FALSE
INVARIANTS
    Exclusive
    FailsOnlyWhenFull
    Accounted

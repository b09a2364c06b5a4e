SPECIFICATION Spec
CONSTANTS
    MaxBin = 4
    Item <- MCItem2
    Page = 8
    Chunk = 24
    Base = 8
    MemEnd = 56
    Sizes = {0, 4, 8}
    Increments = {}
    Values = {}
INVARIANT
    NothingLost
CHECK_DEADLOCK FALSE

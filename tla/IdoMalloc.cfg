SPECIFICATION Spec
CONSTANTS
    MaxBin = 5
    Item <- MCItem
    Page = 8
    Chunk = 24
    Base = 8
    MemEnd = 56
    Sizes = {0, 4, 8, 12, 24}
    Increments = {4}
    Values = {7}
INVARIANTS
    TypeOK
    BlocksApart
    AssertionsHold
    FreeNodesListed
PROPERTY
    HeapSpec
CHECK_DEADLOCK FALSE

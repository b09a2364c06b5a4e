SPECIFICATION Spec
CONSTANTS
    Byte = {0, 1}
    MinLength = 1
    MaxLength = 11
    Window = 4
    MaxMatch = 6
INVARIANTS
    TypeOK
    RoundTrip
    AllRead
    BuffersSuffice
    LongestFound
CHECK_DEADLOCK FALSE

SPECIFICATION Spec
CONSTANTS
    Byte = {0, 1}
    MinLength = 1
    MaxLength = 4
    Window = 4
    MaxMatch = 6
INVARIANT
    OutputFits
CHECK_DEADLOCK FALSE

SPECIFICATION Spec
CONSTANTS
    NFILE = 5
    Size = 2
    ErrBit = 8
    MaxFd = 4
    Inputs = {"in", "source"}
    Outputs = {"out", "err", "object"}
    Std <- MCStd
    MaxBytes = 3
    Nested = TRUE
    Fails = 1
INVARIANTS TypeOK NothingForeign OwnDescriptors Delivered
CHECK_DEADLOCK FALSE

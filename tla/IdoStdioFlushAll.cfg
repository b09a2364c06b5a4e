SPECIFICATION Spec
CONSTANTS
    NFILE = 5
    Size = 1
    ErrBit = 8
    MaxFd = 4
    Inputs = {"in", "source"}
    Outputs = {"out", "err", "object"}
    Std <- MCStd
    MaxBytes = 2
    Nested = FALSE
    Fails = 0
INVARIANT Delivered
CHECK_DEADLOCK FALSE

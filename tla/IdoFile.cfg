SPECIFICATION Spec
CONSTANTS
    Size = 2
    Unit = 1
    Byte <- MCByte
    Newline = "nl"
    Files <- MCFiles
    Modes = {"r", "w", "a", "stderr", "r+", "w+"}
    Calls <- MCCalls
    Lengths = {1, 3}
    Buffers = {1}
    MaxLen = 4
    MaxDebt = 2
    Fails = {"read", "write"}
    Careful = TRUE
INVARIANTS TypeOK InBuffer
PROPERTIES FileSpec CallsEnd
CHECK_DEADLOCK FALSE

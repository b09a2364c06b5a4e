SPECIFICATION RunSpec
CONSTANTS
    Programs <- MCPrograms
    Temps = {"t0"}
    Saved = {"s0"}
    Other = {"ra", "hi", "lo"}
    Externs <- MCExterns
    Listed <- MCListed
    MaxDepth = 2
INVARIANTS TypeOK ForwardSolved BackwardSolved Reached Faithful
PROPERTY PassesEnd
CHECK_DEADLOCK FALSE

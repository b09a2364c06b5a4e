SPECIFICATION Spec
CONSTANTS
    MaxPasses = 6
    Labels <- MCLabels
    Scripts <- MCScripts
INVARIANTS
    TypeOK
    Settled
    AreasHold
PROPERTY Ends
CHECK_DEADLOCK FALSE

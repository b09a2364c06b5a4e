SPECIFICATION Spec
CONSTANTS
    MaxPasses = 100
    Sizes <- MCSizes
    Labels <- InjectLabels
    Scripts <- InjectScripts
INVARIANTS
    Linked
    TableRight
    PatchesApart
PROPERTY Completes
CHECK_DEADLOCK FALSE

SPECIFICATION Spec
CONSTANTS
    MaxPasses = 100
    Sizes <- MCSizes
    Labels <- InjectLabels
    Scripts <- InjectScripts
INVARIANT VanillaKept
CHECK_DEADLOCK FALSE

SPECIFICATION Spec
CONSTANTS
    None = None
    Configs <- ReadonlyConfigs
INVARIANTS
    ReadonlyMounts
CHECK_DEADLOCK FALSE

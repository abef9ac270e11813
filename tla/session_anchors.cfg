SPECIFICATION Spec
CONSTANTS
    Providers = {1, 2}
    MaxRows = 3
    MaxTurns = 2
    MaxConvs = 3
    ListLimit = 20
    FetchLimit = 60
    Settings <- AllSettings
CHECK_DEADLOCK FALSE
INVARIANT OneAnchor
INVARIANT ResetLeavesNone
INVARIANT RecoveryStays
PROPERTY OthersUndisturbed

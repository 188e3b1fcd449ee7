SPECIFICATION LiveSpec
CONSTANTS
    MaxRetired = 2
    MaxRevision = 8
    MaxEpoch = 2
    MaxPushed = 2
    MaxDown = 2
    MaxAsks = 1
    MaxFaults = 1
    PartCounts = {1}
    TextSwitch = FALSE
    RefreshMayFail = FALSE
    ResultMayBeLost = FALSE
CHECK_DEADLOCK FALSE
PROPERTIES
    NobodyLeftBehind
    EveryActionResolves

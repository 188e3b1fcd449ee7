SPECIFICATION Spec
CONSTANTS
    MaxRetired = 1
    MaxRevision = 3
    MaxEpoch = 3
    MaxPushed = 2
    MaxDown = 1
    MaxAsks = 0
    MaxFaults = 2
    PartCounts = {1, 2}
    TextSwitch = TRUE
    RefreshMayFail = TRUE
    ResultMayBeLost = TRUE
CHECK_DEADLOCK FALSE
INVARIANTS
    ShowsAPublication
PROPERTIES
    SequencesMoveForward

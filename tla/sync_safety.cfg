SPECIFICATION Spec
CONSTANTS
    MaxRetired = 1
    MaxRevision = 2
    MaxEpoch = 2
    MaxPushed = 2
    MaxDown = 2
    MaxAsks = 1
    MaxFaults = 2
    PartCounts = {1, 2}
    TextSwitch = FALSE
    RefreshMayFail = TRUE
    ResultMayBeLost = TRUE
CHECK_DEADLOCK FALSE
INVARIANTS
    OneAutomaticSync
    UnlockedIsCurrent
    AnsweredMeansVisible

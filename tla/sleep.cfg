SPECIFICATION LiveSpec
CONSTANTS
    MaxSleep = 2
    IntervalBound = 3
    MaxView = 2
    MaxAsk = 2
    MaxFault = 2
CHECK_DEADLOCK FALSE
INVARIANTS
    ElapsedAgrees
PROPERTIES
    LicensedIntervals
    PendingEnds

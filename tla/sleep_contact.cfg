SPECIFICATION Spec
CONSTANTS
    MaxSleep = 2
    IntervalBound = 3
    MaxView = 2
    MaxAsk = 2
    MaxFault = 1
CHECK_DEADLOCK FALSE
INVARIANTS
    PublishedWhenReached

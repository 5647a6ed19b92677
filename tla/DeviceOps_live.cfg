SPECIFICATION FairSpec
CONSTANTS
    Capacity = 1
    MaxSequence = 3
    JoinFirst = TRUE
    MayPark = FALSE
    RetryMayThrow = TRUE
INVARIANT NoLostWakeup
PROPERTY CallersReturn
CHECK_DEADLOCK FALSE

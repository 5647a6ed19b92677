SPECIFICATION GpuFairSpec
CONSTANTS
    Capacity = 2
    MaxSequence = 3
    JoinFirst = FALSE
    MayPark = TRUE
    RetryMayThrow = FALSE
    UsesSlot = {}
    MaxSyncErrors = 1
    MayLoseContext = FALSE
PROPERTIES
    WaitReturns
CHECK_DEADLOCK FALSE

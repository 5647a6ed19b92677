SPECIFICATION GpuSpec
CONSTANTS
    Capacity = 1
    MaxSequence = 3
    JoinFirst = FALSE
    MayPark = TRUE
    RetryMayThrow = FALSE
    UsesSlot = {1, 3}
    MaxSyncErrors = 2
    MayLoseContext = TRUE
INVARIANT RunningProtected
INVARIANT SuccessIsProven
INVARIANT RingSound
PROPERTY ImplementsComponents
CHECK_DEADLOCK FALSE

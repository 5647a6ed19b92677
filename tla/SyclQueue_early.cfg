SPECIFICATION FairSpec
CONSTANTS
    Slots <- MCSlots
    Kind <- MCKind
    OutOfRange <- MCOutOfRange
    MaxFaults = 1
    EarlyObserver = TRUE
    LateFaults = FALSE
INVARIANT FenceNeverEarly
CHECK_DEADLOCK FALSE

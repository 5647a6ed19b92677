SPECIFICATION FairSpec
CONSTANTS
    Slots <- MCSlots
    Kind <- MCKind
    OutOfRange <- MCOutOfRange
    MaxFaults = 1
    EarlyObserver = FALSE
    LateFaults = FALSE
INVARIANT SlotsSound
INVARIANT TokenTruthful
INVARIANT ReleasedMeansIdle
PROPERTY TokensComplete
CHECK_DEADLOCK FALSE

SPECIFICATION Spec
CONSTANTS
    Capacity = 2
    MaxSequence = 4
    JoinFirst = FALSE
    MayPark = TRUE
    RetryMayThrow = FALSE
INVARIANT AdmissionConsistent
INVARIANT TokensExact
INVARIANT HighWaterExact
INVARIANT RepeatableWait
INVARIANT OwnersProtected
INVARIANT DestroyedClean
PROPERTY ImplementsOrderedTokens
CHECK_DEADLOCK FALSE

SPECIFICATION ContentSpec
CONSTANTS
    Calls <- SelectCalls
    Vectors <- SmallRows
    Infinite = 9
INVARIANT EncodesByRank
INVARIANT RoundTrip
INVARIANT FormatRunsTheTemplate
INVARIANT LoadsTheCheckpoint
INVARIANT SelectsFirstMaximum
CHECK_DEADLOCK FALSE

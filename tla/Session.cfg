SPECIFICATION FairSpec
CONSTANTS
    Config <- MCConfig
    Needs <- MCNeeds
    Prompts = {1, 3, 4}
    Limits = {0, 1, 3}
    Tracing = TRUE
    MaxCalls = 2
INVARIANT NoConflictInFlight
INVARIANT LogitsFromHistory
INVARIANT QuietAtBoundaries
INVARIANT FirstFailureThrown
INVARIANT MetricsTellTheRequest
PROPERTY PoisonedSubmitsNothing
PROPERTY UnpublishedLeavesAdmitted

PROPERTY CallsReturn
CHECK_DEADLOCK FALSE

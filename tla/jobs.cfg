SPECIFICATION JobsSpec
CONSTANTS
    Environments <- OneAtATime
INVARIANTS
    CalmHolds
PROPERTIES
    Attempted
    MarkerFollows
CHECK_DEADLOCK FALSE

SPECIFICATION Spec
CONSTANTS
    root = root
    child = child
    Dataset <- OneDataset
    Beneath <- OneBeneath
    MaxInstant = 3
    Incremental = {"latest", "all"}
    Replicated = FALSE
    Faults = {"crash", "interrupt", "error"}
INVARIANTS
    BaseSurvives
    PendingProtected
    ReservedHeld
    ReservationEnds
PROPERTIES
    ReceiveOrder
    RefSteps

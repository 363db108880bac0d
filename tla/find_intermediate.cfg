SPECIFICATION Spec
CONSTANTS
    root = root
    child = child
    Dataset <- OneDataset
    Beneath <- OneBeneath
    MaxInstant = 4
    Incremental = {"all"}
    Replicated = FALSE
    Faults = {"crash"}
INVARIANTS
    MembersContinue

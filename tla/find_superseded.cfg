SPECIFICATION Spec
CONSTANTS
    root = root
    child = child
    Dataset <- OneDataset
    Beneath <- OneBeneath
    MaxInstant = 3
    Incremental = {"latest"}
    Replicated = FALSE
    Faults = {}
INVARIANTS
    MembersContinue

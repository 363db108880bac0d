SPECIFICATION Spec
CONSTANTS
    root = root
    child = child
    Dataset <- TwoDatasets
    Beneath <- TwoBeneath
    MaxInstant = 2
    Incremental = {"latest"}
    Replicated = TRUE
    Faults = {}
INVARIANTS
    MembersContinue

SPECIFICATION RefSpec
CONSTANTS
    root = root
    child = child
    Dataset <- Datasets
    Beneath <- Subtrees
    MaxInstant = 2
INVARIANTS
    HoldProved
    BookmarkProved
    Retryable
PROPERTIES
    SourceKept

SPECIFICATION FairSpec
CONSTANTS
    root = root
    child = child
    Root <- Roots
    Member <- Members
    RootOf <- MemberRoot
    Cadence <- MemberCadence
    RetryDelay = 1
    DropDelay = 1
INVARIANTS
    PendingOwned
PROPERTIES
    Spacing
    Snapshotted

SPECIFICATION Spec
CONSTANTS
    Tree <- Chain
    Environments <- OneAtATime
INVARIANTS
    WayOut
PROPERTIES
    ReplicasKept
    ReceivesBound
    AdoptedGate
    Converges
CHECK_DEADLOCK FALSE

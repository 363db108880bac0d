SPECIFICATION DiscoverySpec
CONSTANTS
    Sorted <- Names8
    BatchSize = 1
    Environments <- Instances
INVARIANTS
    Disjoint
    RemotesCurrent
PROPERTIES
    OneInstant
    Fresh

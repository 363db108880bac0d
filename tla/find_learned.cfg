SPECIFICATION DiscoverySpec
CONSTANTS
    Sorted <- Names8
    BatchSize = 1
    Environments <- Replaced
INVARIANTS
    RemotesAgree

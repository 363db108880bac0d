SPECIFICATION DiscoverySpec
CONSTANTS
    Sorted <- Names8
    BatchSize = 1
    Environments <- RootDestroyed
PROPERTIES
    Discovers

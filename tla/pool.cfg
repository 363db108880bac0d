SPECIFICATION PoolSpec
CONSTANTS
    QuietA = QuietA
    SendA = SendA
    SendAll = SendAll
    SendB = SendB
    m1 = m1
    x1 = x1
    x2 = x2
    Jobs <- JobSet
    PoolSeq <- Two
    TransferPools = {"transfer"}
    PoolOf <- JobPool
    GroupOf <- RootOfJob
    ScopeOf <- RootOfJob
    KeyOf <- JobKey
    LockScopeOf <- JobScope
    Awaits <- JobAwaits
    Capacity = 2
    Slots <- WorkerSlots
    CleanKeys <- RootKeys
    Environments <- OneAtATime
INVARIANTS
    CleanAlone
PROPERTIES
    Implements
    RoundRobin
    Served
    Drains
CHECK_DEADLOCK FALSE

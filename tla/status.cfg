SPECIFICATION StatusSpec
CONSTANTS
    backup = backup
    prune = prune
    Job <- TwoJobs
    Bound = 3
    InputBound = 2
    SampleBound = 1
    Environments <- Inputs
INVARIANTS
    Contiguous
    AsOfTheLast
    ProgressCurrent
    LogAccounts
PROPERTIES
    Informed
CHECK_DEADLOCK FALSE

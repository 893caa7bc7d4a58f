SPECIFICATION FairSpec
CONSTANTS
    j1 = j1
    j2 = j2
    Jobs = {j1, j2}
    NoJob = NoJob
    Configs <- SmallPools
    MaxWorkers = 3
    MaxStops = 2
    MaxErrors = 1
INVARIANTS
    IInv
    WorkConserving
    InOrder
    OneJobPerWorker
PROPERTIES
    EveryJobReported
    EveryJobAssigned
CHECK_DEADLOCK FALSE

SPECIFICATION Spec
CONSTANTS
    j1 = j1
    Jobs = {j1}
    NoJob = NoJob
    Configs <- OnePool
    MaxWorkers = 3
    MaxStops = 1
    MaxErrors = 2
INVARIANTS
    RestartsLimited
CHECK_DEADLOCK FALSE

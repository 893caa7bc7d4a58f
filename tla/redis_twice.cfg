CONSTANTS
    c1 = c1
    c2 = c2
    j1 = j1
    j2 = j2
    Jobs = {j1}
    Clients = {c1, c2}
    Registered = {c1, c2}
    NoJob = NoJob
    MaxRetries = 1
    JobTimeout = 1
    BatchSize = 1
    Backoff <- MCBackoff
    BackoffCap = 1
    Delays = {0}
    HashReplies = {"array", "object"}
    MaxFailures = 0
    FailBy = 1
    MaxTime = 4
SPECIFICATION Spec
INVARIANTS
    OneWorkerPerJob

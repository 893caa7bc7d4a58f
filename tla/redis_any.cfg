CONSTANTS
    c1 = c1
    c2 = c2
    j1 = j1
    j2 = j2
    Jobs = {j1, j2}
    Clients = {c1, c2}
    Registered = {c1}
    NoJob = NoJob
    MaxRetries = 1
    JobTimeout = 0
    BatchSize = 1
    Backoff <- MCBackoff
    BackoffCap = 1
    Delays = {0}
    HashReplies = {"array", "object"}
    MaxFailures = 1
    FailBy = 1
    MaxTime = 2
SPECIFICATION FairSpec
INVARIANTS
    IInv
    NoJobLost
    ReservedHeld
    NeverMultiplied
PROPERTIES
    EveryJobEnds

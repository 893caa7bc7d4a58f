CONSTANTS
    Jobs = {j1, j2}
    Ticks = {t1, t2}
    MaxRetries = 1
    JobTimeout = 1
    BatchSize = 1
    Backoff <- MCBackoff
    BackoffCap = 2
    Delays = {0, 1}
    MaxRun = 9
    Reconfigure = FALSE
    MaxTime = 6
    MaxObjs = 3
SPECIFICATION Spec
INVARIANTS
    RetriesLimited

CONSTANTS
    Jobs = {j1, j2}
    Ticks = {t1, t2}
    MaxRetries = 1
    JobTimeout = 1
    BatchSize = 1
    Backoff <- MCBackoff
    BackoffCap = 2
    Delays = {0, 1}
    MaxRun = 1
    Reconfigure = FALSE
    MaxTime = 9
    MaxObjs = 4
SPECIFICATION FairSpec
PROPERTIES
    ImplementsLifecycle
    EveryJobSettles

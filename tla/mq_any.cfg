CONSTANTS
    Jobs = {j1, j2}
    Ticks = {t1, t2}
    MaxRetries = 1
    JobTimeout = 1
    BatchSize = 2
    Backoff <- MCBackoff
    BackoffCap = 2
    Delays = {0, 1}
    MaxRun = 9
    Reconfigure = TRUE
    MaxTime = 4
    MaxObjs = 5
SPECIFICATION Spec
SYMMETRY Symmetric
INVARIANTS
    IInv
    UniqueEntries
    ReservedHeld
    NoJobLost
    OnceAtATime
    NoOvertaking

CONSTANTS
    r1 = r1
    n1 = n1
    n2 = n2
    Calls = {r1, n1}
    NoOwner = NoOwner
    AutoRenew = {r1}
    Ttl = 2
    Second = 2
    MaxRetries = 2
    RetryInterval = 1
    MaxRun <- MCLongRun
    MaxDelay = 1
    MaxLag = 1
    Lossy = TRUE
    Admin = TRUE
    MaxStart = 1
SPECIFICATION FairSpec
CHECK_DEADLOCK FALSE
INVARIANTS
    LeaseEnds
PROPERTIES
    EveryCallEnds

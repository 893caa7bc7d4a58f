CONSTANTS
    r1 = r1
    n1 = n1
    n2 = n2
    Calls = {r1, n1}
    NoOwner = NoOwner
    AutoRenew = {r1}
    Ttl = 5
    Second = 2
    MaxRetries = 2
    RetryInterval = 1
    MaxRun <- MCMaxRun
    MaxDelay = 1
    MaxLag = 1
    Lossy = FALSE
    Admin = FALSE
    MaxStart = 3
SPECIFICATION Spec
CHECK_DEADLOCK FALSE
INVARIANTS
    IInv
    MutualExclusion
PROPERTIES
    ImplementsExclusiveRun

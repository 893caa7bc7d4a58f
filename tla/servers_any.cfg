SPECIFICATION ServersSpec
CONSTANTS
    s1 = s1
    s2 = s2
    Servers = {s1, s2}
    n = n
    JobNames = {n}
    Redis = redis
    MaxTracked = 2
    MaxCrons = 2
    MaxFirings = 2
    MaxSwitches = 2
    Procs = {"p1", "p2"}
    Queues <- TwoQueues
    Control = "__control__"
    MaxConnects <- OneReconnects
    MaxBroadcasts = 1
    Runners = {"m1", "m2"}
    Files <- ThreeFiles
    WithoutUp = {}
    WithoutDown = {"f2"}
    Steps = {1}
    MaxEdits = 1
    MaxFailures = 1
    MaxRuns = 3
    Adapters = {"mysql", "sqlite"}
    RowIds = {1, 2}
    Values = {1, 2}
    Bounds <- OneOrTwo
    PerPage = 1
    MaxClauses = 1
    MaxCalls = 2
    MaxElsewhere = 1
    Senders = {1, 2}
    MailDrivers = {"smtp", "sendmail", "shell", "log"}
    MailMessages <- ThreeMessages
    Login = TRUE
    MaxConversations = 1
    MaxMailClock = 1
INVARIANTS
    ScheduledOnce
    BroadcastsHandled
    MigrationsRecorded
    QueriesAsMeant
    MailReported
CHECK_DEADLOCK FALSE

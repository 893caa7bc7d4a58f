SPECIFICATION RequestsSpec
CONSTANTS
    Drivers = {"plain", "memory", "file", "redis"}
    Requests = {1, 2}
    s1 = s1
    s2 = s2
    WebServers = {s1, s2}
    Keys = {"k"}
    MaxIds = 2
    MaxWire = 2
    MaxRejections = 1
    Slots = {s1, s2}
    Browsers = {"b"}
    Explicit <- FourRoutes
    AutoPaths = {"/auto"}
    TokenLife = 1
    MaxClock = 2
    MaxTokens = 2
    MaxRequests = 3
    CacheDrivers = {"memory", "file", "redis"}
    Callers = {"c1", "c2"}
    CacheKeys = {"k1", "k2"}
    HashOf <- OneFile
    Ttls = {0, 1}
    MaxVersion = 1
    MaxPuts = 2
    MaxCacheClock = 2
    Users = {"u"}
    Channels = {"ch", "ch2"}
    MaxClients = 2
    HistorySize = 2
    MaxConnections = 2
    MaxEvents = 3
    w1 = w1
    w2 = w2
    Sockets = {w1, w2}
    Programs <- TwoPrograms
    Params = {":id"}
    Hyphenless <- NoHyphens
    Singular <- OnePlural
    Begins <- ApisApi
    Controllers <- FourControllers
    MethodsOf <- TheirMethods
    PrivateMethods = {"_load", "constructor"}
    Debug = FALSE
    Builtin <- TwoOfOnePath
    Asked <- TheRequests
    Bindable = {":id"}
    RowKeys = {"5"}
    MaxAsked = 2
    Uploaders = {1, 2}
    Fields <- TwoForms
    UploadOptions <- ThreeWays
    DangerousExtensions = {"html"}
    DangerousMimeTypes = {"text/html"}
    MaxUploads = 3
    MaxInstant = 1
    Visitors = {1, 2}
    Slugs = {"a", "b"}
    SeedSlug = "a"
    MaxPosts = 3
    MaxComments = 3
    MaxTasks = 3
    Readers = {"r"}
    RowsOnPage = 2
    MaxVisible = 1
    MaxListed = 4
    MaxOpened = 3
    MaxTotal = 7
    Recorders = {1}
    Auditors = {"v"}
    AuditEvents = {"create", "login"}
    EntityTypes = {"posts"}
    AuditUsers = {"u"}
    AuditOptions <- TwoOptions
    Tracked <- PostsTracked
    Filters <- TwoQueries
    RowsOnLeaf = 1
    OldestOnly = 1
    MaxLogSize = 0
    MaxLogFiles = 2
    MaxEntries = 2
    MaxLooks = 2
    MaxDays = 2
    Viewers = {1, 2}
    Environments = {"development", "production"}
    Views = {"index", "show", "bare", "missing"}
    ViewFiles <- ThreeViews
    Layouts <- DefaultLayout
    Partials <- OnePartial
    CutAt = 2
    MaxRenders = 3
    FormFields = {"password", "password_confirmation", "age"}
    ConfirmationOf <- Password
    FieldValues <- SomeValues
    FieldRules <- EachRule
    Formats <- OneAddress
    PatternTexts <- BInAb
    CustomMessages <- OfTheField
    FormRules <- TheirRules
    MaxRules = 2
INVARIANTS
    SessionsKept
    RequestsGuarded
    CacheFresh
    RoutesServed
    StoredAsTold
    BlogKept
    PagesRight
    AuditKept
    ViewsShown
    
    ClientsServed
CHECK_DEADLOCK FALSE

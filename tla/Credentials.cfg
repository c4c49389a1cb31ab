SPECIFICATION MCSpec
CONSTANTS
    Requests = {r1, r2}
    AccessTTL = 1
    Tolerance = 1
    DenyTTL = 2
    MaxPerUser = 1
    TokenTTLs = {1, 2}
    DefaultTTL = 2
    Bases = {"short", "long"}
    LongBases = {"long"}
    MaxTokens = 3
    Nodes = {n1}
    Subjects = {u, v}
    LinkTTL = 2
    Slack = 1
    Downloads = {r1, r2}
    MaxTickets = 2
    Cooldown = 1
    RedisTimeout = 1
    People = {"ann", "bob"}
    Home <- MCHome
    Upper <- MCUpper
    Headers <- MCHeaders
    Restricted = {"DE"}
    Undetermined = {"XX"}
    Enforced = TRUE
    RawLists <- MCRawLists
    Keks = {"k1", "k2"}
    PerIpMax = 2
    PerEmailMax = 1
    VerifyMax = 1
    MaxEnds = 1
    MaxDeploys = 1
    SignedUp = {"ann"}
    FirstKek = "k1"
    Runs = {"r1"}
    Servers = {"s1"}
    Pooled = TRUE
    MaxHolds = 2
    ByPriority <- MCByPriority
    Wishlist = {"wanted"}
    MbInterval = 2
    MbMaxCalls = 2
    ItInterval = 1
    ItMaxCalls = 1
    RunDeadline = 3
    MaxFailures = 1
    CallTime = 2
    DbTime = 1
    MaxExpiries = 1
INVARIANTS SignedOutStaysOut OneSecretPerChain ShownNameWasAccepted ExportedOnce EndsInTime
PROPERTIES RefusedLeaveNoTrace
CHECK_DEADLOCK FALSE

SPECIFICATION ServicesSpec
CONSTANTS
    t1 = t1
    t2 = t2
    chat1 = chat1
    Chats = {c1, c2}
    Streams = {c1}
    MaxMessages = 3
    KeepRecent = 2
    Ids = {1,2,3,4,5,6,7,8,9}
    Reuse = FALSE
    MaxLen = 7
    MaxCalls = 1
    Faults = {"db"}
    DashChats = {d1, d2}
    DashStreams = {d1}
    DashRenames = {r1}
    Threads = {th1}
    Users = {u1}
    Titles = {a, b}
    NoUser = NoUser
    Budget = 2
    RateLimit = 2
    MaxCost = 2
    MaxActions = 4
    SshThreads = {t1, t2}
    Uses <- SshUses
    Conns = {k1, k2, k3, k4}
    NoConn = NoConn
    Dead = Dead
    MaxTries = 2
    Events = {e1}
    TgChats = {g1, g2, g3}
    MaxThreads = 2
    lark = lark
    discord = discord
    ou1 = ou1
    ou2 = ou2
    u3 = u3
    ann = ann
    anna = anna
    Platforms = {lark, discord}
    NoPlatform = NoPlatform
    Default = lark
    Accounts = {ou1, ou2, u3}
    PlatformOf <- AccountPlatforms
    Names = {ann, anna}
    Like <- NamesLike
    Sends = {s1}
    Limit = 2
    m1 = m1
    m2 = m2
    Requests = {q1, q2}
    UserIds = {x1, x2}
    Emails = {m1, m2}
    Roles = {user}
    Passwords = {w1, w2}
    AgentIds = {a1}
    KeyIds = {key1}
    NoRow = NoRow
    Keep = Keep
    Asks <- UserAsks
    Desks = {{"users"}, {"grants"}, {"keys"}}
INVARIANTS TypeOK LatestKept DashTypeOK BudgetBound RowsCached SshTypeOK BotsTypeOK OneAnswer ContactsTypeOK KindKept AccountsTypeOK
PROPERTIES RowOwnerKept SoloHeals SoloEnds CommandsRecover FilesRecover Answered NamesakePreferred NothingUndone GrantsAsAsked
CHECK_DEADLOCK FALSE

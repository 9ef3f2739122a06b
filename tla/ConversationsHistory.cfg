\* Two users and one id: three requests of any kind, one fault, two connections.
CONSTANTS
    u1 = u1
    u2 = u2
    i1 = i1
    r1 = r1
    r2 = r2
    r3 = r3
    Users = {u1, u2}
    Provisioned = {u1}
    Ids = {i1}
    GoodIds = {i1}
    Titles = {"t1", "t2"}
    Contents = {"a", "b"}
    Bodies <- MCBodies
    Requests = {r1, r2, r3}
    NoRow = NoRow
    MaxMessages = 2
    MaxList = 1
    PoolSize = 2
    MaxTime = 1
    MaxFaults = 1
SPECIFICATION Spec
INVARIANTS
    TypeOK
    MessagesOfOneSave
    ReadsAreOfVersions
    RailIsOfWholeSaves
    NotFoundIsJust
    LaterSavesAreNewer
PROPERTIES
    HistoryIsAtomic
    RequestsEnd
CHECK_DEADLOCK FALSE

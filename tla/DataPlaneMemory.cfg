\* Two keys, three requests, two windows of two ticks, one restart.
CONSTANTS
    k1 = k1
    k2 = k2
    b1 = b1
    r1 = r1
    r2 = r2
    r3 = r3
    Keys = {k1, k2}
    Owner <- MCOwner
    Brokers = {b1}
    Requests = {r1, r2, r3}
    Routes <- MCRoutes
    Bodies <- MCBodies
    NoBody = NoBody
    List = List
    Own <- MCOwn
    None = None
    Limit = 1
    WindowTime = 2
    MaxTime = 3
    MaxLives = 2
SPECIFICATION Spec
SYMMETRY Symmetry
INVARIANTS
    TypeOK
    BurstIsBounded
    TenantsShareNoPrefix
PROPERTIES
    ImplementsQuotaPerLife
CHECK_DEADLOCK FALSE

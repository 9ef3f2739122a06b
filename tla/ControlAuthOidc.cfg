\* Two keys that are published and retired, two requests, one cached key.
CONSTANTS
    k1 = k1
    k2 = k2
    s1 = s1
    s2 = s2
    r1 = r1
    r2 = r2
    Keys = {k1, k2}
    Secret = Secret
    Forged = Forged
    Subjects = {s1, s2}
    NoSubject = NoSubject
    DevUser = DevUser
    Never = Never
    NoToken = NoToken
    Tokens <- MCTokens
    Configs <- MCConfigs
    Requests = {r1, r2}
    MaxCached = 1
    Lifespan = 1
    MaxTime = 2
    MaxFaults = 1
SPECIFICATION Spec
SYMMETRY Symmetry
INVARIANTS
    TypeOK
    CallersAreVouchedFor
    
PROPERTIES
    KeysWerePublished
CHECK_DEADLOCK FALSE

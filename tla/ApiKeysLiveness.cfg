\* Two broker processes with a reaper each, crashes and failed sweeps: liveness.
CONSTANTS
    k1 = k1
    k2 = k2
    u1 = u1
    u2 = u2
    b1 = b1
    b2 = b2
    c1 = c1
    c2 = c2
    r1 = r1
    r2 = r2
    Keys = {k1}
    Users = {u1}
    Brokers = {b1, b2}
    Calls = {c1}
    Requests = {}
    Lifetimes = {1, 2}
    NoExpiry = NoExpiry
    NoRow = NoRow
    MaxSkew = 0
    MaxTime = 3
    MaxFaults = 2
SPECIFICATION FairSpec
PROPERTIES
    ExpiringKeysAreSwept

\* One clock, but an INCR may reach redis later than the bucket lives.
CONSTANTS
    k1 = k1
    k2 = k2
    b1 = b1
    b2 = b2
    r1 = r1
    r2 = r2
    r3 = r3
    r4 = r4
    Keys = {k1}
    Brokers = {b1, b2}
    Requests = {r1, r2}
    Limit = 1
    WindowTime = 2
    TTL = 3
    Ahead <- SameClock
    MaxAhead = 0
    MaxDelay = 4
    NoTTL = NoTTL
    MaxTime = 5
    MaxFaults = 0
SPECIFICATION Spec
SYMMETRY Symmetry
CHECK_DEADLOCK FALSE
INVARIANTS
    QuotaHolds

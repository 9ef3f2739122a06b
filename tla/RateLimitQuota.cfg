\* Two brokers, clocks a tick apart, windows of 2 ticks and 4 ticks to live: INCR in time.
CONSTANTS
    k1 = k1
    k2 = k2
    b1 = b1
    b2 = b2
    r1 = r1
    r2 = r2
    r3 = r3
    r4 = r4
    Keys = {k1}
    Brokers = {b1, b2}
    Requests = {r1, r2, r3}
    Limit = 1
    WindowTime = 2
    TTL = 4
    Ahead <- SecondAhead
    MaxAhead = 1
    MaxDelay = 1
    NoTTL = NoTTL
    MaxTime = 5
    MaxFaults = 1
SPECIFICATION Spec
SYMMETRY Symmetry
CHECK_DEADLOCK FALSE
INVARIANTS
    TypeOK
    QuotaHolds
    RefusalsAreEarned
    RetryAfterLeavesTheWindow
    LeaksAreFaults
PROPERTIES
    ImplementsQuota

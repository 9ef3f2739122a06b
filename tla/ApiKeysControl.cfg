\* Two control-plane slots race over two keys while clocks disagree by a tick.
CONSTANTS
    k1 = k1
    k2 = k2
    u1 = u1
    u2 = u2
    b1 = b1
    b2 = b2
    c1 = c1
    c2 = c2
    r1 = r1
    r2 = r2
    Keys = {k1, k2}
    Users = {u1, u2}
    Brokers = {b1}
    Calls = {c1, c2}
    Requests = {}
    Lifetimes = {1}
    NoExpiry = NoExpiry
    NoRow = NoRow
    MaxSkew = 1
    MaxTime = 2
    MaxFaults = 1
SPECIFICATION Spec
SYMMETRY Symmetry
INVARIANTS
    ListIsTruthful
PROPERTIES
    DeadStaysDead
    OnlyOwnerRevokesLive

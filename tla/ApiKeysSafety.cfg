\* One broker: two requests and one control-plane slot race over one key.
CONSTANTS
    k1 = k1
    k2 = k2
    u1 = u1
    u2 = u2
    b1 = b1
    b2 = b2
    c1 = c1
    c2 = c2
    r1 = r1
    r2 = r2
    Keys = {k1}
    Users = {u1, u2}
    Brokers = {b1}
    Calls = {c1}
    Requests = {r1, r2}
    Lifetimes = {1, 2}
    NoExpiry = NoExpiry
    NoRow = NoRow
    MaxSkew = 0
    MaxTime = 3
    MaxFaults = 1
SPECIFICATION Spec
SYMMETRY Symmetry
INVARIANTS
    TypeOK
    DeadKeyNeverAdmitted
    RefusalsAreJust
PROPERTIES
    BillsOnlyGrow

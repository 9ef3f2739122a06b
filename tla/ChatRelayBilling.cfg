\* Every way to cut three kinds of stream into chunks, with failures at every step.
CONSTANTS
    r1 = r1
    r2 = r2
    Requests = {r1, r2}
    Bodies <- AllBodies
    Totals = {1, 2}
    NoUsage = NoUsage
    MaxFaults = 1
SPECIFICATION Spec
SYMMETRY Symmetry
INVARIANTS
    TypeOK
    CompleteStreamsAreBilled
    BillsWereSent
    LostRowsAreExplained
CHECK_DEADLOCK FALSE

\* One stream as vLLM sends it, abandoned by its caller.
CONSTANTS
    r1 = r1
    r2 = r2
    Requests = {r1}
    Bodies <- FinalOnly
    Totals = {1, 2}
    NoUsage = NoUsage
    MaxFaults = 0
SPECIFICATION Spec
INVARIANTS
    PartialGenerationsAreBilled
CHECK_DEADLOCK FALSE

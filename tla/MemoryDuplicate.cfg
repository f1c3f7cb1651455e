SPECIFICATION Spec
CONSTANTS
    None = None
    t1 = t1
    Targets = {t1}
    TargetOf <- OneTarget
    Proposals = {p1, p2}
    Callers = {c1, c2}
    Batches = 1
    MaxCalls = 2
    MaxFaults = 0
INVARIANTS
    OnePendingPerTarget
CHECK_DEADLOCK FALSE

SPECIFICATION Spec
CONSTANTS
    None = None
    t1 = t1
    Targets = {t1}
    TargetOf <- OneTarget
    Proposals = {p1}
    Callers = {c1}
    Batches = 2
    MaxCalls = 2
    MaxFaults = 1
INVARIANTS
    FailedDeletedNothing
CHECK_DEADLOCK FALSE

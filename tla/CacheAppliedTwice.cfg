SPECIFICATION Spec
CONSTANTS
    None = None
    t1 = t1
    Targets = {t1}
    TargetOf <- OneTarget
    Proposals = {p1}
    Tunings = {p1}
    Payloads = {v1}
    Callers = {c1, c2}
    MaxCalls = 3
    MaxFaults = 0
INVARIANTS
    AppliedOnce
CHECK_DEADLOCK FALSE

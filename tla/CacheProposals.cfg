SPECIFICATION Spec
CONSTANTS
    None = None
    t1 = t1
    Targets = {t1}
    TargetOf <- OneTarget
    Proposals = {p1, p2, p3}
    Tunings = {p1, p2}
    Payloads = {v1, v2}
    Callers = {c1, c2, c3}
    MaxCalls = 4
    MaxFaults = 1
SYMMETRY Symmetry
INVARIANTS
    TypeOK
    OnePendingTuning
    RefusedUntouched
    DispatchesApproved
    AuditAgrees
PROPERTIES
    RefinesLifecycle
CHECK_DEADLOCK FALSE

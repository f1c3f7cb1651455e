SPECIFICATION Spec
CONSTANTS
    None = None
    t1 = t1
    Targets = {t1}
    TargetOf <- OneTarget
    Proposals = {p1, p2}
    Callers = {c1, c2, c3}
    Batches = 2
    MaxCalls = 5
    MaxFaults = 2
SYMMETRY Symmetry
INVARIANTS
    TypeOK
    AtMostOnce
    ClaimExclusive
    RefusedUntouched
    AppliedIsComplete
    AuditAgrees
PROPERTIES
    RefinesLifecycle
CHECK_DEADLOCK FALSE

SPECIFICATION MCSpec
CONSTANTS
    None = None
    w1 = w1
    d1 = d1
    d2 = d2
    Webhooks = {w1}
    Deliveries = {d1, d2}
    WebhookOf <- OneWebhook
    Clients = {c1}
    RetryLimits = {0, 2}
    BatchLimit = 1
    MaxCalls = 1
    MaxFaults = 1
    MaxEdits = 1
INVARIANTS
    TypeOK
    SingleFlight
    AttemptAccounting
    AttemptBound
    SuccessMeansAcked
PROPERTIES
    SettledIsFinal
    AckedNotResent
    RetryingIsResolved

SPECIFICATION FairSpec
CONSTANTS
    None = None
    w1 = w1
    d1 = d1
    d2 = d2
    Webhooks = {w1}
    Deliveries = {d1}
    WebhookOf <- OneWebhook
    Clients = {c1}
    RetryLimits = {2}
    BatchLimit = 1
    MaxCalls = 0
    MaxFaults = 1
    MaxEdits = 0
PROPERTIES
    ShutdownLosesNothing

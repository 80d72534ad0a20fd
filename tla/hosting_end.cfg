SPECIFICATION Spec
CONSTANTS
    Workers = {w1}
    Requests = {r1}
    Events = {"status", "pay", "cancel", "resume", "report", "no_key"}
    InitStage = "ready"
    Grace = 1
    Retention = 1
    Regions = 2
    MaxAttempts = 3
    LeaseTtl = 1
    Backoff = 1
    ConfirmDelay = 1
    TokenTtl = 1
    MaxNow = 3
    MaxLv = 4
    MaxServers = 2
    MaxTokens = 3
    MaxPaid = 2
PROPERTIES
    PaidTermRespected
    NeverRevived
    ReadyIsProven
    SuspendedOnSchedule

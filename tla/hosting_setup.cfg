SPECIFICATION Spec
CONSTANTS
    Workers = {w1}
    Requests = {r1}
    Events = {"report", "refuse", "crash", "fail", "price", "retry"}
    InitStage = "ordered"
    Grace = 1
    Retention = 1
    Regions = 2
    MaxAttempts = 2
    LeaseTtl = 0
    Backoff = 0
    ConfirmDelay = 1
    TokenTtl = 1
    MaxNow = 2
    MaxLv = 2
    MaxServers = 2
    MaxTokens = 2
    MaxPaid = 2
INVARIANTS
    TypeOK
    SnapshotsHold
    OneServer
    CredentialKept

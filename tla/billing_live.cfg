SPECIFICATION LiveSpec
CONSTANTS
    Requests = {r1, r2}
    Sessions = {"sA"}
    Events = {"buyA", "refundI"}
    Facts <- SomeFacts
    NoEvent = "none"
    EarnOn = TRUE
    Grace = 1
    OneOff = 2
    Bootstrap = 1
    MaxPending = 3
    MaxNow = 2
    MaxCrashes = 1
    MaxForgotten = 0
    MaxResends = 1
INVARIANTS
    EarnOnlyApplied
PROPERTIES
    EventsApplied
    EarnEventually
CHECK_DEADLOCK FALSE

SPECIFICATION Spec
CONSTANTS
    Requests = {r1, r2}
    Sessions = {"sA"}
    Events = {"subscribe", "paid", "refused"}
    Facts <- SomeFacts
    NoEvent = "none"
    EarnOn = FALSE
    Grace = 1
    OneOff = 2
    Bootstrap = 1
    MaxPending = 3
    MaxNow = 2
    MaxCrashes = 0
    MaxForgotten = 0
    MaxResends = 0
SYMMETRY Symmetry
INVARIANTS
    PaidTermStands
CHECK_DEADLOCK FALSE

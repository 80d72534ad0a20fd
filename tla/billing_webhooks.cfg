SPECIFICATION Spec
CONSTANTS
    Requests = {r1, r2}
    Sessions = {"sA", "sB"}
    Events = {"buyA", "buyB", "paid", "disputeA", "refused", "subscribe"}
    Facts <- SomeFacts
    NoEvent = "none"
    Grace = 1
    OneOff = 1
    Bootstrap = 1
    EarnOn = FALSE
    MaxPending = 3
    MaxNow = 2
    MaxCrashes = 1
    MaxForgotten = 1
    MaxResends = 0
INVARIANTS
    TermsStack
    NoFreeTerms
    SeenIsPaidOut
PROPERTIES
    RevokedStays
    NeverShortened
SYMMETRY Symmetry
CHECK_DEADLOCK FALSE

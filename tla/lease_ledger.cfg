SPECIFICATION Spec
CONSTANTS
    Hubs = {h1, h2}
    Pids = {p1, p2}
    NoOne = none
    RotateAt = 2
    MaxEvents = 5
    MaxFailures = 3
SYMMETRY Symmetry
INVARIANTS
    Kept
    DecidedOnTheLog
PROPERTIES
    KeepsItsPromise
CHECK_DEADLOCK FALSE

SPECIFICATION Spec
CONSTANTS
    Licences = {l1}
    Activations = {a1, a2}
    Nonces = {n1, n2, n3}
    Installs = {i1, i2}
    Keys = {k1, k2}
    NoOne = none
    DefaultLimit = 1
    MaxLimit = 2
    Ttl = 2
    Lag = 1
    LeaseTime = 1
    Skew = 0
    Hour = 3
    MaxOutstanding = 2
    MaxPerHour = 3
    Expiries = {2, 3}
    MaxTime = 2
    MaxDrift = 1
    MaxFailures = 1
SYMMETRY Symmetry
INVARIANTS
    TypeOK
    SeatsHeld
    MachinesDiffer
    OneUsePerRevision
    LeasesInOrder
PROPERTIES
    LockedGainsNothing
CHECK_DEADLOCK FALSE

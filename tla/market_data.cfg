SPECIFICATION Spec
CONSTANTS
    Cap = 1
    MaxConns = 2
    MaxGen = 3
    BarPairs = {"a"}
    MaxMinute = 2
    MaxRev = 2
    MaxFrames = 2
    MaxDeferred = 1
    LiqPerps = {"a", "b"}
    MaxRuns = 2
    MaxEvents = 1
    MaxAnswers = 1
    Prices = {1, 2}
    MaxVolume = 2
    MaxBucket = 4
    Times = 3
    InWindow = 2
    MinRate = 1
    MaxRate = 4
    Cooldown = 1
    MaxCooldown = 2
    RetryAfter = {0, 3}
    Streak = 2
    Memory = 4
    RefreshEvery = 3
    StallAfter = 2
    FailingAfter = 2
    MaxTime = 6
    Collectors = 2
    Steps = 2
    MaxDay = 3
    MaxStarts = 2
    Symbols = {"x", "y"}
    FirstListed = {"x"}
    NV = 1
    Ceiling = 3
    PagesPlan = 1
    MaxPages = 1
    MapEvery = 1
    CapEvery = 2
    Ttl = 2
    Month = 2
    Ladder = 1
    MaxNow = 2
INVARIANTS
    FinalBarsOnly
    StreamTold
    HistoryIsKept
    AnswersSettle
    UsageIsBounded
PROPERTIES
    WritesAreOwned
CHECK_DEADLOCK FALSE

CONSTANTS
    wd1 = wd1
    wd2 = wd2
    WkDevs = {wd1, wd2}
    WkQueues <- TwoEach
    WkDepth = 1
    WordBits = 2
    WkWords = 2
    PoolSlots = 1
    InboxCap = 1
    MaxIos = 4
    FewIos = 1
    MaxLate = 1
    WkNone = WkNone
    WkScenarios = {{"scarce"}, {"scarce", "late"}, {"late", "reuse"}, {"second"}, {"panic"}, {"oom", "cold"}, {"shutdown"}, {"no_ring", "shutdown"}}
SPECIFICATION WkLiveSpec
INVARIANTS RemovedIsReleased NothingLost
PROPERTIES WorkerProgress
CONSTRAINT Bounds
CHECK_DEADLOCK FALSE

SPECIFICATION FairSpec
CONSTANTS
    Callers = {"sched", "monitor", "drain", "reader"}
    Threshold = 2
    HalfOpenPermits = 2
    Blocks = {b1}
    FlushThreshold = 1
    MaxBackoff = 2
    PutAttempts = 2
    DrainIterations = 2
    MaxPanics = 2
    MaxWrites = 1
    MaxOutages = 1
    Scenarios = {{"panic", "compaction", "reads"}, {"drain", "pressure"}, {"drain", "disconnect"}, {"pressure", "pressure_timeout"}, {"conflict", "drain", "teardown"}, {"reads", "lost"}}
INVARIANTS PermitsAccounted FlushesAccounted
PROPERTIES SchedulerProgress
CHECK_DEADLOCK FALSE

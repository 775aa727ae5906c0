SPECIFICATION MCSpec
CONSTANTS
    Blocks = {0}
    Writers = {w1}
    MaxSkips = 1
    MaxSeq = 1
    Scenarios <- WriterScenes
    RBlocks = {1, 2}
    Readers = {"r1"}
    RWrites = 2
    RTotal = 2
    RPacks = 3
    RReads = 1
    RScenarios <- IndexPressure
    Vols = {v1, v2}
    Base = Base
    Reqs = {r1, r2}
    None = None
    NbdVols = {v2}
    MaxSize = 2
    MaxWrites = 0
    MaxOps = 0
    MaxFailures = 1
    MaxCrashes = 1
    ExScenarios = {{"snapshot", "purge"}, {"resize"}, {"attach_error", "crash"}, {"boot_error", "crash"}, {"disconnect"}}
SYMMETRY RequestSymmetry
INVARIANT ReadsFresh
CHECK_DEADLOCK FALSE

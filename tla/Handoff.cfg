CONSTANTS
    Vols = {v1, v2}
    NbdVols = {}
    FlushVols = {v1}
    None = None
    MaxWrites = 2
    MaxFiles = 3
    MaxOps = 1
    MaxCrashes = 1
    Scenarios = {{"churn"}, {"flush", "s_exit", "timeout"}, {"crash", "s_exit"},
        {"freeze_error", "cutover_error", "recover_error"},
        {"cutover_error", "revive_error", "s_exit"}, {"dry_run", "crash"}, {"flush", "inflight"},
        {"unconnected"}, {"s_exit_cut"}, {"s_exit_live"}, {"late"}, {"linger"}, {"outlives", "timeout"}}
SPECIFICATION HandoffLiveSpec
INVARIANTS
    HandoffExact
    HandoffCanFail
PROPERTIES
    DevicesReturn
CHECK_DEADLOCK FALSE

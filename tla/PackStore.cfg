CONSTANTS
    Vols = {v1, v2}
    Shared = Shared
    Apart <- OwnPool
    First = {v1}
    Layers = {l1, l2}
    None = None
    Batches <- Contents
    Zero = Zero
    Grace = 3
    OpTicks = 1
    MaxDeletes = 1
    MaxOps = 2
    MaxFlushes = 3
    MaxGcFlushes = 2
    MaxFaults = 1
    Scenarios = {{"compact", "legacy", "fault"}, {"snapshot", "fork", "fault"}, {"gc", "compact", "snapshot", "fork"}, {"gc", "snapshot", "fork", "purge"}, {"gc", "compact", "mid_flush"}, {"gc", "purge", "mid_flush"}, {"gc", "create", "purge", "gc_error"}, {"gc", "layers", "mid_flush"}, {"gc", "layers", "gc_error"}, {"gc", "layers", "fault"}, {"gc", "create", "purge", "pools"}, {"gc", "gc_dies", "sidecar"}}
SPECIFICATION StoreLiveSpec
INVARIANTS DataKept LiveExact
PROPERTIES GarbageReclaimed
CHECK_DEADLOCK FALSE

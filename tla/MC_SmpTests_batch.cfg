SPECIFICATION TestsSpec
CONSTANTS
    CPU = {c0, c1}
    BSP = c0
    BATCH = 1
    Sessions <- SyncThenAtomic
INVARIANTS
    FixedBatch
CHECK_DEADLOCK FALSE

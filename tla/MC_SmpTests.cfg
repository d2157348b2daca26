SPECIFICATION FairTestsSpec
CONSTANTS
    CPU = {c0, c1, c2}
    BSP = c0
    BATCH = 2
    Sessions <- AllSessions
INVARIANTS
    MutualExclusion
    HealthyTestsPass
PROPERTIES
    PassIsEarned
    Rendezvous
    TestsEnd
    ImplementsSpinlock
CHECK_DEADLOCK FALSE

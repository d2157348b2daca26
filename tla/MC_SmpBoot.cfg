SPECIFICATION FairSpec
CONSTANTS
    BSP = 0
    Tables <- SmallTables
    MAX_CPUS = 3
    PAGES = {1, 2}
INVARIANTS
    StacksPrivate
    OnlineExact
    StartedMeansUp
PROPERTY BootEnds
CHECK_DEADLOCK FALSE

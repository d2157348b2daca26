SPECIFICATION FairSpec
CONSTANT NTASKS = 3
INVARIANTS
    CyclesRejected
    LockWhenNeeded
    DependenciesFirst
PROPERTY InvocationEnds

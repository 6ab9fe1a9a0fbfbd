CONSTANTS
    Cores = {c0, c1}
    Locks = {tasks_lock, pa_alloc_lock}
    NoLock = NoLock
    NoCpu = NoCpu
    MaxNest = 2
SPECIFICATION FairSpec
INVARIANTS
    TypeOK
    MutualExclusion
    NoSelfDeadlock
    NameTellsHolder
PROPERTIES
    LockReleased
    ImplementsSpinMutex

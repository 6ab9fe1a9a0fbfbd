CONSTANTS
    Cores = {c0, c1}
    Primary = c0
    NumPages = 22
    PoolSizes <- MCPools
    MaxCalls = 2
    Levels = 4
    Fan = {0, 1}
    TMP <- MCTmp
    KERN <- MCKern
    SHARED <- MCShared
    DEVICES <- MCDevices
    KSTACK <- MCKstack
    MY_CPU <- MCMyCpu
    TRAPFRAME <- MCTrapframe
    STACK <- MCStack
    TRAMPOLINE <- MCTrampoline
    USER <- MCUser
SPECIFICATION Spec
CHECK_DEADLOCK FALSE
INVARIANTS
    TypeOK
    KernelMapped
    TasksMapped
    TablesPrivate

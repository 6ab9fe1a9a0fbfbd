CONSTANTS
    Cores = {c0, c1, c2}
    CAP = 2
    MaxTasks = 3
SPECIFICATION FairSpec
CHECK_DEADLOCK FALSE
INVARIANTS
    TypeOK
    TasksConserved
    RunningNotQueued
    NoOverrun
    ScheduleAlone

    

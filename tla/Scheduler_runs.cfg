CONSTANTS
    Cores = {c0, c1}
    CAP = 4
    MaxTasks = 4
SPECIFICATION FairSpec
CHECK_DEADLOCK FALSE
PROPERTIES
    EveryTaskRuns

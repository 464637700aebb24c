SPECIFICATION FairSpec
CONSTANTS
    CpuCount = 2
    TASK_QUEUE_COUNT = 3
    t1 = t1
    t2 = t2
    t3 = t3
    Tasks <- MCTasks
    NoTask = NoTask
    CpuCoreNone = none
INVARIANTS
    OneHome
    Conserving
    UrgentFirst
    FixEnds
PROPERTY
    NoStarvation

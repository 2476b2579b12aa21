\* Pools of both modes that are used and destroyed; a CACHE pool grows and shrinks
SPECIFICATION LiveSpec
CONSTANTS
    t1 = t1
    t2 = t2
    t3 = t3
    t4 = t4
    w1 = w1
    w2 = w2
    w3 = w3
    Task = {t1, t2, t3, t4}
    NoTask = NoTask
    Worker = {w1, w2, w3}
    Started = {w1, w2}
    MaxThreads = 3
    TaskMax = 2
INVARIANTS CountersExact ThreadsWithinLimits
PROPERTIES AcceptedTasksRun FixedDestructorReturns ImplementsTaskQueue
CHECK_DEADLOCK FALSE

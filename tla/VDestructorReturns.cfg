\* A CACHE pool is destroyed while a thread retires
SPECIFICATION LiveSpec
CONSTANTS
    t1 = t1
    t2 = t2
    t3 = t3
    t4 = t4
    w1 = w1
    w2 = w2
    w3 = w3
    Task = {t1, t2}
    NoTask = NoTask
    Worker = {w1, w2}
    Started = {w1}
    MaxThreads = 2
    TaskMax = 2
PROPERTIES DestructorReturns
CHECK_DEADLOCK FALSE

\* A leader nobody deposes, one connection may be lost: heartbeats and retries do their work
SPECIFICATION LiveSpec
CONSTANTS
    n1 = n1
    n2 = n2
    n3 = n3
    Server = {n1, n2}
    Nil = Nil
    Value = {v1}
    v1 = v1
    NoCommand = NoCommand
    InitialConns <- AllConns
    MaxTerm = 3
    MaxLog = 2
    MaxQueue = 2
    MaxHeartbeats = 1
    MaxCrashes = 0
    MaxBreaks = 1
INVARIANTS NextIndexPositive TypeOK
PROPERTIES LeaderLogReplicated
CHECK_DEADLOCK FALSE

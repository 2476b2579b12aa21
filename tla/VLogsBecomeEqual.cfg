\* An entry is proposed before one connection of the leader is up
SPECIFICATION LiveSpec
CONSTANTS
    n1 = n1
    n2 = n2
    n3 = n3
    Server = {n1, n2, n3}
    Nil = Nil
    Value = {v1}
    v1 = v1
    NoCommand = NoCommand
    InitialConns <- LateConn
    MaxTerm = 1
    MaxLog = 1
    MaxQueue = 1
    MaxHeartbeats = 1
    MaxCrashes = 0
    MaxBreaks = 0
PROPERTIES LogsBecomeEqual
CHECK_DEADLOCK FALSE

\* A call meets a leader, a follower, or a node that knows no leader
SPECIFICATION KvSpec
CONSTANTS
    n1 = n1
    n2 = n2
    n3 = n3
    k1 = k1
    d1 = d1
    Server = {n1, n2}
    Nil = Nil
    Key = {k1}
    Data = {d1}
    Absent = Absent
    Value <- Command
    NoCommand = NoCommand
    InitialConns <- AllConns
    MaxTerm = 2
    MaxLog = 1
    MaxQueue = 1
    MaxHeartbeats = 0
    MaxCrashes = 0
    MaxBreaks = 0
    MaxRetries = 3
    MaxCalls = 1
    MaxLost = 0
INVARIANTS AckedOnMajority
PROPERTIES FollowerReadsRedirected EveryCallFollows
CHECK_DEADLOCK FALSE

\* A call while leaders change, a node crashes and a connection is lost
SPECIFICATION KvLiveSpec
CONSTANTS
    n1 = n1
    n2 = n2
    n3 = n3
    k1 = k1
    d1 = d1
    Server = {n1, n2}
    Nil = Nil
    Key = {k1}
    Data = {d1}
    Absent = Absent
    Value <- Command
    NoCommand = NoCommand
    InitialConns <- AllConns
    MaxTerm = 2
    MaxLog = 1
    MaxQueue = 1
    MaxHeartbeats = 0
    MaxCrashes = 1
    MaxBreaks = 1
    MaxRetries = 2
    MaxCalls = 1
    MaxLost = 1
INVARIANTS WriteOutcome
PROPERTIES CallReturns
CHECK_DEADLOCK FALSE

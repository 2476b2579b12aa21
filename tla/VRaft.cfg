\* A follower with a longer log confirms what it does not hold; a deposed leader reads a reply of a later term
SPECIFICATION Spec
CONSTANTS
    n1 = n1
    n2 = n2
    n3 = n3
    Server = {n1, n2, n3}
    Nil = Nil
    Value = {v1}
    v1 = v1
    NoCommand = NoCommand
    InitialConns <- AllConns
    MaxTerm = 2
    MaxLog = 1
    MaxQueue = 1
    MaxHeartbeats = 1
    MaxCrashes = 0
    MaxBreaks = 0
SYMMETRY Symmetry
INVARIANTS CommittedOnMajority
PROPERTIES HigherTermStepsDown
CHECK_DEADLOCK FALSE

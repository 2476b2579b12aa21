\* Elections with a crash, at any write of a persist
SPECIFICATION Spec
CONSTANTS
    n1 = n1
    n2 = n2
    n3 = n3
    v1 = v1
    Server = {n1, n2, n3}
    Nil = Nil
    Value = {}
    NoCommand = NoCommand
    InitialConns <- AllConns
    MaxTerm = 2
    MaxLog = 0
    MaxQueue = 1
    MaxHeartbeats = 0
    MaxCrashes = 1
    MaxBreaks = 0
SYMMETRY Symmetry
INVARIANTS ElectionSafety VotesDurable VotesCountedOnce LeaderHintElected HintsEnd
PROPERTIES TermMonotonic ImplementsElection
CHECK_DEADLOCK FALSE

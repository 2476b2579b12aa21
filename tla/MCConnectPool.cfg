\* Four clients, the producer and the reaper
SPECIFICATION Spec
CONSTANTS
    c1 = c1
    c2 = c2
    c3 = c3
    c4 = c4
    Client = {c1, c2, c3, c4}
    InitSize = 1
    MaxSize = 3
    Standalone = FALSE
    MaxFails = 1
SYMMETRY Symmetry
INVARIANTS CreatedExact FreeExact SizeWithinLimits
PROPERTIES ImplementsBoundedPool
CHECK_DEADLOCK FALSE

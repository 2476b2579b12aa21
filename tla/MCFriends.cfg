\* Two users, four requests, a statement that fails
SPECIFICATION Spec
CONSTANTS
    u1 = u1
    u2 = u2
    User = {u1, u2}
    MaxRequests = 4
    MaxFaults = 1
SYMMETRY Symmetry
INVARIANTS AgreedListed ApplicationKept
CHECK_DEADLOCK FALSE

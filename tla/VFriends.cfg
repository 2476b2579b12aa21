\* Two requests
SPECIFICATION Spec
CONSTANTS
    u1 = u1
    u2 = u2
    User = {u1, u2}
    MaxInputs = 2
    MaxFaults = 0
INVARIANTS FriendsMutual ClientsSurvive
PROPERTIES RefusedGone Consent
CHECK_DEADLOCK FALSE

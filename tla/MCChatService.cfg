\* Two sessions of one user on one server, a message from either server
SPECIFICATION Spec
CONSTANTS
    u1 = u1
    u2 = u2
    c1 = c1
    c2 = c2
    s1 = s1
    s2 = s2
    m1 = m1
    User = {u1}
    Conn = {c1, c2}
    Server = {s1, s2}
    Msg = {m1}
    l1 = l1
    l2 = l2
    Login = {l1, l2}
    ServerOf <- OneServer
    None = None
    Registered = {}
    MaxFaults = 1
SYMMETRY Symmetry
INVARIANTS LocalDelivery MappedSubscribed
CHECK_DEADLOCK FALSE

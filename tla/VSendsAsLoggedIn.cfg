\* Two logins, one after the other, with different accounts
SPECIFICATION ClientSpec
CONSTANTS
    u1 = u1
    u2 = u2
    c1 = c1
    c2 = c2
    s1 = s1
    s2 = s2
    l1 = l1
    l2 = l2
    m1 = m1
    User = {u1, u2}
    Conn = {c1}
    Server = {s1}
    Login = {l1}
    Msg = {m1}
    ServerOf <- OneServer
    None = None
    Registered = {u1, u2}
    MaxFaults = 0
    Backslashed = {}
    MaxInputs = 2
    MaxDrops = 0
INVARIANT SendsAsLoggedIn
CHECK_DEADLOCK FALSE

CONSTANTS
    s1 = s1
    s2 = s2
    c1 = c1
    c2 = c2
    c3 = c3
    None = None
    Servers = {s1, s2}
    Conns = {c1, c2, c3}
    Users = {u1}
    ServerOf <- TwoPorts
    Listened = {s2}
    MaxFrames = 0
    MaxErrors = 0
SPECIFICATION FairSpec
CHECK_DEADLOCK FALSE
PROPERTIES
    ConnectionsServed
    ShutdownReturns

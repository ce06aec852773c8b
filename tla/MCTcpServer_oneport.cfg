CONSTANTS
    s1 = s1
    s2 = s2
    c1 = c1
    c2 = c2
    c3 = c3
    None = None
    Servers = {s1}
    Conns = {c1, c2, c3}
    Users = {u1}
    ServerOf <- OnePort
    Listened = {s1}
    MaxFrames = 1
    MaxErrors = 1
SPECIFICATION Spec
SYMMETRY Symmetry
CHECK_DEADLOCK FALSE
INVARIANTS
    OneClient
    MemorySafe
    ServesItsClient
PROPERTY
    WriteTargetStable
    ImplementsClientSlot

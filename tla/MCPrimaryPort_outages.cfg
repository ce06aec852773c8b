CONSTANTS
    None = None
    Users = {u1}
    Types = {t1}
    MaxMessages = 1
    MaxOutages = 2
    MaxConnects = 2
    MaxThrows = 1
    MaxCalls = 2
    ReusePackages = TRUE
    HeadsMaySplit = TRUE
    BodiesMayBeLate = TRUE
SPECIFICATION FairSpec
INVARIANT
    ReportsHaveConnections
PROPERTIES
    DisconnectReturns
    Reconnects

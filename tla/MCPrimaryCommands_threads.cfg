SPECIFICATION FairSpec
CONSTANTS
    Users = {u1, u2}
    MaxCalls = 1
    MaxOutages = 1
    ShortPackages = TRUE
    None = None
INVARIANT TrueWasSeen
PROPERTY CommandsReturn
CHECK_DEADLOCK FALSE

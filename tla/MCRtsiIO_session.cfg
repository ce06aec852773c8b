CONSTANTS
    Setters = {u1}
    Outputs = {o1}
    MaxConnects = 3
    MaxLosses = 2
    MaxRefusals = 1
    MaxCalls = 1
    InitialAlive = {TRUE, FALSE}
    HasOutput = TRUE
    HasInput = TRUE
SPECIFICATION FairSpec
INVARIANTS
    ThreadHasSocket
    ConnectedIsReal
PROPERTIES
    CallsReturn
    LossNoticed

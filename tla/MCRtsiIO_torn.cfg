CONSTANTS
    Setters = {u1}
    Outputs = {o1}
    MaxConnects = 1
    MaxLosses = 0
    MaxRefusals = 0
    MaxCalls = 1
    InitialAlive = {FALSE}
    HasOutput = TRUE
    HasInput = TRUE
SPECIFICATION Spec
INVARIANTS
    OutputsWereAsked

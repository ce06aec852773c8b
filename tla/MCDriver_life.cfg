SPECIFICATION FairSpec
CONSTANTS
    Clients = {c1}
    MaxScripts = 2
    MaxFetched = 1
INVARIANTS InitAllOrNothing StopTrueMeansStopped
PROPERTIES StopControlReturns ScriptConnects
CHECK_DEADLOCK FALSE

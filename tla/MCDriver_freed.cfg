SPECIFICATION Spec
CONSTANTS
    Clients = {c1}
    MaxScripts = 1
    MaxFetched = 1
INVARIANT NoUseAfterFree
CHECK_DEADLOCK FALSE

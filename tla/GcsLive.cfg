CONSTANTS
    Calls = {q, w}
    q = q
    w = w
    Waits = {w}
    Cancellable = {}
    Negotiates = {}
    Containers = {}
    MaxConns = 2
    Sides = {"source"}
    MaxWindows = 1
    WaitID <- MCWaitID
    SourceNextID = 2
    Opening <- MCOpening
    None = None
SPECIFICATION FairSpec
PROPERTIES
    CallsReturn
CHECK_DEADLOCK FALSE

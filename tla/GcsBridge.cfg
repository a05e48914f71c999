CONSTANTS
    Calls = {n, q, w}
    n = n
    q = q
    w = w
    Waits = {w}
    Cancellable = {n, q}
    Negotiates = {n}
    Containers = {k}
    k = k
    MaxConns = 2
    Sides = {"source", "destination"}
    MaxWindows = 1
    WaitID <- MCWaitID
    SourceNextID = 2
    Opening <- MCOpening
    None = None
SPECIFICATION Spec
INVARIANTS
    NeverPanics
    NoCallLost
    AnsweredByOwn
CHECK_DEADLOCK FALSE

CONSTANTS
    Pods = {p1, p2}
    p1 = p1
    p2 = p2
    Drivers = {d1, d2}
    d1 = d1
    d2 = d2
    Cancellers = {k1, k2}
    k1 = k1
    k2 = k2
    MaxSessions = 1
    Quiesces = FALSE
    None = None
    Faults = {"initialize", "save", "saveDevices", "savePod", "start", "create", "patch", "socket", "timeout", "transfer", "finalize", "resume", "accept", "resumePod", "cancel", "close", "exit", "stop"}
    Subscribers = {s1, s2}
    s1 = s1
    s2 = s2
    subscriberBuffer = 2
    notifyBufferSize = 2
    MaxEvents = 3
    MaxNotifiers = 2
SPECIFICATION WatchedSpec
SYMMETRY Symmetry
INVARIANTS
    TransferOwned
    StreamsOnlyExported
    StreamsFaithful
CHECK_DEADLOCK FALSE

CONSTANTS
    Pods = {p1, p2}
    p1 = p1
    p2 = p2
    Drivers = {d1}
    d1 = d1
    Cancellers = {k1}
    k1 = k1
    MaxSessions = 2
    Quiesces = TRUE
    None = None
    Faults = {"initialize", "save", "saveDevices", "savePod", "start", "create", "patch", "socket", "timeout", "transfer", "finalize", "resume", "accept", "resumePod", "cancel", "exit", "stop"}
SPECIFICATION FairSpec
INVARIANTS
    RunningIsThawed
    FinalizedIsSettled
PROPERTIES
    WoundDown
    ImplementsSession
CHECK_DEADLOCK FALSE

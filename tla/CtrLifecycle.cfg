CONSTANTS
    l1 = l1
    l2 = l2
    m1 = m1
    m2 = m2
    v1 = v1
    None = None
    e1 = e1
    d1 = d1
    d2 = d2
    RoLayers <- TwoLayers
    Scratch = s1
    Disks <- OneDisk
    Shares <- OneShare
    Devices <- OneDevice
    DeleteStateSupported = TRUE
    Flaky = {"overlay", s1, l1, l2}
    Init0 = init
    Execs = {e1}
    Deleters = {d1, d2}
    Faults = {"start", "startInit", "startExec", "io", "guest", "reserve", "map", "timeout", "vm"}
SPECIFICATION FairSpec
INVARIANTS
    ClosedOnce
    ExitPublished
    FreezeAgrees
    Tracked
    DeletedReleased
    DeletePossible
PROPERTIES
    ExitReported
CHECK_DEADLOCK FALSE

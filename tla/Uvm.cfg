CONSTANTS
    c1 = c1
    c2 = c2
    c3 = c3
    c4 = c4
    c5 = c5
    a = a
    b = b
    fs = fs
    raw = raw
    spot = spot
    l0 = l0
    l1 = l1
    l2 = l2
    l3 = l3
    l4 = l4
    l5 = l5
    d1 = d1
    d2 = d2
    f1 = f1
    f2 = f2
    Callers = {c1, c2, c3, c4, c5}
    Teams <- SharersOrNone
    Wanted <- Requests
    NumSlots = 2
    ReservedSlots = {0}
    Cancellable = {c5}
    Faults = {"attach", "mount", "unmount", "unplug", "detach"}
    None = None
    Taken = Taken
    NumClasses = 3
    MinimumClassSize = 4
    Word = 1024
    Layers = {l0, l1, l2, l3, l4, l5}
    LayerSize <- Sizes
    VPMemMaxCount = 2
    VPMemMaxSize = 64
    MaxMappedDeviceCount = 3
    PageSize = 2
    PmemFaults = {"hostAdd", "guestAdd", "rollback", "guestRemove", "hostRemove"}
    MaxPmemFaults = 1
    MaxLayerRefs <- LayerRefs
    Nil = Nil
    Shareable <- Paths
    NoFile = NoFile
    PciDevices = {d1, d2}
    ShareFaults = {"removeShare", "removeDevice"}
    MaxSharers = 2
    Absent = Absent
    Containers = {c1, c2}
    Shapes <- OneOrTwo
    ReleaseFails = TRUE
    MaxAttempts = 5
SPECIFICATION UvmSpec
INVARIANTS
    DisksServed
    LayersPacked
    ResourcesServed
    CreationUndone
PROPERTIES
    AddsReturn
CHECK_DEADLOCK FALSE

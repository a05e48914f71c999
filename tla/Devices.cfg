SPECIFICATION DevicesSpec
CONSTANTS
    Ids = {i1, i2}
    Paths = {a, b}
    NumSlots = 3
    Partitions = {0, 1}
    DiskConfigs = {ro}
    MountConfigs = {fs}
    Rootfs <- RootInFirstSlot
    Faults = {"unmount", "remove"}
    MaxPending = 2
    MaxSaves = 1
    RefModulus = 16
    None = None
    Sharers = {c1, c2, c3}
    HostPaths = {h1, h2}
    ShareConfigs <- Directory
    noWritableFileShares = FALSE
    Plan9Faults = {"addShare", "mountShare", "unmountShare"}
    Names = {1, 2, 3, 4, 5, 6}
    NoConfig = NoConfig
    Assigners = {k1, k2, k3}
    PciDevices = {v1, v2}
    VpciFaults = {"addDevice", "waitDevice", "removeDevice"}
    MaxGuids = 4
    EndpointNames = {e0, e1}
    Eth0 = {e0}
    NetFaults = {"lookup", "addNic", "addInterface", "removeInterface", "removeNic", "resumeContainer"}
    MaxMoves = 2
    MaxNics = 8
INVARIANTS
    DevicesServed
    DevicesReclaimed
PROPERTIES
    DevicesReleased

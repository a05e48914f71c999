SPECIFICATION Spec
CONSTANTS
    Ids = {i1, i2, i3}
    Paths = {a, b}
    NumSlots = 3
    Partitions = {0}
    DiskConfigs = {ro}
    MountConfigs = {fs}
    Rootfs <- RootInFirstSlot
    Faults = {"add", "mount", "unmount", "eject", "remove"}
    MaxPending = 2
    MaxSaves = 1
    RefModulus = 16
    None = None
INVARIANTS
    NoImageTwice
    BusMatchesSlots
    GuestMountsTracked
    FrozenIsSnapshot
SYMMETRY IdSymmetry
CHECK_DEADLOCK FALSE

SPECIFICATION Spec
CONSTANTS
    s = s
    c = c
    x = x
    s1 = s1
    s2 = s2
    x1 = x1
    w3 = w3
    n1 = n1
    n2 = n2
    c1 = c1
    c2 = c2
    e1 = e1
    w1 = w1
    w2 = w2
    None = None
    Ids = {s, c}
    Objs = {s1}
    Execs = {}
    Waits = {}
    Nics = {}
    Policy = TRUE
    LayerPaths <- TwoLayers
    DiskPaths <- Disk
    SharePaths <- Share
    Sources = {d1}
    LayersOf <- LayerLists
    Scenarios <- OneScenario
    IdOf <- OneIdOf
    Kind <- LoneKind
    SandboxOf <- LoneSandbox
    ExecOf <- NoExecs
    WaitOn <- NoWaits
    RootOf <- Root
    Scratches <- ScratchPaths
INVARIANTS
    MetadataAgrees
    OverlayBacked
CONSTRAINT
    LostBound
CHECK_DEADLOCK FALSE

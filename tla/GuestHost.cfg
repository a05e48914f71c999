SPECIFICATION Spec
CONSTANTS
    s = s
    c = c
    x = x
    s1 = s1
    s2 = s2
    x1 = x1
    w3 = w3
    n1 = n1
    n2 = n2
    c1 = c1
    c2 = c2
    e1 = e1
    w1 = w1
    w2 = w2
    None = None
    Ids = {s, c, x}
    Objs = {s1, s2, c1, c2, x1}
    Execs = {e1}
    Waits = {w1, w2, w3}
    Nics = {n1, n2}
    Policy = FALSE
    LayerPaths = {}
    DiskPaths = {}
    SharePaths = {}
    Sources = {}
    LayersOf = {}
    Scenarios <- PodScenarios
    IdOf <- PodIdOf
    Kind <- PodKind
    SandboxOf <- PodSandbox
    ExecOf <- PodExecOf
    WaitOn <- PodWaits
    RootOf <- NoRoot
    Scratches <- NoScratches
INVARIANTS
    PodsAgree
    CountExact
    AdaptersMoved
PROPERTIES
    ExitDelivered
CHECK_DEADLOCK FALSE

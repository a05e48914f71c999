------------------------- MODULE ContainerCreation -------------------------
(***************************************************************************)
(* What hcsoci.CreateContainer acquires for a container, what a failure    *)
(* half-way undoes, and what ReleaseResources gives back when the          *)
(* container is gone (internal/hcsoci, internal/layers, internal/devices,  *)
(* internal/resources, internal/credentials).                              *)
(*                                                                         *)
(* A creation is a sequence of calls in stages.  The function a stage      *)
(* stands for undoes what it acquired if a call of its own fails; when it  *)
(* returns, what it acquired is handed to the Resources of the container,  *)
(* which are released when a later stage fails.                            *)
(*                                                                         *)
(* The kinds are "lcow", "wcow" (WCIFS layers) and "wcowCim" (block CIM    *)
(* layers) in a utility VM, "argon" (WCIFS) and "argonCim" (CIM) on the    *)
(* host, and "none" for a container that is not created.                   *)
(***************************************************************************)
EXTENDS Naturals, SequencesExt

CONSTANTS
    Containers,
    Shapes,       \* for each behaviour, what the containers are: their kind, whether
                  \* one is the sandbox of its pod, and the optional stages
    ReleaseFails, \* can a release fail?
    MaxAttempts   \* attempts at preparing a layer (5 in the code)

VARIABLES
    making,  \* the creation of each container, and its Resources
    has,     \* external: what is there for each container, on the host or in the VM
    cim      \* blockCIMMounts: the one entry, and whether the guest has it mounted

creationVars == <<making, has, cim>>

Hosted(k) == k \in {"lcow", "wcow", "wcowCim"}
HostedWindows(k) == k \in {"wcow", "wcowCim"}

-----------------------------------------------------------------------------
(* The calls.                                                               *)

Get(stage, x) == [stage |-> stage, call |-> x, gets |-> <<x>>]
Try(stage, call) == [stage |-> stage, call |-> call, gets |-> <<>>]
When(condition, calls) == IF condition THEN calls ELSE <<>>

\* addSpecGuestDrivers, with InstallDrivers of one driver.
InstallDrivers(stage, driver) == <<Get(stage, driver), Try(stage, "install")>>

createNetworkNamespace == <<Get("namespace", "namespace"), Try("namespace", "endpoints")>>

\* SetupNetworkNamespace of the VM, and its two halves.
AddNetNS == Get("network", "netns")
AddEndpointsToNS == Try("network", "addNICs")
SetupNetworkNamespace == <<AddNetNS, AddEndpointsToNS>>

configureSandboxNetwork(k) ==
    createNetworkNamespace \o When(Hosted(k), SetupNetworkNamespace)

\* MountLCOWLayers, for two layers.
LcowLayers ==
    <<Get("layers", "layer1"), Get("layers", "layer2"), Try("layers", "resolve"),
      Get("layers", "scratch"), Get("layers", "combined")>>

\* mountHypervIsolatedWCIFSLayers, for two layers.
WcifsLayersInVM ==
    <<Try("layers", "ensureScratch"), Get("layers", "layer1"), Get("layers", "layer2"),
      Get("layers", "scratch"), Try("layers", "layerID"), Get("layers", "combined")>>

\* mountHypervIsolatedBlockCIMLayers.
BlockCimLayersInVM ==
    <<Get("layers", "cims"), Get("layers", "scratch"), Try("layers", "layerID"),
      Get("layers", "combined")>>

\* mountProcessIsolatedWCIFSLayers.
WcifsLayers ==
    <<Try("layers", "ensureScratch"), Get("layers", "active"), Get("layers", "prepared"),
      Try("layers", "mountPath")>>

\* mountProcessIsolatedForkedCimLayers or ...BlockCIMLayers, then ...CimLayersCommon.
CimVolume == <<Get("layers", "volume")>>
CimLayers ==
    CimVolume \o <<Get("layers", "active"), Try("layers", "layerID"), Get("layers", "filter")>>

\* MountWCOWLayers chooses by the layers and the VM.
LayerCalls(k) ==
    CASE k = "lcow" -> LcowLayers
      [] k = "wcow" -> WcifsLayersInVM
      [] k = "wcowCim" -> BlockCimLayersInVM
      [] k = "argon" -> WcifsLayers
      [] k = "argonCim" -> CimLayers
LayerParts == {"layer1", "layer2", "scratch", "combined", "cims", "active", "prepared",
               "volume", "filter"}

\* CreateCredentialGuard.
CredentialGuard == <<Get("credentials", "ccg"), Try("credentials", "query")>>

\* handleAssignedDevicesLCOW and ...Windows, for two devices.
AddDevice(device) == <<Get("devices", device), Try("devices", "locationPaths")>>
DevicesLCOW == <<Get("devices", "device1"), Get("devices", "device2")>>
DevicesWindows ==
    <<Get("devices", "tools"), Try("devices", "toolsPath")>>
    \o AddDevice("device1") \o AddDevice("device2")

\* allocateLinuxResources and allocateWindowsResources, with one mount.
setupMounts == <<Get("mounts", "mount")>>
LinuxCalls == LayerCalls("lcow") \o setupMounts \o DevicesLCOW
WindowsCalls(k) ==
    LayerCalls(k)
    \o When(Hosted(k), setupMounts)
    \o CredentialGuard
    \o When(Hosted(k), <<Get("service", "hvSocketService")>> \o DevicesWindows
                        \o InstallDrivers("drivers2", "driver2"))

\* CreateContainer.
Calls(k) ==
    When(Hosted(k), InstallDrivers("drivers", "driver"))
    \o configureSandboxNetwork(k)
    \o (IF k = "lcow" THEN LinuxCalls ELSE WindowsCalls(k))
    \o <<Try("document", "document"), Get("create", "system")>>
    \o When(HostedWindows(k), <<Try("address", "properties"), Get("address", "address")>>)
    \o When(~Hosted(k), <<Try("affinity", "affinity")>>)

\* The stages a container has only if its specification asks for them.
Optional == {"drivers", "namespace", "network", "mounts", "credentials", "devices"}
Needs(stage) ==
    CASE stage = "drivers2" -> "drivers" [] stage = "service" -> "credentials" [] OTHER -> stage
Asked(m, stage) == Needs(stage) \in Optional => Needs(stage) \in m.wants
Plan(m) == SelectSeq(Calls(m.kind), LAMBDA s : Asked(m, s.stage))

New(shape) ==
    [kind |-> shape.kind, sandbox |-> shape.sandbox, wants |-> shape.wants,
     at |-> 1, attempt |-> 1, phase |-> IF shape.kind = "none" THEN "none" ELSE "making",
     local |-> <<>>,     \* what the running stage has acquired
     r |-> <<>>,         \* Resources.resources
     layers |-> <<>>,    \* Resources.layers
     addedNetNS |-> FALSE,
     todo |-> <<>>,      \* what is to be released, as lists
     failedAt |-> "",    \* the call that failed
     stuck |-> {}]       \* what could not be released

CreationInit ==
    /\ \E shape \in Shapes : making = [c \in Containers |-> New(shape[c])]
    /\ has = [c \in Containers |-> {}]
    /\ cim = [refs |-> 0, mounted |-> FALSE, half |-> FALSE]

-----------------------------------------------------------------------------
(* A call succeeds.                                                         *)

NextCall(c) == Plan(making[c])[making[c].at]
LastOfStage(c) ==
    LET plan == Plan(making[c]) IN
    making[c].at = Len(plan) \/ plan[making[c].at + 1].stage # NextCall(c).stage

\* What the stage acquired becomes part of the Resources.  The layers of a
\* sandbox go with its VM, the container itself is returned, and nobody keeps
\* the entry in the service table of the VM (UpdateHvSocketService).
HandOver(m, stage, got) ==
    CASE stage = "network" -> [m EXCEPT !.local = <<>>, !.addedNetNS = TRUE]
      [] stage = "layers" ->
            [m EXCEPT !.local = <<>>,
                      !.layers = IF m.sandbox /\ Hosted(m.kind) THEN <<>> ELSE got]
      [] stage \in {"create", "service"} -> [m EXCEPT !.local = <<>>]
      [] OTHER -> [m EXCEPT !.local = <<>>, !.r = @ \o got]

\* MountBlockCIMs: an entry is shared by those who use the same CIM.
CimsMounted(x) ==
    IF x # <<"cims">> THEN UNCHANGED cim
    ELSE cim' = [cim EXCEPT !.refs = @ + 1, !.mounted = @ \/ cim.refs = 0]

Proceed(c) ==
    LET m == making[c]
        s == NextCall(c)
        got == m.local \o s.gets
        handed == IF LastOfStage(c) THEN HandOver(m, s.stage, got) ELSE [m EXCEPT !.local = got]
    IN /\ m.phase = "making"
       /\ making' = [making EXCEPT ![c] =
             [handed EXCEPT !.at = @ + 1, !.stuck = @ \ ToSet(s.gets),
                            !.phase = IF m.at = Len(Plan(m)) THEN "created" ELSE @]]
       /\ has' = [has EXCEPT ![c] = @ \cup ToSet(s.gets)]
       /\ CimsMounted(s.gets)

-----------------------------------------------------------------------------
(* A call fails.                                                            *)

List(mode, of) == [mode |-> mode, of |-> of]

\* The mount of the scratch and what is over it, then the layers below.
TopDown(parts) ==
    LET top(x) == x \in {"scratch", "combined"}
    IN Reverse(SelectSeq(parts, top)) \o SelectSeq(parts, LAMBDA x : ~top(x))

\* Mutant: the scratch is not released when the layers cannot be combined.
UndoneWithoutScratch(k, s, local) == SelectSeq(local, LAMBDA x : x # "scratch")

\* What the stage releases itself: not the namespace it created, not a credential
\* guard instance, of the devices of Windows only the one that failed, and not the
\* scratch of block CIM layers.
Undone(k, s, local) ==
    CASE s.stage \in {"namespace", "credentials"} -> <<>>
      [] HostedWindows(k) /\ s.call \in {"device1", "device2"} -> <<>>
      [] HostedWindows(k) /\ s.call = "locationPaths" -> <<Last(local)>>
      [] k = "wcowCim" /\ s.stage = "layers" -> SelectSeq(local, LAMBDA x : x # "scratch")
      [] OTHER -> local

\* How: each of them, or (ResourceCloserList) only until one cannot be released.
\* The common part of CIM layers has a list of its own.
UndoLists(k, s, local) ==
    LET undone == Undone(k, s, local) IN
    CASE s.stage = "layers" /\ Hosted(k) -> <<List("all", TopDown(undone))>>
      [] s.stage = "layers" /\ k = "argon" -> <<List("all", Reverse(undone))>>
      [] s.stage = "layers" /\ k = "argonCim" ->
            <<List("stop", Reverse(SelectSeq(undone, LAMBDA x : x # "volume"))),
              List("stop", SelectSeq(undone, LAMBDA x : x = "volume"))>>
      [] OTHER -> <<List("all", undone)>>

\* Mutant: the network of the VM is torn down last.
NetworkLast(m) ==
    <<List("last", Reverse(m.r)),
      IF Hosted(m.kind) THEN List("all", TopDown(m.layers)) ELSE List("stop", Reverse(m.layers)),
      List("all", When(m.addedNetNS, <<"netns">>))>>

\* ReleaseResources: the network of the VM, then the resources in reverse, and,
\* if none of these failed ("last"), the layers.
ReleaseResources(m) ==
    <<List("all", When(m.addedNetNS, <<"netns">>)),
      List("last", Reverse(m.r)),
      IF Hosted(m.kind) THEN List("all", TopDown(m.layers)) ELSE List("stop", Reverse(m.layers))>>

NonEmpty(lists) == SelectSeq(lists, LAMBDA l : l.of # <<>>)

\* InstallDrivers releases a nil *VSMBShare when the share could not be added.
Panics(k, s) == HostedWindows(k) /\ s.call \in {"driver", "driver2"}

Fail(c) ==
    LET m == making[c]
        s == NextCall(c)
    IN /\ m.phase = "making"
       /\ s.call = "cims" => cim.refs = 0
       /\ making' = [making EXCEPT ![c] =
             IF Panics(m.kind, s) THEN [m EXCEPT !.phase = "panicked"]
             ELSE [m EXCEPT !.phase = "failed", !.failedAt = s.call, !.local = <<>>,
                            !.todo = NonEmpty(UndoLists(m.kind, s, m.local) \o ReleaseResources(m))]]
       /\ UNCHANGED <<has, cim>>

\* mountProcessIsolatedWCIFSLayers tries again after errors of a loaded machine.
\* A layer that cannot be deactivated is left as it is.
TryAgain(c) ==
    LET m == making[c] IN
    /\ m.phase = "making" /\ m.kind = "argon" /\ m.attempt < MaxAttempts
    /\ NextCall(c).call \in {"active", "prepared"}
    /\ \E stays \in {FALSE, ReleaseFails} :
          LET left == IF stays THEN ToSet(m.local) ELSE {} IN
          /\ making' = [making EXCEPT ![c] =
                [m EXCEPT !.attempt = @ + 1, !.local = <<>>, !.at = @ - Len(m.local),
                          !.stuck = @ \cup left]]
          /\ has' = [has EXCEPT ![c] = (@ \ ToSet(m.local)) \cup left]
    /\ UNCHANGED cim

-----------------------------------------------------------------------------
(* Releasing.                                                               *)

\* Mutant: the CIM is unmounted by anyone who used it.
UnmountedByAny(x) ==
    IF x # "cims" THEN UNCHANGED cim ELSE cim' = [cim EXCEPT !.refs = @ - 1, !.mounted = FALSE]

\* UVMMountedBlockCIMs.Release: the CIM is unmounted by the last who uses it.
CimsReleased(x) ==
    IF x # "cims" THEN UNCHANGED cim
    ELSE cim' = [cim EXCEPT !.refs = @ - 1, !.mounted = @ /\ cim.refs > 1,
                            !.half = @ /\ cim.refs > 1]

\* It fails in the guest, or after that when a disk is not released: the entry
\* stays without its mount.
CimsStay(x) ==
    \/ UNCHANGED cim
    \/ x = "cims" /\ cim.refs = 1 /\ cim' = [cim EXCEPT !.mounted = FALSE, !.half = TRUE]

Rest(todo) == <<[Head(todo) EXCEPT !.of = Tail(@)]>> \o Tail(todo)

ReleaseOne(c) ==
    LET m == making[c]
        x == Head(Head(m.todo).of)
    IN /\ m.todo # <<>>
       /\ has' = [has EXCEPT ![c] = @ \ {x}]
       /\ making' = [making EXCEPT ![c].todo = NonEmpty(Rest(m.todo))]
       /\ CimsReleased(x)

CannotRelease(c) ==
    LET m == making[c]
        x == Head(Head(m.todo).of)
    IN /\ m.todo # <<>> /\ ReleaseFails
       /\ x = "cims" => cim.refs = 1
       /\ making' = [making EXCEPT ![c] =
             [m EXCEPT !.stuck = @ \cup {x},
                       !.todo = CASE Head(@).mode = "all" -> NonEmpty(Rest(@))
                                  [] Head(@).mode = "stop" -> Tail(@)
                                  [] Head(@).mode = "last" -> NonEmpty(<<Rest(@)[1]>>)]]
       /\ CimsStay(x)
       /\ UNCHANGED has

\* The task ends: its container is shut down or terminated if it can be, and its
\* resources are released.
CloseTask(c) ==
    LET m == making[c] IN
    /\ m.phase = "created"
    /\ \E stays \in {FALSE, ReleaseFails} :
          /\ has' = [has EXCEPT ![c] = IF stays THEN @ ELSE @ \ {"system"}]
          /\ making' = [making EXCEPT ![c] =
                [m EXCEPT !.phase = "released", !.todo = NonEmpty(ReleaseResources(m)),
                          !.stuck = IF stays THEN {"system"} ELSE {}]]
    /\ UNCHANGED cim

\* What is on the host; the rest is in the VM.
OnHost(k) == IF Hosted(k) THEN {"namespace", "ccg", "address"} ELSE LayerParts \cup {"system"}

\* The VM of a sandbox is closed when its task has been, or was not created.
CloseVM(c) ==
    LET m == making[c] IN
    /\ m.phase \in {"failed", "released"} /\ m.todo = <<>> /\ m.sandbox /\ Hosted(m.kind)
    /\ making' = [making EXCEPT ![c].phase = "closed"]
    /\ has' = [has EXCEPT ![c] = @ \cap OnHost(m.kind)]
    /\ UNCHANGED cim

CreationNext ==
    \E c \in Containers :
        \/ Proceed(c) \/ Fail(c) \/ TryAgain(c)
        \/ ReleaseOne(c) \/ CannotRelease(c) \/ CloseTask(c) \/ CloseVM(c)

-----------------------------------------------------------------------------
(* Properties.                                                              *)

Over(m) ==
    /\ m.todo = <<>>
    /\ m.phase \in IF m.sandbox /\ Hosted(m.kind) THEN {"closed"} ELSE {"failed", "released"}

\* What is left behind by calls that fail: a namespace without all its endpoints,
\* a credential guard instance that was not found, the tools and the devices before
\* the one that failed, the scratch over block CIMs, and a container whose address
\* or affinity could not be set.
LeftBehind(m) ==
    CASE m.failedAt = "endpoints" -> {"namespace"}
      [] m.failedAt = "query" -> {"ccg"}
      [] m.kind # "lcow" /\ m.failedAt \in {"device1", "device2", "locationPaths"} -> {"tools", "device1"}
      [] m.kind = "wcowCim" /\ m.failedAt \in {"layerID", "combined"} -> {"scratch"}
      [] m.failedAt \in {"properties", "address", "affinity"} -> {"system"}
      [] OTHER -> {}

\* The layers stay as well if something else could not be released, and on the
\* host if one of them could not.
StaysWith(m) ==
    IF m.stuck \ (LayerParts \cup {"netns", "system"}) # {} \/ (~Hosted(m.kind) /\ m.stuck # {})
    THEN LayerParts ELSE {}

\* The entry in the service table of the VM goes with the VM only.
NeverReleased(m) == IF m.phase = "closed" THEN {} ELSE {"hvSocketService"}

\* A creation that failed, and a container that is gone, leave nothing behind but
\* what could not be released, and what LeftBehind, StaysWith and NeverReleased
\* name.
NothingLeft ==
    \A c \in Containers : LET m == making[c] IN Over(m) =>
        has[c] \subseteq m.stuck \cup LeftBehind(m) \cup StaysWith(m) \cup NeverReleased(m)

\* What each of these stands on.
StandsOn(m) ==
    [combined |-> IF m.kind = "wcowCim" THEN {"scratch", "cims"} ELSE {"scratch", "layer1", "layer2"},
     prepared |-> {"active"},
     filter |-> {"active", "volume"},
     netns |-> {"namespace"} \cap ToSet(m.r),
     system |-> ToSet(m.r) \cup ToSet(m.layers)]

\* Nothing is taken away from under what stands on it, and everything a container
\* was created with stays until it is gone, unless a release failed or the creation
\* failed with the container in place.
TakenFromTheTop ==
    \A c \in Containers :
        LET m == making[c] IN
        m.stuck = {} /\ LeftBehind(m) # {"system"} =>
            \A x \in DOMAIN StandsOn(m) \cap has[c] : StandsOn(m)[x] \subseteq has[c]

\* A container that uses block CIMs has them mounted in the guest, whoever else
\* used them and is gone, unless a disk of theirs could not be released.
CimsServed ==
    \A c \in Containers : "cims" \in has[c] \ making[c].stuck => cim.mounted \/ cim.half

\* A container gets all or nothing, in the right order.
CreationUndone == NothingLeft /\ TakenFromTheTop
=============================================================================

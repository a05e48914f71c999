----------------------------- MODULE GuestHost -----------------------------
(***************************************************************************)
(* The containers of the Linux guest agent (internal/guest/runtime/hcsv2): *)
(* creating, starting, waiting for and deleting them, their pods, their    *)
(* processes and the network namespace of a pod.  Each container ID has a  *)
(* number of objects, one for every time it may be created; the init       *)
(* process of a container has the name of its object.                      *)
(*                                                                         *)
(* Requests run concurrently, so a handler is split where another may take *)
(* a lock in between.  A guest with a policy takes one request at a time,  *)
(* waits for a process excepted.  Signals are not modelled: a process may  *)
(* exit at any time.                                                       *)
(***************************************************************************)
EXTENDS GuestMounts

CONSTANTS
    Objs,       \* container objects
    IdOf,       \* object -> its container ID
    Kind(_),    \* container ID -> "sandbox", "container" or "standalone"
    SandboxOf(_), \* container ID -> the ID of its sandbox
    Execs,      \* processes that are not the init process of a container
    ExecOf,     \* exec -> the object it runs in
    Waits,      \* WaitForProcess requests
    WaitOn,     \* wait -> its process
    Nics,       \* adapters of the only network namespace
    Policy,     \* the guest has a policy
    Scenarios,  \* sets of objects, execs, waits and adapters used together
    None

Procs == Objs \cup Execs
ObjOf(p) == IF p \in Objs THEN p ELSE ExecOf[p]

ASSUME GuestAssumption ==
    /\ IdOf \in [Objs -> Ids] /\ ExecOf \in [Execs -> Objs] /\ WaitOn \in [Waits -> Procs]
    /\ Objs \cap Execs = {} /\ None \notin Objs \cup Ids /\ Policy \in BOOLEAN
    /\ \A id \in Ids : Kind(id) \in {"sandbox", "container", "standalone"} /\ SandboxOf(id) \in Ids
    /\ \A id \in Ids : Kind(id) = "sandbox" => SandboxOf(id) = id
    /\ IsFiniteSet(Waits)

VARIABLES
    used,        \* what the requests of this behaviour name
    containers,  \* container ID -> the object, or None
    pods,        \* sandbox ID -> the IDs of its containers, or None
    roots,       \* sandbox IDs with a registered root directory
    objs,        \* object -> its state, see NoObject
    runc,        \* the objects whose container runc knows
    procs,       \* process -> its state, see NoProcess
    waits,       \* wait -> its handler and its goroutine, see NoWait
    ns,          \* the network namespace, see NoNamespace
    crashed      \* the agent has panicked

hostVars == <<used, containers, pods, roots, objs, runc, procs, waits, ns, crashed>>
vars == <<hostVars, mountVars>>

\* at: how far CreateContainer is: "None", "Added", "Rooted", "Placed",
\* "Built", "Assigned", then "Done" or "Failed".
NoObject == [at |-> "None", status |-> "Creating", started |-> FALSE, starting |-> FALSE,
             deleting |-> FALSE, announced |-> FALSE]

\* count: writersWg; called: writersCalled; woken: the goroutines that were
\* released from writersWg and have not run yet; freed: cleaned up.
NoProcess == [alive |-> FALSE, exited |-> FALSE, count |-> 0, called |-> FALSE, woken |-> {}, freed |-> FALSE]
NoWait == [handler |-> "None", waiter |-> "None"]

\* adding: the adapters whose request is under way; answered: those whose
\* request was answered without an error.
NoNamespace == [known |-> FALSE, pid |-> None, nics |-> <<>>, moved |-> {}, adding |-> {}, answered |-> {}]

Init ==
    /\ used \in Scenarios
    /\ containers = [id \in Ids |-> None]
    /\ pods = [id \in Ids |-> None]
    /\ roots = {}
    /\ objs = [o \in Objs |-> NoObject]
    /\ runc = {}
    /\ procs = [p \in Procs |-> NoProcess]
    /\ waits = [w \in Waits |-> NoWait]
    /\ ns = NoNamespace
    /\ crashed = FALSE
    /\ MountsInit

SetObj(o, r) == objs' = [objs EXCEPT ![o] = r]
SetProc(p, r) == procs' = [procs EXCEPT ![p] = r]

Creating(o) == objs[o].at \in {"Added", "Rooted", "Placed", "Built", "Assigned"}

\* A request may begin: bridge.Sequential serialises the requests.
MayBegin ==
    Policy => \A o \in Objs : ~Creating(o) /\ ~objs[o].starting /\ ~objs[o].deleting

GetInitializedContainer(o) == containers[IdOf[o]] = o /\ objs[o].status # "Creating"

\* Mutant: the pod keeps the ID of a container that is removed.
ForgetsPod(id) ==
    /\ containers' = [containers EXCEPT ![id] = None]
    /\ pods' = IF id = SandboxOf(id) THEN [pods EXCEPT ![id] = None] ELSE pods
    /\ roots' = roots \ {id}

\* RemoveContainer: by ID, whatever object has it now.  The network
\* namespace is looked up by the container's ID, which no namespace has.
RemoveContainer(id) ==
    LET listed == containers[id] # None
        sandbox == SandboxOf(id)
    IN  /\ containers' = [containers EXCEPT ![id] = None]
        /\ pods' = IF ~listed \/ pods[sandbox] = None THEN pods
                   ELSE [pods EXCEPT ![sandbox] = IF id = sandbox THEN None ELSE @ \ {id}]
        /\ roots' = IF listed /\ Kind(id) = "sandbox" THEN roots \ {id} ELSE roots

---------------------------------------------------------------------------
\* CreateContainer.

CreateContainer(o) ==
    /\ MayBegin /\ ~uvmError /\ o \in used /\ objs[o].at = "None"
    /\ containers[IdOf[o]] = None
    /\ containers' = [containers EXCEPT ![IdOf[o]] = o]
    /\ SetObj(o, [objs[o] EXCEPT !.at = "Added"])
    /\ UNCHANGED <<used, pods, roots, runc, procs, waits, ns, crashed, mountVars>>

registerSandboxRoot(o) ==
    /\ objs[o].at = "Added" /\ Kind(IdOf[o]) = "sandbox"
    /\ roots' = roots \cup {IdOf[o]}
    /\ SetObj(o, [objs[o] EXCEPT !.at = "Rooted"])
    /\ UNCHANGED <<used, containers, pods, runc, procs, waits, ns, crashed, mountVars>>

createPodInUVM(o) ==
    /\ objs[o].at = "Rooted" /\ pods[IdOf[o]] = None
    /\ pods' = [pods EXCEPT ![IdOf[o]] = {IdOf[o]}]
    /\ SetObj(o, [objs[o] EXCEPT !.at = "Placed"])
    /\ UNCHANGED <<used, containers, roots, runc, procs, waits, ns, crashed, mountVars>>

createContainerInPod(o) ==
    LET id == IdOf[o]  pod == pods[SandboxOf(id)] IN
    /\ objs[o].at = "Added" /\ Kind(id) = "container"
    /\ pod # None /\ id \notin pod
    /\ pods' = [pods EXCEPT ![SandboxOf(id)] = @ \cup {id}]
    /\ SetObj(o, [objs[o] EXCEPT !.at = "Placed"])
    /\ UNCHANGED <<used, containers, roots, runc, procs, waits, ns, crashed, mountVars>>

Placed(o) == objs[o].at = "Placed" \/ (objs[o].at = "Added" /\ Kind(IdOf[o]) = "standalone")

\* EnforceCreateContainerPolicyV2, outside of any transaction.
Enforced(id) == Policy => id \in meta.matches \ meta.started
Enforce(id) == IF Policy THEN [meta EXCEPT !.started = @ \cup {id}] ELSE meta

\* newProcess: the counter starts with the one that frees the process.
newProcess == [NoProcess EXCEPT !.alive = TRUE, !.count = 1]

\* rtime.CreateContainer and newProcess.  runc refuses an ID it knows.
Build(o) ==
    /\ Placed(o) /\ Enforced(IdOf[o])
    /\ \A q \in runc : IdOf[q] # IdOf[o]
    /\ runc' = runc \cup {o}
    /\ SetProc(o, newProcess)
    /\ meta' = Enforce(IdOf[o])
    /\ SetObj(o, [objs[o] EXCEPT !.at = "Built"])
    /\ UNCHANGED <<used, containers, pods, roots, waits, ns, crashed, devices, mounted,
                   uvmError, untracked>>

OwnsNetwork(o) == Kind(IdOf[o]) # "container" /\ ns.known

\* A workload container, or a standalone one without a network: created,
\* whether or not its init process lives.
Created(o) ==
    /\ objs[o].at = "Built" /\ ~OwnsNetwork(o) /\ Kind(IdOf[o]) # "sandbox"
    /\ SetObj(o, [objs[o] EXCEPT !.at = "Done", !.status = "Created"])
    /\ UNCHANGED <<used, containers, pods, roots, runc, procs, waits, ns, crashed, mountVars>>

AssignContainerPid(o) ==
    /\ objs[o].at = "Built" /\ OwnsNetwork(o) /\ ns.pid = None
    /\ ns' = [ns EXCEPT !.pid = o]
    /\ SetObj(o, [objs[o] EXCEPT !.at = "Assigned"])
    /\ UNCHANGED <<used, containers, pods, roots, runc, procs, waits, crashed, mountVars>>

\* namespace.Sync: the adapters are moved in their order.  An adapter that
\* was moved is not found again, which ends it with an error.
Movable == LET there == {i \in DOMAIN ns.nics : ns.nics[i] \in ns.moved} IN
    IF ns.pid = None \/ ~procs[ns.pid].alive THEN {}
    ELSE {ns.nics[i] : i \in {j \in DOMAIN ns.nics : \A k \in there : j < k}}

\* Mutant: only the container's creation moves adapters.
SyncNothing == IF ns.adding # {} THEN ns ELSE [ns EXCEPT !.moved = @ \cup Movable]

Synced ==
    ns.pid # None /\ ns.nics # <<>> => procs[ns.pid].alive /\ ns.moved \cap Range(ns.nics) = {}
Sync == [ns EXCEPT !.moved = @ \cup Movable]

\* Sync ends with an error: at an adapter that was moved before, or at any
\* other, which is not moved or is moved and not configured (assignToPid).
SyncFails ==
    LET upTo(k) == {ns.nics[i] : i \in {j \in DOMAIN ns.nics : j <= k}} \cap Movable
        ends == IF ns.pid = None \/ ns.nics = <<>> THEN {} ELSE 0..Len(ns.nics)
    IN  {[ns EXCEPT !.moved = @ \cup upTo(k)] : k \in ends}

SyncCreated(o) ==
    /\ objs[o].at = "Assigned" /\ Synced
    /\ ns' = Sync
    /\ SetObj(o, [objs[o] EXCEPT !.at = "Done", !.status = "Created"])
    /\ UNCHANGED <<used, containers, pods, roots, runc, procs, waits, crashed, mountVars>>

\* A step fails; after newProcess only the network can.  What runc has
\* created is not deleted; Sync may have moved some adapters, and the policy
\* may have counted the container as started.
CreateFails(o) ==
    LET id == IdOf[o] IN
    /\ \/ /\ objs[o].at \in {"Added", "Rooted", "Placed"}
          /\ meta' \in IF Placed(o) /\ Enforced(id) THEN {meta, Enforce(id)} ELSE {meta}
          /\ runc' \in IF Placed(o) /\ \A q \in runc : IdOf[q] # id THEN {runc, runc \cup {o}} ELSE {runc}
          /\ UNCHANGED ns
       \/ /\ objs[o].at = "Built"
          /\ IF OwnsNetwork(o) THEN ns.pid # None ELSE Kind(id) = "sandbox"
          /\ UNCHANGED <<meta, runc, ns>>
       \/ /\ objs[o].at = "Assigned"
          /\ ns' \in SyncFails
          /\ UNCHANGED <<meta, runc>>
    /\ RemoveContainer(id)
    /\ SetObj(o, [objs[o] EXCEPT !.at = "Failed"])
    /\ UNCHANGED <<used, procs, waits, crashed, devices, mounted, uvmError, untracked>>

---------------------------------------------------------------------------
\* Start, exec and exit.

StartContainer(o) ==
    /\ MayBegin /\ GetInitializedContainer(o)
    /\ o \in runc /\ procs[o].alive /\ ~objs[o].started
    /\ SetObj(o, [objs[o] EXCEPT !.started = TRUE, !.starting = TRUE])
    /\ UNCHANGED <<used, containers, pods, roots, runc, procs, waits, ns, crashed, mountVars>>

\* The rest of Container.Start, after runc has started the container.
Started(o) ==
    /\ objs[o].starting
    /\ SetObj(o, [objs[o] EXCEPT !.starting = FALSE, !.status = "Running"])
    /\ UNCHANGED <<used, containers, pods, roots, runc, procs, waits, ns, crashed, mountVars>>

ExecProcess(e) ==
    LET o == ExecOf[e] IN
    /\ MayBegin /\ GetInitializedContainer(o)
    /\ procs[o].alive /\ objs[o].started /\ procs[e] = NoProcess /\ e \in used
    /\ SetProc(e, newProcess)
    /\ UNCHANGED <<used, containers, pods, roots, objs, runc, waits, ns, crashed, mountVars>>

\* A process exits and the goroutine of newProcess sees it.  With the init
\* process its network namespace goes, and the adapters return.
ProcessExits(p) ==
    /\ procs[p].alive
    /\ SetProc(p, [procs[p] EXCEPT !.alive = FALSE, !.exited = TRUE])
    /\ objs' = IF p \in Objs THEN [objs EXCEPT ![p].status = "Terminated"] ELSE objs
    /\ ns' = IF ns.pid = p THEN [ns EXCEPT !.moved = {}] ELSE ns
    /\ UNCHANGED <<used, containers, pods, roots, runc, waits, crashed, mountVars>>

---------------------------------------------------------------------------
\* Waiting for a process.

\* waitOnProcessV2 up to containerProcess.Wait.
WaitOnProcess(w) ==
    LET p == WaitOn[w] IN
    /\ w \in used /\ waits[w] = NoWait
    /\ GetInitializedContainer(ObjOf(p))
    /\ procs[p] # NoProcess /\ (p \in Execs => ~procs[p].freed)
    /\ waits' = [waits EXCEPT ![w] = [handler |-> "Open", waiter |-> "Select"]]
    /\ SetProc(p, [procs[p] EXCEPT !.count = @ + 1])
    /\ UNCHANGED <<used, containers, pods, roots, objs, runc, ns, crashed, mountVars>>

\* The goroutine of the wait has the exit code and passes it on.
WaitHasCode(w) ==
    /\ waits[w].waiter = "Select" /\ procs[WaitOn[w]].exited
    /\ waits' = [waits EXCEPT ![w].waiter = "Code"]
    /\ UNCHANGED <<used, containers, pods, roots, objs, runc, procs, ns, crashed, mountVars>>

\* The handler answers with the exit code, or its timer fires.
WaitAnswers(w) ==
    /\ waits[w].handler = "Open"
    /\ \/ /\ waits[w].waiter = "Code"
          /\ waits' = [waits EXCEPT ![w].handler = "Answered"]
       \/ waits' = [waits EXCEPT ![w].handler = "TimedOut"]
    /\ UNCHANGED <<used, containers, pods, roots, objs, runc, procs, ns, crashed, mountVars>>

\* The goroutines blocked on writersWg of p: its cleanup, and the one that
\* announces the exit of a container that was created.
Blocked(p) ==
    {g \in {"cleanup", "announce"} :
        \/ g = "cleanup" /\ procs[p].exited /\ ~procs[p].freed
        \/ g = "announce" /\ p \in Objs /\ objs[p].at = "Done" /\ ~objs[p].announced}

\* n times Done: the one that reaches zero releases the blocked goroutines.
Done(p, n, called) ==
    [procs[p] EXCEPT !.count = @ - n, !.called = called,
                     !.woken = IF procs[p].count = n THEN Blocked(p) ELSE @]

\* Mutant: every delivery releases the count that frees the process.
ReleasesTwice(w) ==
    LET p == WaitOn[w] IN
    /\ waits[w].handler \in {"Answered", "TimedOut"} /\ waits[w].waiter # "Gone"
    /\ SetProc(p, IF waits[w].waiter = "Code" THEN Done(p, 2, TRUE) ELSE Done(p, 1, procs[p].called))
    /\ waits' = [waits EXCEPT ![w].waiter = "Gone"]
    /\ UNCHANGED <<used, containers, pods, roots, objs, runc, ns, crashed, mountVars>>

\* Mutant: a wait that timed out keeps its count.
TimedOutStays(w) ==
    LET p == WaitOn[w] IN
    /\ waits[w].handler = "Answered" /\ waits[w].waiter # "Gone"
    /\ SetProc(p, IF waits[w].waiter = "Code" /\ ~procs[p].called THEN Done(p, 2, TRUE)
                  ELSE Done(p, 1, procs[p].called))
    /\ waits' = [waits EXCEPT ![w].waiter = "Gone"]
    /\ UNCHANGED <<used, containers, pods, roots, objs, runc, ns, crashed, mountVars>>

\* The handler has closed doneChan.  A goroutine that took the exit code
\* counts as the first to deliver it, even if the timer had fired.
WaitReleases(w) ==
    LET p == WaitOn[w] IN
    /\ waits[w].handler \in {"Answered", "TimedOut"} /\ waits[w].waiter # "Gone"
    /\ SetProc(p, IF waits[w].waiter = "Code" /\ ~procs[p].called THEN Done(p, 2, TRUE)
                  ELSE Done(p, 1, procs[p].called))
    /\ waits' = [waits EXCEPT ![w].waiter = "Gone"]
    /\ UNCHANGED <<used, containers, pods, roots, objs, runc, ns, crashed, mountVars>>

\* A goroutine returns from writersWg.Wait: at once if the count is zero, or
\* after it was released.  Then a wait that came in between makes sync panic.
Resume(p, g) ==
    /\ g \in Blocked(p)
    /\ g \in procs[p].woken \/ procs[p].count = 0
    /\ IF procs[p].count # 0
       THEN crashed' = TRUE /\ UNCHANGED <<procs, objs>>
       ELSE /\ SetProc(p, [procs[p] EXCEPT !.woken = @ \ {g}, !.freed = @ \/ g = "cleanup"])
            /\ objs' = IF g = "announce" THEN [objs EXCEPT ![p].announced = TRUE] ELSE objs
            /\ UNCHANGED crashed
    /\ UNCHANGED <<used, containers, pods, roots, runc, waits, ns, mountVars>>

---------------------------------------------------------------------------
\* DeleteContainerState.

\* Up to and with Container.Delete.  A host deletes a container after it was
\* told of its creation, and does not send the request twice.  runc kills a container that was not
\* started and refuses to delete a running one.
DeleteContainerState(o) ==
    /\ MayBegin /\ ~uvmError /\ GetInitializedContainer(o)
    /\ objs[o].at = "Done" /\ ~objs[o].deleting
    /\ Policy => /\ objs[o].status # "Running"
                 /\ ~HasOverlayMountedAt(devices, RootOf(IdOf[o]))
    /\ runc' = IF procs[o].alive /\ objs[o].started THEN runc ELSE runc \ {o}
    /\ SetObj(o, [objs[o] EXCEPT !.deleting = TRUE])
    /\ UNCHANGED <<used, containers, pods, roots, procs, waits, ns, crashed, mountVars>>

\* The container is removed regardless of the delete's success.
Deleted(o) ==
    /\ objs[o].deleting
    /\ RemoveContainer(IdOf[o])
    /\ SetObj(o, [objs[o] EXCEPT !.deleting = FALSE])
    /\ UNCHANGED <<used, runc, procs, waits, ns, crashed, mountVars>>

---------------------------------------------------------------------------
\* modifyNetwork.

AddAdapter(n) ==
    /\ MayBegin /\ n \in used /\ n \notin Range(ns.nics) /\ n \notin ns.adding
    /\ ns' = [ns EXCEPT !.known = TRUE, !.nics = Append(@, n), !.adding = @ \cup {n}]
    /\ UNCHANGED <<used, containers, pods, roots, objs, runc, procs, waits, crashed, mountVars>>

\* The Sync that follows; its error is only returned.
AdapterAdded(n) ==
    /\ n \in ns.adding
    /\ \/ /\ Synced
          /\ ns' = [Sync EXCEPT !.adding = @ \ {n}, !.answered = @ \cup {n}]
       \/ \E failed \in SyncFails : ns' = [failed EXCEPT !.adding = @ \ {n}]
    /\ UNCHANGED <<used, containers, pods, roots, objs, runc, procs, waits, crashed, mountVars>>

Without(nics, i) == SubSeq(nics, 1, i - 1) \o SubSeq(nics, i + 1, Len(nics))

RemoveAdapter(n) ==
    /\ MayBegin /\ n \notin ns.adding
    /\ \E i \in DOMAIN ns.nics :
          /\ ns.nics[i] = n
          /\ ns' = [ns EXCEPT !.nics = Without(@, i), !.moved = @ \ {n}, !.answered = @ \ {n}]
    /\ UNCHANGED <<used, containers, pods, roots, objs, runc, procs, waits, crashed, mountVars>>

---------------------------------------------------------------------------
\* IsOverlayInUse.
InUse(root) ==
    \E id \in Ids : containers[id] # None /\ RootOf(id) = root /\ objs[containers[id]].status = "Running"

ModifyHost == Policy /\ MayBegin /\ ModifyMounts(InUse) /\ UNCHANGED hostVars

Steps(o) ==
    \/ registerSandboxRoot(o) \/ createPodInUVM(o) \/ createContainerInPod(o) \/ Build(o)
    \/ Created(o) \/ AssignContainerPid(o) \/ SyncCreated(o) \/ CreateFails(o)
    \/ Started(o) \/ Deleted(o)

\* The goroutines of waits and of exits.
Background ==
    \/ \E w \in Waits : WaitHasCode(w) \/ WaitReleases(w)
    \/ \E w \in Waits : waits[w].waiter = "Code" /\ WaitAnswers(w)
    \/ \E p \in Procs, g \in {"cleanup", "announce"} : Resume(p, g)

Next ==
    /\ ~crashed
    /\ \/ \E o \in Objs : CreateContainer(o) \/ Steps(o) \/ StartContainer(o) \/ DeleteContainerState(o)
       \/ \E e \in Execs : ExecProcess(e)
       \/ \E p \in Procs : ProcessExits(p)
       \/ \E w \in Waits : WaitOnProcess(w) \/ WaitAnswers(w)
       \/ Background
       \/ \E n \in Nics : AddAdapter(n) \/ AdapterAdded(n) \/ RemoveAdapter(n)
       \/ ModifyHost

Spec == Init /\ [][Next]_vars /\ WF_vars(~crashed /\ Background)

---------------------------------------------------------------------------
\* The pods and the roots agree with the containers: a pod is there only
\* with its sandbox, and lists only containers that are there.
PodsAgree ==
    /\ \A id \in Ids : pods[id] # None =>
          /\ containers[id] # None /\ id \in pods[id]
          /\ \A c \in pods[id] : containers[c] # None /\ SandboxOf(c) = id
    /\ \A id \in roots : containers[id] # None

\* The counter of a process is the waits that have not been released and one
\* more until an exit code was delivered: it is never negative, which would
\* panic, and the process is freed when the last wait is over.
CountExact ==
    \A p \in Procs : procs[p] # NoProcess =>
        procs[p].count = Cardinality({w \in Waits : WaitOn[w] = p /\ waits[w].waiter \in {"Select", "Code"}})
                         + IF procs[p].called THEN 0 ELSE 1

\* A created container whose init process lives has every adapter that was
\* added to its network namespace without an error, before the container was
\* created, meanwhile or afterwards (modifyNetwork, namespace.Sync).
AdaptersMoved ==
    \A o \in Objs : ns.pid = o /\ objs[o].at = "Done" /\ procs[o].alive => ns.answered \subseteq ns.moved

\* A wait for a process that has exited is answered and released, and the
\* exit of a container whose exit code was delivered is announced to the
\* host, unless the agent has panicked (Resume).
ExitDelivered ==
    /\ \A w \in Waits : waits[w].handler = "Open" /\ procs[WaitOn[w]].exited ~> waits[w].waiter = "Gone" \/ crashed
    /\ \A o \in Objs : procs[o].called /\ objs[o].at = "Done" ~> objs[o].announced \/ crashed
=============================================================================

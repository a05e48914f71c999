----------------------------- MODULE Container -----------------------------
(***************************************************************************)
(* One Linux container and its processes: the container controller         *)
(* (internal/controller/linuxcontainer), the process controllers in its    *)
(* table (internal/controller/process), and the task calls of the shim     *)
(* that drive them (cmd/containerd-shim-lcow-v2/service).                  *)
(*                                                                         *)
(* A handler runs under the container's mutex and is one action.  Steps of *)
(* their own are what the code does outside of it: the goroutine that      *)
(* waits for a process (handleProcessExit), the one that waits for the     *)
(* init process (handleInitProcessExit), the wait at the head of           *)
(* DeleteProcess, the second half of an exec request, and the publication  *)
(* of events.  A refused call changes nothing and is no action.  Exec IDs  *)
(* are not reused.                                                         *)
(***************************************************************************)
EXTENDS ContainerResources

CONSTANTS
    Init0,      \* the init process, exec ID ""
    Execs,      \* the exec IDs
    Deleters,   \* the threads that may be inside DeleteProcess
    Faults      \* the calls that may fail, see the actions

\* Every exec has a name.
ASSUME ExecsAssumption == Init0 \notin Execs

Processes == Execs \cup {Init0}

VARIABLES
    state,       \* the container's state
    handle,      \* the GCS container handle is open
    terminated,  \* terminatedCh is closed
    procs,       \* process -> its state, whether it is in the table, exitedCh
    watch,       \* process -> where its handleProcessExit is
    initWatch,   \* where handleInitProcessExit is
    execs,       \* exec -> where its exec request is
    deleters,    \* thread -> where it is in DeleteProcess, for which process
    exits,       \* process -> the number of TaskExit events published
    panicked,    \* a closed channel was closed again
    res,         \* the container's resources, see ContainerResources
    world,       \* what the host and the guest hold for it
    gone         \* the VM has exited

container == <<state, handle, terminated>>
processes == <<procs, watch, initWatch, execs, panicked>>
resources == <<res, world>>
vars == <<container, processes, deleters, exits, resources, gone>>

Proc(s) == [state |-> s, listed |-> s # "None", exited |-> FALSE]

Fresh ==
    /\ state = "NotCreated" /\ handle = FALSE
    /\ procs = [p \in Processes |-> Proc("None")]
    /\ res = NoResources /\ world = Nothing

\* Import: the layers and disks came along with the VM.  A VM with Plan9 shares or
\* devices is not saved, so an imported container has none.
Imported ==
    /\ state = "DestinationMigrating" /\ handle = FALSE
    /\ procs = [p \in Processes |-> IF p = Init0 THEN Proc("DestinationMigrating") ELSE Proc("None")]
    /\ res = [Allocated(Complete) EXCEPT !.plan9 = <<>>, !.devices = <<>>]
    /\ world = Holding(res, TRUE)

Init ==
    /\ Fresh \/ Imported
    /\ terminated = FALSE /\ panicked = FALSE /\ gone = FALSE
    /\ watch = [p \in Processes |-> "none"] /\ initWatch = "none"
    /\ execs = [e \in Execs |-> "none"]
    /\ deleters = [d \in Deleters |-> [pc |-> "none", id |-> Init0]]
    /\ exits = [p \in Processes |-> 0]

May(call) == IF call \in Faults THEN BOOLEAN ELSE {TRUE}

\* Mutant: the waiters are released and the handle stays open.
ReleaseWaiters == terminated' = TRUE /\ UNCHANGED handle

\* closeContainer.
CloseContainer == handle' = FALSE /\ terminated' = TRUE

-----------------------------------------------------------------------------
(* The process controller.                                                  *)

\* Mutant: a process that has terminated is aborted once more.
AbortsTerminated == {"NotCreated", "Created", "Terminated"}
Abortable == {"NotCreated", "Created"}

\* abortInternal closes exitedCh under the process's mutex.
Abort(p) == [p EXCEPT !.state = "Terminated", !.exited = TRUE]
Aborted(ps) ==
    /\ procs' = [p \in Processes |-> IF p \in ps THEN Abort(procs[p]) ELSE procs[p]]
    /\ panicked' = (\E p \in ps : procs[p].exited)

\* handleProcessExit records the exit, then releases IO and wakes up waiters,
\* and then publishes the event, which for the init process is not its job.
ProcessExits(p) ==
    /\ watch[p] = "waiting"
    /\ procs' = [procs EXCEPT ![p].state = "Terminated"]
    /\ watch' = [watch EXCEPT ![p] = IF procs[p].state = "Terminated" THEN "none" ELSE "recorded"]
    /\ UNCHANGED <<container, initWatch, execs, panicked, deleters, exits, resources, gone>>

WakeUp(p) ==
    /\ watch[p] = "recorded"
    /\ panicked' = procs[p].exited
    /\ procs' = [procs EXCEPT ![p].exited = TRUE]
    /\ watch' = [watch EXCEPT ![p] = IF p = Init0 THEN "none" ELSE "publishing"]
    /\ UNCHANGED <<container, initWatch, execs, deleters, exits, resources, gone>>

PublishExit(p) ==
    /\ watch[p] = "publishing"
    /\ exits' = [exits EXCEPT ![p] = @ + 1]
    /\ watch' = [watch EXCEPT ![p] = "none"]
    /\ UNCHANGED <<container, procs, initWatch, execs, panicked, deleters, resources, gone>>

-----------------------------------------------------------------------------
(* Create and Start.                                                        *)

\* Allocation fails at a step, before or after its reservation is made; then
\* CreateContainer or the IO of the init process may fail.
Interrupted ==
    {p \in Progress : \/ "reserve" \in Faults /\ p # Complete
                      \/ "map" \in Faults /\ Reserved(p)}
FailedCreates ==
    {[res |-> r, world |-> Holding(r, FALSE)] : r \in {Allocated(p) : p \in Interrupted}}
    \cup {[res |-> Allocated(Complete), world |-> Holding(Allocated(Complete), g)] :
        g \in {g \in BOOLEAN : (IF g THEN "io" ELSE "guest") \in Faults}}

\* What was allocated is released as far as that goes.
CreateFails ==
    /\ state = "NotCreated"
    /\ \E f \in FailedCreates : \E r \in ReleaseResources(f.res, f.world, gone) :
         res' = r.res /\ world' = r.world
    /\ state' = "Invalid" /\ CloseContainer
    /\ UNCHANGED <<processes, deleters, exits, gone>>

Create ==
    /\ state = "NotCreated" /\ ~gone
    /\ res' = Allocated(Complete) /\ world' = Holding(res', TRUE)
    /\ procs' = [procs EXCEPT ![Init0] = Proc("Created")]
    /\ state' = "Created" /\ handle' = TRUE
    /\ UNCHANGED <<terminated, watch, initWatch, execs, panicked, deleters, exits, gone>>

\* A process starts, or its start fails and it is aborted.
Starts(p) ==
    /\ procs' = [procs EXCEPT ![p].state = "Running"]
    /\ watch' = [watch EXCEPT ![p] = "waiting"]
    /\ UNCHANGED panicked
StartFails(p) == Aborted({p}) /\ UNCHANGED watch

\* The container starts in the guest, and its init process unless it was killed.
Start ==
    /\ state = "Created"
    /\ \E started \in May("start") :
         IF ~started \/ gone \/ procs[Init0].state # "Created"
         THEN state' = "Invalid" /\ UNCHANGED <<procs, watch, initWatch, panicked>>
         ELSE \E ok \in May("startInit") :
                IF ok
                THEN Starts(Init0) /\ state' = "Running" /\ initWatch' = "waiting"
                ELSE StartFails(Init0) /\ state' = "Invalid" /\ UNCHANGED initWatch
    /\ UNCHANGED <<handle, terminated, execs, deleters, exits, resources, gone>>

\* Mutant: the exit of a frozen container is left to Resume.
StopsRunning == state = "Running"
StopsAlways == TRUE

\* handleInitProcessExit.
InitStops ==
    /\ initWatch = "waiting" /\ procs[Init0].exited
    /\ StopsAlways
    /\ state' = "Stopped" /\ CloseContainer
    /\ initWatch' = "publishing"
    /\ UNCHANGED <<procs, watch, execs, panicked, deleters, exits, resources, gone>>

InitPublishes ==
    /\ initWatch = "publishing"
    /\ exits' = [exits EXCEPT ![Init0] = @ + 1]
    /\ initWatch' = "none"
    /\ UNCHANGED <<container, procs, watch, execs, panicked, deleters, resources, gone>>

-----------------------------------------------------------------------------
(* Execs and Kill.                                                          *)

\* An exec request adds the process to the table, and then sets up its IO; if
\* that fails, or a Kill got there first, the process stays in the table.
NewProcess(e) ==
    /\ state = "Running" /\ procs[e].state = "None"
    /\ procs' = [procs EXCEPT ![e] = Proc("NotCreated")]
    /\ execs' = [execs EXCEPT ![e] = "creating"]
    /\ UNCHANGED <<container, watch, initWatch, panicked, deleters, exits, resources, gone>>

CreateProcess(p, io) ==
    IF io /\ p.state = "NotCreated" THEN [p EXCEPT !.state = "Created"] ELSE p

CreateExec(e) ==
    /\ execs[e] = "creating"
    /\ execs' = [execs EXCEPT ![e] = "none"]
    /\ \E io \in May("io") : procs' = [procs EXCEPT ![e] = CreateProcess(@, io)]
    /\ UNCHANGED <<container, watch, initWatch, panicked, deleters, exits, resources, gone>>

\* The process was looked up before, and may have left the table since.
StartExec(e) ==
    /\ procs[e].state = "Created"
    /\ \/ ~gone /\ Starts(e)
       \/ ("startExec" \in Faults \/ gone) /\ StartFails(e)
    /\ UNCHANGED <<container, initWatch, execs, deleters, exits, resources, gone>>

\* Killing the init process kills every exec.  A running process gets its
\* signal and exits in its own time.
KillProcess(p) ==
    /\ state \in {"Created", "Running"}
    /\ Aborted({q \in IF p = Init0 THEN Processes ELSE {p} :
                    procs[q].listed /\ procs[q].state \in Abortable})
    /\ UNCHANGED <<container, watch, initWatch, execs, deleters, exits, resources, gone>>

-----------------------------------------------------------------------------
(* DeleteProcess.                                                           *)

At(d, pc) == deleters[d].pc = pc
Goes(d, pc) == deleters' = [deleters EXCEPT ![d].pc = pc]

\* Deleting the init process of a started container waits for its teardown.
DeleteBegins(d, p) ==
    /\ At(d, "none") /\ procs[p].listed
    /\ deleters' = [deleters EXCEPT ![d] =
         [pc |-> IF p = Init0 /\ state \in {"Running", "Stopped"} THEN "waiting" ELSE "deleting",
          id |-> p]]
    /\ UNCHANGED <<container, processes, exits, resources, gone>>

DeleteWaits(d) ==
    /\ At(d, "waiting")
    /\ \/ terminated /\ Goes(d, "deleting")
       \/ "timeout" \in Faults /\ Goes(d, "none")
    /\ UNCHANGED <<container, processes, exits, resources, gone>>

Deleted(p) == IF p.state = "Created" THEN Abort(p) ELSE p
Unlisted(p) == [p EXCEPT !.listed = FALSE]

Deletable(p) ==
    /\ state \notin {"NotCreated", "DestinationMigrating", "SourceMigrating"}
    /\ procs[p].listed /\ procs[p].state \in {"Terminated", "Created"}

\* Mutant: the init process is removed even if its container's resources are not.
RemovesAnyway(r) == TRUE
Removes(r) == ~r.err

\* With the init process go the container's resources; when they do not, the
\* process stays in the table, so that the call can be retried.
Delete(d) ==
    LET p == deleters[d].id
        deleted == Deleted(procs[p])
    IN /\ At(d, "deleting")
       /\ Goes(d, "none")
       /\ \/ ~Deletable(p) /\ UNCHANGED <<container, procs, resources>>
          \/ /\ Deletable(p) /\ p # Init0
             /\ procs' = [procs EXCEPT ![p] = Unlisted(deleted)]
             /\ UNCHANGED <<container, resources>>
          \/ /\ Deletable(p) /\ p = Init0
             /\ \E r \in ReleaseResources(res, world, gone) :
                  /\ res' = r.res /\ world' = r.world
                  /\ \/ Removes(r) /\ CloseContainer
                        /\ procs' = [procs EXCEPT ![p] = Unlisted(deleted)]
                     \/ ~Removes(r) /\ procs' = [procs EXCEPT ![p] = deleted]
                        /\ UNCHANGED <<handle, terminated>>
             /\ UNCHANGED state
       /\ UNCHANGED <<watch, initWatch, execs, panicked, exits, gone>>

-----------------------------------------------------------------------------
(* Live migration: Save freezes the source, Resume lifts the freeze or      *)
(* brings an imported container to life.                                    *)

Listed == {p \in Processes : procs[p].listed}

\* Mutant: a container is frozen with its execs.
AnyProcesses == TRUE
OnlyInit == Listed = {Init0}

\* A process is saved, and resumed, only while it is alive.
Alive(p) == p.state \in {"Running", "SourceMigrating"}
SaveProcess(p) == [p EXCEPT !.state = "SourceMigrating"]
ResumeProcess(p) == [p EXCEPT !.state = "Running"]

Save ==
    /\ state \in {"Running", "SourceMigrating"}
    /\ OnlyInit
    /\ Alive(procs[Init0])
    /\ state' = "SourceMigrating"
    /\ procs' = [procs EXCEPT ![Init0] = SaveProcess(@)]
    /\ UNCHANGED <<handle, terminated, watch, initWatch, execs, panicked, deleters, exits,
                   resources, gone>>

FrozenSource == state = "SourceMigrating"

ResumeSource ==
    /\ FrozenSource
    /\ \A p \in Listed : Alive(procs[p])
    /\ procs' = [p \in Processes |-> IF p \in Listed THEN ResumeProcess(procs[p]) ELSE procs[p]]
    /\ state' = "Running"
    /\ UNCHANGED <<handle, terminated, watch, initWatch, execs, panicked, deleters, exits,
                   resources, gone>>

ResumeDestination ==
    /\ state = "DestinationMigrating" /\ ~gone
    /\ Starts(Init0)
    /\ state' = "Running" /\ handle' = TRUE /\ initWatch' = "waiting"
    /\ UNCHANGED <<terminated, execs, deleters, exits, resources, gone>>

-----------------------------------------------------------------------------
\* The VM exits, and with it what the guest holds.
VMExits ==
    /\ "vm" \in Faults /\ ~gone
    /\ gone' = TRUE
    /\ world' = [world EXCEPT !.overlay = FALSE, !.inGuest = FALSE]
    /\ UNCHANGED <<container, processes, deleters, exits, res>>

Watching(p) == ProcessExits(p) \/ WakeUp(p) \/ PublishExit(p)
Deleting(d) == (\E p \in Processes : DeleteBegins(d, p)) \/ DeleteWaits(d) \/ Delete(d)

Next ==
    \/ Create \/ CreateFails \/ Start \/ InitStops \/ InitPublishes
    \/ \E e \in Execs : NewProcess(e) \/ CreateExec(e) \/ StartExec(e)
    \/ \E p \in Processes : KillProcess(p) \/ Watching(p)
    \/ \E d \in Deleters : Deleting(d)
    \/ Save \/ ResumeSource \/ ResumeDestination \/ VMExits

Spec == Init /\ [][Next]_vars

-----------------------------------------------------------------------------
(* Properties.                                                              *)

\* No path through Kill, Delete, a failed Start and the exit of the process
\* closes exitedCh twice, which would crash the shim.
ClosedOnce == ~panicked

\* A TaskExit is published once, when the process has terminated and its
\* waiters are awake; for the init process the container is torn down too.
ExitPublished ==
    \A p \in Processes : exits[p] > 0 =>
        /\ exits[p] = 1 /\ watch[p] = "none"
        /\ procs[p].state = "Terminated" /\ procs[p].exited
        /\ p = Init0 => terminated /\ ~handle /\ state = "Stopped"

\* A running container has a running init process, a frozen one nothing but a
\* frozen init process, unless the process has just exited.
FreezeAgrees ==
    /\ state = "Running" => procs[Init0].state \in {"Running", "Terminated"}
    /\ state = "SourceMigrating" =>
         /\ procs[Init0].state \in {"SourceMigrating", "Terminated"}
         /\ \A e \in Execs : ~procs[e].listed

\* The container can find everything it was given: what the device controllers
\* hold for it is in its lists, through failed allocations and failed releases,
\* as long as the VM exists.
Tracked == ~gone => world.held \subseteq Known(res)

\* A container whose init process was deleted has nothing left behind.
DeletedReleased ==
    procs[Init0].state # "None" /\ ~procs[Init0].listed /\ ~gone
        => world = Nothing

\* Once its init process has terminated, a container can be deleted: a retry
\* succeeds when the calls that failed before succeed now.
DeletePossible ==
    Deletable(Init0) => \E r \in ReleaseResources(res, world, gone) : ~r.err

-----------------------------------------------------------------------------
(* Liveness.  Goroutines get to run; nothing is asked of the callers, nor   *)
(* of the processes in the guest, which may run for ever.                   *)

Fairness ==
    /\ \A p \in Processes : WF_vars(WakeUp(p)) /\ WF_vars(PublishExit(p))
    /\ WF_vars(InitStops) /\ WF_vars(InitPublishes)

FairSpec == Spec /\ Fairness

Started(p) == watch[p] # "none" \/ (p = Init0 /\ initWatch # "none")

\* The exit of every process that was started is reported, whatever deletes,
\* kills and freezes come in between.
ExitReported ==
    \A p \in Processes :
        Started(p) /\ procs[p].state = "Terminated" ~> exits[p] = 1
=============================================================================

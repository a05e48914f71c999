---------------------------- MODULE RunhcsShim -----------------------------
(***************************************************************************)
(* The tasks of one runhcs shim (cmd/containerd-shim-runhcs-v1): the       *)
(* service, its pod, the tasks in the pod (hcsTask and, for a pod that     *)
(* needs no sandbox container, wcowPodSandboxTask) and their execs, see    *)
(* ShimExec.  The init exec of a task has the task's ID, as in the code.   *)
(*                                                                         *)
(* A request is one action except where it waits: a create publishes its   *)
(* event after the task's goroutines run, a delete waits for the task to   *)
(* be closed.  The goroutines of a task are the one that waits for its     *)
(* init exec and then closes it (closer), the one that waits for the VM    *)
(* (hostWaiter) and the timer of a SIGKILL.  IDs are not reused.           *)
(***************************************************************************)
EXTENDS ShimExec, Naturals, FiniteSets

CONSTANTS
    Sandbox,    \* the task that stands for the pod, or the only task
    Workloads,  \* the other tasks of a pod
    Execs,      \* execs that are not the init exec of a task
    ExecOf,     \* exec -> the task it is created in
    Kinds,      \* the kinds of shim, a subset of AllKinds
    Used(_),    \* kind -> the IDs its callers use
    Faults(_)   \* kind -> the calls that may fail: "publish", "start", "process",
                \* "wait", "shutdown", "terminate", "release", "stuck"

Tasks == Workloads \cup {Sandbox}
Ids == Tasks \cup Execs
TaskOf(x) == IF x \in Tasks THEN x ELSE ExecOf[x]

\* fake: the sandbox is a wcowPodSandboxTask; vm: there is a hosting VM; logs:
\* a Windows VM that forwards its logs; pod: the shim serves a pod and not a
\* single task.
AllKinds == {k \in [fake : BOOLEAN, vm : BOOLEAN, logs : BOOLEAN, pod : BOOLEAN] :
                (k.fake => k.pod) /\ (k.logs => k.vm)}

ASSUME RunhcsAssumption ==
    /\ Sandbox \notin Workloads /\ Tasks \cap Execs = {}
    /\ ExecOf \in [Execs -> Tasks] /\ Kinds \subseteq AllKinds

VARIABLES
    kind,    \* the kind of this shim
    host,    \* the VM: "None", "Running", "Exited" on its own, "Closed" by its
             \* owner before that, or "Lost": closed by others or after that
    tasks,   \* task -> its state, see NoTask
    execs,   \* exec -> its state, see ShimExec
    listed,  \* the execs in the maps of their tasks
    exits    \* exec -> the TaskExit events published for it

vars == <<kind, host, tasks, execs, listed, exits>>

\* phase: "None", "Creating", "Listed", "Deleted" or "Failed"
\* resources: of the container, "None", "Held", "Released", or "Kept" because
\* releasing them failed; told: the status in the exit event of the task
NoTask == [phase |-> "None", container |-> "None", handle |-> FALSE, resources |-> "None",
           closer |-> "None", hostWaiter |-> "None", closeHost |-> "Free", closed |-> FALSE,
           told |-> "none", timer |-> FALSE]

Init ==
    /\ kind \in Kinds
    /\ host = "None"
    /\ tasks = [t \in Tasks |-> NoTask]
    /\ execs = [x \in Ids |-> NoExec]
    /\ listed = {}
    /\ exits = [x \in Ids |-> 0]

IsFake(t) == t = Sandbox /\ kind.fake
OwnsHost(t) == t = Sandbox /\ kind.vm
HostGone == host \in {"Exited", "Closed", "Lost"}
HostShut == IF host \in {"Running", "Exited"} THEN "Lost" ELSE host

\* UtilityVM.Wait has returned.  While logs are forwarded it also waits for a
\* channel that only Close closes, see HcsSystem.
HostWaitOver == host \in {"Closed", "Lost"} \/ (host = "Exited" /\ ~kind.logs)
Reachable(t) == tasks[t].phase = "Listed"
ExecsOf(t) == {x \in listed : ExecOf[x] = t}

\* The wait channel of the container is closed: it exited, its handle was
\* closed, or the connection to the guest ended with the VM.
WaitChannelClosed(t) ==
    \/ tasks[t].container = "Exited"
    \/ tasks[t].container # "None" /\ ~tasks[t].handle
    \/ HostGone

SetTask(t, r) == tasks' = [tasks EXCEPT ![t] = r]
SetExec(x, e) == execs' = [execs EXCEPT ![x] = e]

---------------------------------------------------------------------------
\* Create.

\* newHcsTask up to the event: the container and its resources, the init
\* exec, and the goroutines.
newHcsTask == [NoTask EXCEPT !.phase = "Creating", !.container = "Created", !.handle = TRUE,
                 !.resources = "Held", !.closer = "Wait",
                 !.hostWaiter = IF kind.vm THEN "Wait" ELSE "None"]

newWcowPodSandboxTask ==
    [NoTask EXCEPT !.phase = "Creating", !.closer = "Wait",
                   !.hostWaiter = IF kind.vm THEN "Wait" ELSE "None"]

\* createPod and newHcsStandaloneTask: the VM is created and started first.
\* A failure up to here closes it and leaves nothing behind.
CreatePod ==
    /\ tasks[Sandbox].phase = "None"
    /\ host' = IF kind.vm THEN "Running" ELSE "None"
    /\ SetTask(Sandbox, IF kind.fake THEN newWcowPodSandboxTask ELSE newHcsTask)
    /\ SetExec(Sandbox, IF kind.fake THEN newWcowPodSandboxExec ELSE newHcsExec)
    /\ UNCHANGED <<kind, listed, exits>>

\* pod.CreateTask: the sandbox must run, and the VM accept the container.
CreateTask(t) ==
    /\ kind.pod /\ Reachable(Sandbox) /\ execs[Sandbox].state = "Running"
    /\ t \in Used(kind) /\ tasks[t].phase = "None" /\ ~HostGone
    /\ SetTask(t, newHcsTask)
    /\ SetExec(t, newHcsExec)
    /\ UNCHANGED <<kind, host, listed, exits>>

\* The create event is published and the task can be found.  If it cannot
\* be published the task is dropped; its goroutines and container are not.
\* createPod then closes the VM, newHcsStandaloneTask as well.
Created(t) ==
    /\ tasks[t].phase = "Creating"
    /\ \/ /\ SetTask(t, [tasks[t] EXCEPT !.phase = "Listed"])
          /\ UNCHANGED host
       \/ /\ "publish" \in Faults(kind)
          /\ SetTask(t, [tasks[t] EXCEPT !.phase = "Failed"])
          /\ host' = IF OwnsHost(t) THEN HostShut ELSE host
    /\ UNCHANGED <<kind, execs, listed, exits>>

\* hcsTask.CreateExec, under the exec create lock.
CreateExec(x) ==
    LET t == ExecOf[x] IN
    /\ x \in Used(kind) /\ Reachable(t) /\ ~IsFake(t)
    /\ execs[x].state = "None" /\ execs[t].state = "Running"
    /\ SetExec(x, newHcsExec)
    /\ listed' = listed \cup {x}
    /\ UNCHANGED <<kind, host, tasks, exits>>

---------------------------------------------------------------------------
\* Start.

Findable(x) == Reachable(TaskOf(x)) /\ (x \in Tasks \/ x \in listed)

\* wcowPodSandboxExec.Start: running, whether or not the event went out.
StartSandbox(x) ==
    /\ IsFake(x) /\ Reachable(x) /\ execs[x].state = "Created"
    /\ SetExec(x, [execs[x] EXCEPT !.state = "Running"])
    /\ UNCHANGED <<kind, host, tasks, listed, exits>>

Usable(t) == tasks[t].handle /\ tasks[t].container # "Exited" /\ ~HostGone

\* hcsExec.startInternal of an init exec: the container is started first,
\* and terminated and closed again when the process cannot be.
StartInit(t) ==
    /\ t \in Tasks /\ ~IsFake(t) /\ Reachable(t) /\ execs[t].state = "Created"
    /\ LET undone == [tasks[t] EXCEPT !.container = "Exited", !.handle = FALSE] IN
       \/ /\ "start" \in Faults(kind) \/ ~Usable(t)
          /\ SetExec(t, ExitFromCreatedL(execs[t]))
          /\ UNCHANGED tasks
       \/ /\ "process" \in Faults(kind) /\ Usable(t)
          /\ SetExec(t, ExitFromCreatedL(execs[t]))
          /\ SetTask(t, undone)
       \/ /\ "publish" \in Faults(kind) /\ Usable(t)
          /\ SetExec(t, SignalProcess(StartedUnpublished(execs[t]), TRUE))
          /\ SetTask(t, undone)
       \/ /\ Usable(t)
          /\ SetExec(t, Started(execs[t]))
          /\ SetTask(t, [tasks[t] EXCEPT !.container = "Running"])
    /\ UNCHANGED <<kind, host, listed, exits>>

\* ... and of any other exec.
StartExec(x) ==
    /\ x \in Execs /\ Findable(x) /\ execs[x].state = "Created"
    /\ \/ /\ "process" \in Faults(kind) \/ ~Usable(ExecOf[x])
          /\ SetExec(x, ExitFromCreatedL(execs[x]))
       \/ /\ "publish" \in Faults(kind) /\ Usable(ExecOf[x])
          /\ SetExec(x, StartedUnpublished(execs[x]))
       \/ Usable(ExecOf[x]) /\ SetExec(x, Started(execs[x]))
    /\ UNCHANGED <<kind, host, tasks, listed, exits>>

---------------------------------------------------------------------------
\* Kill.

\* Whether a signal reaches the process is up to the guest.
Delivery(S) == IF HostGone THEN {{}} ELSE IF "stuck" \in Faults(kind) THEN {S, {}} ELSE {S}

KillAll(S, delivered) ==
    [x \in Ids |-> IF x \notin S THEN execs[x]
                   ELSE IF x = Sandbox /\ kind.fake THEN KillSandbox(execs[x])
                   ELSE Kill(execs[x], x \in delivered)]

ForceAll(S, delivered) ==
    [x \in Ids |-> IF x \notin S THEN execs[x]
                   ELSE IF x = Sandbox /\ kind.fake THEN ForceExitSandbox(execs[x])
                   ELSE ForceExit(execs[x], x \in delivered)]

\* The execs a Kill request is for: one, or with All every exec of the task,
\* and for the sandbox every exec of every task of the pod.
Targets(x, all) ==
    IF ~all THEN {x}
    ELSE IF x = Sandbox /\ kind.pod THEN {y \in Ids : Findable(y)}
    ELSE {y \in Ids : Findable(y) /\ TaskOf(y) = x}

\* pod.KillTask and hcsTask.KillExec.  SIGKILL of an init exec arms a timer
\* that closes the VM unless the exec ends; another one makes no difference.
\* For execs that have all exited it is an error.
Arms(t, sigkill) ==
    sigkill /\ host \in {"Running", "Exited"} /\ ~IsFake(t) /\ ~execs[t].exited /\ ~tasks[t].timer

KillTask(x, all, sigkill) ==
    /\ Findable(x) /\ (all => x \in Tasks)
    /\ \E y \in Targets(x, all) : ~execs[y].exited
    /\ \E delivered \in Delivery(Targets(x, all)) :
          execs' = KillAll(Targets(x, all), delivered)
    /\ tasks' = [t \in Tasks |->
                    IF t \in Targets(x, all) /\ Arms(t, sigkill)
                    THEN [tasks[t] EXCEPT !.timer = TRUE] ELSE tasks[t]]
    /\ UNCHANGED <<kind, host, listed, exits>>

OwnersTimeout(t) ==
    /\ tasks[t].timer /\ ~execs[t].exited
    /\ host' = IF OwnsHost(t) THEN HostShut ELSE host
    /\ SetTask(t, [tasks[t] EXCEPT !.timer = FALSE])
    /\ UNCHANGED <<kind, execs, listed, exits>>

KillTimeout(t) ==
    /\ tasks[t].timer /\ ~execs[t].exited
    /\ host' = HostShut
    /\ SetTask(t, [tasks[t] EXCEPT !.timer = FALSE])
    /\ UNCHANGED <<kind, execs, listed, exits>>

---------------------------------------------------------------------------
\* Delete.

\* DeleteExec of an init exec up to its wait.  The other execs are forced to
\* exit before the state of the init exec is looked at: a delete that is
\* refused because the init exec runs, or that times out, has done as much.
DeleteTask(t) ==
    /\ Reachable(t) /\ ~IsFake(t)
    /\ \E x \in ExecsOf(t) \cup {t} : ~execs[x].exited
    /\ LET forced == ExecsOf(t) \cup (IF execs[t].state = "Created" THEN {t} ELSE {}) IN
       \E delivered \in Delivery(forced) : execs' = ForceAll(forced, delivered)
    /\ UNCHANGED <<kind, host, tasks, listed, exits>>

\* pod.DeleteTask: the sandbox is never removed.
Removed(t) == IF t = Sandbox THEN tasks[t] ELSE [tasks[t] EXCEPT !.phase = "Deleted"]

\* The task is closed: its execs are dropped, and a workload leaves the pod
\* unless the delete event cannot be published.
Deleted(t) ==
    /\ Reachable(t) /\ ~IsFake(t) /\ execs[t].state = "Exited" /\ tasks[t].closed
    /\ listed' = listed \ ExecsOf(t)
    /\ \/ SetTask(t, Removed(t))
       \/ "publish" \in Faults(kind) /\ UNCHANGED tasks
    /\ UNCHANGED <<kind, host, execs, exits>>

\* wcowPodSandboxTask.DeleteExec: nothing to wait for.
DeleteSandbox(t) ==
    /\ IsFake(t) /\ Reachable(t) /\ execs[t].state = "Created"
    /\ SetExec(t, ForceExitSandbox(execs[t]))
    /\ UNCHANGED <<kind, host, tasks, listed, exits>>

DeleteExec(x) ==
    /\ Findable(x) /\ execs[x].state \in {"Created", "Exited"}
    /\ SetExec(x, ForceExit(execs[x], TRUE))
    /\ listed' = listed \ {x}
    /\ UNCHANGED <<kind, host, tasks, exits>>

---------------------------------------------------------------------------
\* The goroutines of an exec.

\* waitForExit: the process ended, or Wait failed: the VM is gone, the guest
\* can no longer be asked or the host compute service gave up.
Reap(x) ==
    /\ execs[x].waiter = "Wait"
    /\ \/ execs[x].proc = "Dead" /\ SetExec(x, Reaped(execs[x], "own"))
       \/ (HostGone \/ "wait" \in Faults(kind)) /\ SetExec(x, Reaped(execs[x], "lost"))
    /\ UNCHANGED <<kind, host, tasks, listed, exits>>

\* The exit of an init exec is published by its task.
Free(x) ==
    /\ execs[x].waiter = "Copy"
    /\ SetExec(x, Freed(execs[x]))
    /\ exits' = IF x \in Tasks THEN exits ELSE [exits EXCEPT ![x] = @ + 1]
    /\ UNCHANGED <<kind, host, tasks, listed>>

\* waitForContainerExit.
WaitForContainerExit(x) ==
    /\ execs[x].watching /\ WaitChannelClosed(TaskOf(x))
    /\ \E delivered \in Delivery({x}) :
          SetExec(x, ContainerGone(execs[x], delivered # {}))
    /\ UNCHANGED <<kind, host, tasks, listed, exits>>

---------------------------------------------------------------------------
\* The goroutines of a task.

\* waitInitExit.  The sandbox of a pod without a sandbox container has
\* nothing to shut down.
WaitInitExit(t) ==
    /\ tasks[t].closer = "Wait" /\ execs[t].exited
    /\ SetTask(t, [tasks[t] EXCEPT !.closer = IF IsFake(t) THEN "Host" ELSE "Shutdown"])
    /\ UNCHANGED <<kind, host, execs, listed, exits>>

\* A container that ends takes its processes with it.
Ended(t) == [x \in Ids |-> IF TaskOf(x) = t THEN SignalProcess(execs[x], TRUE) ELSE execs[x]]

\* close: a graceful shutdown, a forced one when that failed or took too
\* long, and on with it whatever came of that.
Shutdown(t) ==
    /\ tasks[t].closer = "Shutdown"
    /\ \/ /\ Usable(t)
          /\ SetTask(t, [tasks[t] EXCEPT !.closer = "Release", !.container = "Exited"])
          /\ execs' = Ended(t)
       \/ /\ "shutdown" \in Faults(kind) \/ ~Usable(t)
          /\ SetTask(t, [tasks[t] EXCEPT !.closer = "Terminate"])
          /\ UNCHANGED execs
    /\ UNCHANGED <<kind, host, listed, exits>>

Terminate(t) ==
    /\ tasks[t].closer = "Terminate"
    /\ \/ /\ Usable(t)
          /\ SetTask(t, [tasks[t] EXCEPT !.closer = "Release", !.container = "Exited"])
          /\ execs' = Ended(t)
       \/ /\ "terminate" \in Faults(kind) \/ ~Usable(t)
          /\ SetTask(t, [tasks[t] EXCEPT !.closer = "Release"])
          /\ UNCHANGED execs
    /\ UNCHANGED <<kind, host, listed, exits>>

HostBeforeResources(t) ==
    /\ tasks[t].closer = "Release"
    /\ SetTask(t, [tasks[t] EXCEPT !.closer = "Host", !.handle = FALSE])
    /\ UNCHANGED <<kind, host, execs, listed, exits>>

\* ReleaseResources, whose error is logged and no more, and the container's
\* Close.
Release(t) ==
    /\ tasks[t].closer = "Release"
    /\ \E left \in {"Released"} \cup (IF "release" \in Faults(kind) THEN {"Kept"} ELSE {}) :
          SetTask(t, [tasks[t] EXCEPT !.closer = "Host", !.resources = left, !.handle = FALSE])
    /\ UNCHANGED <<kind, host, execs, listed, exits>>

\* waitForHostExit: every exec is forced to exit, the init exec last.
WaitForHostExit(t) ==
    /\ tasks[t].hostWaiter = "Wait" /\ HostWaitOver
    /\ execs' = ForceAll(ExecsOf(t) \cup {t}, {})
    /\ SetTask(t, [tasks[t] EXCEPT !.hostWaiter = "Host"])
    /\ UNCHANGED <<kind, host, listed, exits>>

Everyone(t, who) ==
    /\ tasks[t][who] = "Host" /\ tasks[t].closeHost # "Done"
    /\ host' = IF OwnsHost(t) /\ host = "Running" THEN "Closed" ELSE host
    /\ exits' = [exits EXCEPT ![t] = @ + 1]
    /\ SetTask(t, [tasks[t] EXCEPT ![who] = "End", !.closed = TRUE])
    /\ UNCHANGED <<kind, execs, listed>>

\* closeHost: the first of the two goroutines closes the VM if the task owns
\* it, publishes the exit of the task and closes closed.  The other waits.
Finished(t, who) == [tasks[t] EXCEPT !.closeHost = "Done", ![who] = "End", !.closed = TRUE,
                                     !.told = execs[t].status]

CloseHost(t, who) ==
    /\ tasks[t][who] = "Host" /\ tasks[t].closeHost = "Free"
    /\ IF OwnsHost(t)
       THEN /\ host' = IF host = "Running" THEN "Closed" ELSE HostShut
            /\ SetTask(t, [tasks[t] EXCEPT !.closeHost = who])
            /\ UNCHANGED exits
       ELSE /\ SetTask(t, Finished(t, who))
            /\ exits' = [exits EXCEPT ![t] = @ + 1]
            /\ UNCHANGED host
    /\ UNCHANGED <<kind, execs, listed>>

Published(t) ==
    /\ \E who \in {"closer", "hostWaiter"} :
          /\ tasks[t].closeHost = who
          /\ SetTask(t, Finished(t, who))
    /\ exits' = [exits EXCEPT ![t] = @ + 1]
    /\ UNCHANGED <<kind, host, execs, listed>>

---------------------------------------------------------------------------
\* The guest and the host compute service.

ProcessEnds(x) ==
    /\ execs[x].proc = "Alive" /\ ~HostGone
    /\ SetExec(x, SignalProcess(execs[x], TRUE))
    /\ UNCHANGED <<kind, host, tasks, listed, exits>>

ContainerExits(t) ==
    /\ tasks[t].container = "Running" /\ ~HostGone
    /\ SetTask(t, [tasks[t] EXCEPT !.container = "Exited"])
    /\ execs' = Ended(t)
    /\ UNCHANGED <<kind, host, listed, exits>>

HostExits ==
    /\ host = "Running"
    /\ host' = "Exited"
    /\ UNCHANGED <<kind, tasks, execs, listed, exits>>

---------------------------------------------------------------------------

Requests ==
    \/ CreatePod
    \/ \E t \in Workloads : CreateTask(t)
    \/ \E t \in Tasks : StartSandbox(t) \/ StartInit(t)
                      \/ DeleteTask(t) \/ Deleted(t) \/ DeleteSandbox(t)
    \/ \E x \in Execs : CreateExec(x) \/ StartExec(x) \/ DeleteExec(x)
    \/ \E x \in Ids, all, sigkill \in BOOLEAN : KillTask(x, all, sigkill)

Guest ==
    \/ \E x \in Ids : ProcessEnds(x)
    \/ \E t \in Tasks : ContainerExits(t)
    \/ HostExits

\* What the shim does without being asked, its timers included.
Background ==
    \/ \E x \in Ids : Reap(x) \/ Free(x) \/ WaitForContainerExit(x)
    \/ \E t \in Tasks :
          \/ Created(t) \/ KillTimeout(t)
          \/ WaitInitExit(t) \/ Shutdown(t) \/ Terminate(t) \/ Release(t)
          \/ WaitForHostExit(t) \/ Published(t)
          \/ \E who \in {"closer", "hostWaiter"} : CloseHost(t, who)

Next == Requests \/ Guest \/ Background

Spec == Init /\ [][Next]_vars

\* The Go scheduler runs the shim's goroutines and its timers fire; nothing
\* is assumed of callers, of the guest or of the VM.
FairSpec == Spec /\ WF_vars(Background)

---------------------------------------------------------------------------

\* A task is closed only after its container's resources have been released,
\* or the attempt failed, and its init exec has exited, unless its VM went away
\* under it: what a delete waits for (task_hcs.go:519-526).
ClosedReleased ==
    \A t \in Tasks :
        tasks[t].closed /\ (IF OwnsHost(t) THEN host \notin {"Exited", "Lost"} ELSE ~HostGone)
            => tasks[t].resources # "Held" /\ execs[t].exited

\* The exit of a task and of an exec is published at most once, whichever of
\* the goroutines that race to close it gets there first.
OneExit == \A x \in Ids : exits[x] <= 1

\* The exit status of an exec with a process is the one the process had, or
\* that of a failed wait for it, and never one the shim made up; and the status
\* in the exit event of a task is the one its init exec keeps, except that a
\* task whose VM is gone may report its init exec before it has exited.
StatusesAreReal ==
    /\ \A x \in Ids :
          execs[x].state = "Exited" /\ execs[x].waiter # "None" =>
              \/ execs[x].status = "own" /\ execs[x].proc = "Dead"
              \/ execs[x].status = "lost"
    /\ \A t \in Tasks :
          tasks[t].closed =>
              \/ tasks[t].told = execs[t].status /\ execs[t].state = "Exited"
              \/ tasks[t].told = "unset" /\ HostGone

\* Nobody notices the exit of a VM that forwards its logs in a pod without a
\* sandbox container: its task has no process whose wait would fail.
Unnoticed(t) == IsFake(t) /\ kind.logs /\ host = "Exited" /\ ~execs[t].exited

\* A task whose init exec ended, whose VM is gone, or whose init exec was
\* sent SIGKILL in a VM that no longer delivers signals, is closed, and what its
\* container holds is let go of, also when the exit of the VM closed the task.
TasksClosed ==
    \A t \in Tasks :
        tasks[t].closer # "None" /\ (execs[t].exited \/ HostGone \/ tasks[t].timer) =>
            \/ tasks[t].closed /\ execs[t].exited /\ tasks[t].resources # "Held"
            \/ Unnoticed(t)

=============================================================================

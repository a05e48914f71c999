----------------------------- MODULE ShimProofs -----------------------------
(***************************************************************************)
(* The tasks, execs and pods of the runhcs shim keep their invariant, and  *)
(* so do the handles of the HCS bindings, for any tasks, execs, systems,   *)
(* processes and faults; with both, the theorems about the shim.           *)
(***************************************************************************)
EXTENDS ShimHost, TLAPS

-----------------------------------------------------------------------------
(* The tasks: types.                                                        *)

ExecRecords ==
    [state : {"None", "Created", "Running", "Exited"}, exited : BOOLEAN, io : BOOLEAN,
     proc : {"None", "Alive", "Dead"}, waiter : {"None", "Wait", "Copy", "End"},
     status : {"unset", "forced", "own", "lost"}, watching : BOOLEAN]

Phases == {"None", "Creating", "Listed", "Deleted", "Failed"}
Containers == {"None", "Created", "Running", "Exited"}
Holdings == {"None", "Held", "Released", "Kept"}
CloserSteps == {"None", "Wait", "Shutdown", "Terminate", "Release", "Host", "End"}
WaiterSteps == {"None", "Wait", "Host", "End"}
Closings == {"Free", "closer", "hostWaiter", "Done"}
Said == {"none", "unset", "forced", "own", "lost"}

TaskRecords ==
    [phase : Phases, container : Containers, handle : BOOLEAN, resources : Holdings,
     closer : CloserSteps, hostWaiter : WaiterSteps, closeHost : Closings, closed : BOOLEAN,
     told : Said, timer : BOOLEAN]

Hosts == {"None", "Running", "Exited", "Closed", "Lost"}

TasksTypeOK ==
    /\ kind \in AllKinds
    /\ host \in Hosts
    /\ tasks \in [Tasks -> TaskRecords]
    /\ execs \in [Ids -> ExecRecords]
    /\ listed \subseteq Execs
    /\ exits \in [Ids -> Nat]

LEMMA TaskValues ==
    /\ "None" \in Phases /\ "Creating" \in Phases /\ "Listed" \in Phases
    /\ "Deleted" \in Phases /\ "Failed" \in Phases
    /\ "None" \in Containers /\ "Created" \in Containers /\ "Running" \in Containers
    /\ "Exited" \in Containers
    /\ "None" \in Holdings /\ "Held" \in Holdings /\ "Released" \in Holdings
    /\ "Kept" \in Holdings
    /\ "None" \in CloserSteps /\ "Wait" \in CloserSteps /\ "Shutdown" \in CloserSteps
    /\ "Terminate" \in CloserSteps /\ "Release" \in CloserSteps /\ "Host" \in CloserSteps
    /\ "End" \in CloserSteps
    /\ "None" \in WaiterSteps /\ "Wait" \in WaiterSteps /\ "Host" \in WaiterSteps
    /\ "End" \in WaiterSteps
    /\ "Free" \in Closings /\ "closer" \in Closings /\ "hostWaiter" \in Closings
    /\ "Done" \in Closings
    /\ "none" \in Said
BY Zenon DEF Phases, Containers, Holdings, CloserSteps, WaiterSteps, Closings, Said

-----------------------------------------------------------------------------
(* The tasks: the inductive invariant.                                      *)

\* An exec that is not created is blank.  One whose process is waited for runs,
\* and has afterwards the status the wait ended with; only an exec that exited
\* has a status.
SoundExec(e) ==
    /\ e.state = "None" => e = NoExec
    /\ e.waiter = "Wait" => e.state = "Running"
    /\ e.waiter \in {"Copy", "End"} =>
          e.state = "Exited" /\ ((e.status = "own" /\ e.proc = "Dead") \/ e.status = "lost")
    /\ e.exited => e.state = "Exited"
    /\ e.state # "Exited" => e.status = "unset"

\* An exec reports its exit when its waiter ends; nobody waits for the process
\* of a sandbox that has none.
ExecInv ==
    /\ \A x \in Ids : SoundExec(execs[x])
    /\ kind.fake => execs[Sandbox].waiter = "None"
    /\ \A x \in Execs : exits[x] = IF execs[x].waiter = "End" THEN 1 ELSE 0

\* A goroutine that closes the task is where closeHost says it is; a closer that
\* got that far has released the container of an exec that exited, and a host
\* waiter has seen the VM gone.  The status told is that of an exec that exited.
SoundTask(t) ==
    LET r == tasks[t] IN
    /\ r.phase = "None" <=> execs[t].state = "None"
    /\ r.phase = "None" => r = NoTask
    /\ r.closeHost = "closer" => r.closer = "Host"
    /\ r.closeHost = "hostWaiter" => r.hostWaiter = "Host"
    /\ r.closed => r.closer = "End" \/ r.hostWaiter = "End"
    /\ r.closer \notin {"None", "Wait"} => execs[t].exited
    /\ r.closer \in {"Host", "End"} => r.resources # "Held"
    /\ r.hostWaiter \in {"Host", "End"} => HostGone
    /\ IsFake(t) => r.resources # "Held"
    /\ r.closed => \/ r.told = execs[t].status /\ execs[t].state = "Exited"
                   \/ r.told = "unset" /\ HostGone
    /\ exits[t] = IF r.closeHost = "Done" THEN 1 ELSE 0

\* Only the sandbox's own closer closes the VM.
SoundHost ==
    /\ tasks[Sandbox].phase = "None" => host = "None"
    /\ host = "Closed" => kind.vm /\ tasks[Sandbox].closer \in {"Host", "End"}

TasksInv == TasksTypeOK /\ ExecInv /\ (\A t \in Tasks : SoundTask(t)) /\ SoundHost

-----------------------------------------------------------------------------
(* What the operations on one exec do to it.                                *)

\* An exec stays created, and exited with its status.
Later(e, f) ==
    /\ e.exited => f.exited
    /\ f.state = "None" <=> e.state = "None"
    /\ e.state = "Exited" => f.state = "Exited" /\ f.status = e.status

\* A step that does not concern the goroutine waiting for the process.
Quiet(e, f) ==
    /\ Later(e, f)
    /\ f.waiter = e.waiter
    /\ e.state = "None" => f = e
    /\ e.waiter # "None" => /\ f.state = e.state /\ f.status = e.status
                            /\ e.proc = "Dead" => f.proc = "Dead"
    /\ f.exited => f.state = "Exited"
    /\ f.state # "Exited" => f.status = "unset"

\* Nobody waits for the process of an exec that was not started.
LEMMA Idle ==
    ASSUME NEW e \in ExecRecords, SoundExec(e), e.state \in {"None", "Created"}
    PROVE  e.waiter = "None"
BY Zenon DEF SoundExec, ExecRecords

LEMMA NoExecType ==
    /\ NoExec \in ExecRecords /\ NoExec.state = "None" /\ NoExec.waiter = "None"
    /\ NoExec.exited = FALSE /\ NoExec.status = "unset"
BY Zenon DEF NoExec, ExecRecords

LEMMA NewExecs ==
    /\ newHcsExec \in ExecRecords /\ newHcsExec.state = "Created" /\ newHcsExec.waiter = "None"
    /\ newHcsExec.exited = FALSE /\ newHcsExec.status = "unset"
    /\ newWcowPodSandboxExec \in ExecRecords
    /\ newWcowPodSandboxExec.state = "Created" /\ newWcowPodSandboxExec.waiter = "None"
    /\ newWcowPodSandboxExec.exited = FALSE /\ newWcowPodSandboxExec.status = "unset"
BY Zenon DEF newHcsExec, newWcowPodSandboxExec, NoExec, ExecRecords

LEMMA QuietSame ==
    ASSUME NEW e \in ExecRecords, SoundExec(e)
    PROVE  Quiet(e, e)
BY NoExecType, Zenon DEF Quiet, Later, SoundExec

LEMMA QuietSound ==
    ASSUME NEW e \in ExecRecords, NEW f \in ExecRecords, SoundExec(e), Quiet(e, f)
    PROVE  SoundExec(f)
BY NoExecType, Zenon DEF Quiet, Later, SoundExec

LEMMA SignalQuiet ==
    ASSUME NEW e \in ExecRecords, SoundExec(e), NEW d
    PROVE  SignalProcess(e, d) \in ExecRecords /\ Quiet(e, SignalProcess(e, d))
<1>1. CASE SignalProcess(e, d) = e
  BY <1>1, QuietSame, Zenon
<1>2. CASE e.proc = "Alive" /\ SignalProcess(e, d) = [e EXCEPT !.proc = "Dead"]
  <2>1. [e EXCEPT !.proc = "Dead"] \in ExecRecords
    BY Zenon DEF ExecRecords
  <2>2. e.state # "None"
    BY <1>2 DEF SoundExec, NoExec
  <2>3. Quiet(e, [e EXCEPT !.proc = "Dead"])
    BY <2>2, Zenon DEF Quiet, Later, SoundExec, ExecRecords
  <2> QED  BY <1>2, <2>1, <2>3, Zenon
<1> QED  BY <1>1, <1>2, Zenon DEF SignalProcess

LEMMA ExitQuiet ==
    ASSUME NEW e \in ExecRecords, SoundExec(e), e.state # "None", e.waiter = "None"
    PROVE  ExitFromCreatedL(e) \in ExecRecords /\ Quiet(e, ExitFromCreatedL(e))
<1> DEFINE f == [e EXCEPT !.state = "Exited", !.exited = TRUE, !.io = FALSE, !.watching = FALSE,
                          !.status = "forced"]
<1>1. CASE e.state = "Exited"
  BY <1>1, QuietSame, Zenon DEF ExitFromCreatedL
<1>2. CASE e.state # "Exited"
  <2>1. f \in ExecRecords /\ f.state = "Exited" /\ f.exited /\ f.waiter = e.waiter
        /\ f.proc = e.proc
    BY Zenon DEF ExecRecords
  <2>2. ExitFromCreatedL(e) = f
    BY <1>2, Zenon DEF ExitFromCreatedL
  <2> HIDE DEF f
  <2> QED  BY <1>2, <2>1, <2>2, Zenon DEF Quiet, Later
<1> QED  BY <1>1, <1>2, Zenon

LEMMA KillQuiet ==
    ASSUME NEW e \in ExecRecords, SoundExec(e), NEW d
    PROVE  /\ Kill(e, d) \in ExecRecords /\ Quiet(e, Kill(e, d))
           /\ ForceExit(e, d) \in ExecRecords /\ Quiet(e, ForceExit(e, d))
<1>1. CASE e.state = "Created"
  <2>1. e.waiter = "None" /\ Kill(e, d) = ExitFromCreatedL(e)
    BY <1>1, Idle, Zenon DEF Kill
  <2> QED  BY <1>1, <2>1, ExitQuiet, Zenon DEF ForceExit
<1>2. CASE e.state = "Running"
  BY <1>2, SignalQuiet, Zenon DEF Kill, ForceExit
<1>3. CASE e.state \notin {"Created", "Running"}
  BY <1>3, QuietSame, Zenon DEF Kill, ForceExit
<1> QED  BY <1>1, <1>2, <1>3, Zenon

LEMMA SandboxQuiet ==
    ASSUME NEW e \in ExecRecords, SoundExec(e), e.waiter = "None"
    PROVE  /\ KillSandbox(e) \in ExecRecords /\ Quiet(e, KillSandbox(e))
           /\ e.state # "None" => /\ ForceExitSandbox(e) \in ExecRecords
                                  /\ Quiet(e, ForceExitSandbox(e))
<1> DEFINE f == SandboxExited(e)
<1>1. f \in ExecRecords /\ f.state = "Exited" /\ f.exited /\ f.waiter = e.waiter /\ f.proc = e.proc
  BY Zenon DEF ExecRecords, SandboxExited
<1> HIDE DEF f
<1>2. e.state \notin {"None", "Exited"} => Quiet(e, f)
  BY <1>1, Zenon DEF Quiet, Later
<1>3. KillSandbox(e) = IF e.state \in {"Created", "Running"} THEN f ELSE e
  BY Zenon DEF KillSandbox, f
<1>4. ForceExitSandbox(e) = IF e.state # "Exited" THEN f ELSE e
  BY Zenon DEF ForceExitSandbox, f
<1> QED  BY <1>1, <1>2, <1>3, <1>4, QuietSame, Zenon

LEMMA GoneQuiet ==
    ASSUME NEW e \in ExecRecords, SoundExec(e), e.watching, NEW d
    PROVE  ContainerGone(e, d) \in ExecRecords /\ Quiet(e, ContainerGone(e, d))
<1> DEFINE k == Kill(e, d)
           f == [k EXCEPT !.watching = FALSE]
<1>1. k \in ExecRecords /\ Quiet(e, k)
  BY KillQuiet, Zenon
<1> HIDE DEF k
<1>2. f \in ExecRecords /\ f.state = k.state /\ f.exited = k.exited /\ f.waiter = k.waiter
      /\ f.proc = k.proc /\ f.status = k.status
  BY <1>1, Zenon DEF ExecRecords
<1>3. ContainerGone(e, d) = f
  BY Zenon DEF ContainerGone, k
<1>4. e.state # "None"
  BY DEF SoundExec, NoExec
<1> HIDE DEF f
<1> QED  BY <1>1, <1>2, <1>3, <1>4, Zenon DEF Quiet, Later

LEMMA StartedExec ==
    ASSUME NEW e \in ExecRecords, SoundExec(e), e.state = "Created"
    PROVE  /\ Started(e) \in ExecRecords /\ Started(e).state = "Running"
           /\ Started(e).waiter = "Wait" /\ Started(e).exited = FALSE
           /\ Started(e).status = "unset" /\ e.exited = FALSE
           /\ StartedUnpublished(e) \in ExecRecords /\ Quiet(e, StartedUnpublished(e))
<1>1. e.waiter = "None" /\ e.exited = FALSE /\ e.status = "unset"
  BY Zenon DEF SoundExec, ExecRecords
<1> DEFINE f == [e EXCEPT !.state = "Running", !.proc = "Alive"]
           g == [f EXCEPT !.state = "Exited", !.exited = TRUE, !.io = FALSE, !.watching = FALSE,
                          !.status = "forced"]
<1>2. f \in ExecRecords /\ f.state = "Running" /\ f.waiter = "None"
  BY <1>1, Zenon DEF ExecRecords
<1>3. StartedUnpublished(e) = g
  BY <1>2, Zenon DEF StartedUnpublished, ExitFromCreatedL
<1> HIDE DEF f
<1>4. g \in ExecRecords /\ g.state = "Exited" /\ g.waiter = "None" /\ g.exited
  BY <1>2, Zenon DEF ExecRecords
<1> HIDE DEF g
<1>5. Started(e) \in ExecRecords /\ Started(e).state = "Running"
      /\ Started(e).waiter = "Wait" /\ Started(e).exited = e.exited
      /\ Started(e).status = e.status
  BY Zenon DEF Started, ExecRecords
<1> QED  BY <1>1, <1>3, <1>4, <1>5, Zenon DEF Quiet, Later

LEMMA ReapedExec ==
    ASSUME NEW e \in ExecRecords
    PROVE  /\ \A st \in {"own", "lost"} :
                /\ Reaped(e, st) \in ExecRecords /\ Reaped(e, st).state = "Exited"
                /\ Reaped(e, st).waiter = "Copy" /\ Reaped(e, st).status = st
                /\ Reaped(e, st).exited = e.exited /\ Reaped(e, st).proc = e.proc
           /\ Freed(e) \in ExecRecords /\ Freed(e).state = e.state /\ Freed(e).waiter = "End"
           /\ Freed(e).exited /\ Freed(e).proc = e.proc /\ Freed(e).status = e.status
BY Zenon DEF Reaped, Freed, ExecRecords

-----------------------------------------------------------------------------
(* What a step does to the invariant of the tasks.                          *)

\* The kind of the shim stays, and a VM that is gone does not come back.
Persist == UNCHANGED kind /\ (HostGone => HostGone')

\* Execs that change without their waiters keep their invariant.
LEMMA ExecsQuiet ==
    ASSUME TasksInv, Persist, execs' \in [Ids -> ExecRecords],
           \A x \in Ids : Quiet(execs[x], execs'[x]),
           \A x \in Execs : exits'[x] = exits[x]
    PROVE  ExecInv'
<1>1. \A x \in Ids : execs[x] \in ExecRecords /\ execs'[x] \in ExecRecords /\ SoundExec(execs[x])
  BY Zenon DEF TasksInv, TasksTypeOK, ExecInv
<1>2. \A x \in Ids : SoundExec(execs'[x])
  BY <1>1, QuietSound, Zenon
<1>3. \A x \in Ids : execs'[x].waiter = execs[x].waiter
  BY Zenon DEF Quiet
<1>4. kind.fake => execs'[Sandbox].waiter = "None"
  BY <1>3, Zenon DEF TasksInv, ExecInv, Ids, Tasks
<1>5. \A x \in Execs : exits'[x] = IF execs'[x].waiter = "End" THEN 1 ELSE 0
  BY <1>3, Zenon DEF TasksInv, ExecInv, Ids
<1> QED  BY <1>2, <1>4, <1>5, Zenon DEF ExecInv, Persist

\* So does one exec that changes, if its own part of the invariant holds.
LEMMA ExecChanges ==
    ASSUME TasksInv, Persist, NEW x \in Ids, NEW f \in ExecRecords, SetExec(x, f), SoundExec(f),
           kind.fake /\ x = Sandbox => f.waiter = "None",
           \A y \in Execs \ {x} : exits'[y] = exits[y],
           x \in Execs => exits'[x] = IF f.waiter = "End" THEN 1 ELSE 0
    PROVE  execs' \in [Ids -> ExecRecords] /\ ExecInv'
           /\ execs'[x] = f /\ \A y \in Ids \ {x} : execs'[y] = execs[y]
<1>1. execs' \in [Ids -> ExecRecords]
      /\ execs'[x] = f /\ \A y \in Ids \ {x} : execs'[y] = execs[y]
  BY Zenon DEF SetExec, TasksInv, TasksTypeOK
<1>2. \A y \in Ids : SoundExec(execs'[y])
  BY <1>1, Zenon DEF TasksInv, ExecInv
<1>3. kind.fake => execs'[Sandbox].waiter = "None"
  BY <1>1, Zenon DEF TasksInv, ExecInv, Ids, Tasks
<1>4. \A y \in Execs : exits'[y] = IF execs'[y].waiter = "End" THEN 1 ELSE 0
  BY <1>1, Zenon DEF TasksInv, ExecInv, Ids
<1> QED  BY <1>1, <1>2, <1>3, <1>4, Zenon DEF ExecInv, Persist

\* One exec changes, and not its waiter.
LEMMA OneQuiet ==
    ASSUME TasksInv, Persist, NEW x \in Ids, NEW f \in ExecRecords, SetExec(x, f),
           Quiet(execs[x], f), \A y \in Execs : exits'[y] = exits[y]
    PROVE  /\ execs' \in [Ids -> ExecRecords] /\ ExecInv'
           /\ \A y \in Ids : Later(execs[y], execs'[y])
<1>1. execs' \in [Ids -> ExecRecords]
      /\ execs'[x] = f /\ \A y \in Ids \ {x} : execs'[y] = execs[y]
  BY Zenon DEF SetExec, TasksInv, TasksTypeOK
<1>2. \A y \in Ids : execs[y] \in ExecRecords /\ SoundExec(execs[y])
  BY Zenon DEF TasksInv, TasksTypeOK, ExecInv
<1>3. \A y \in Ids : Quiet(execs[y], execs'[y])
  BY <1>1, <1>2, QuietSame, Zenon
<1> QED  BY <1>1, <1>3, ExecsQuiet, Zenon DEF Quiet

\* A task that a step leaves alone.
LEMMA TaskSame ==
    ASSUME NEW t \in Tasks, SoundTask(t), Persist, tasks'[t] = tasks[t], exits'[t] = exits[t],
           Later(execs[t], execs'[t])
    PROVE  SoundTask(t)'
BY Zenon DEF SoundTask, Persist, Later, IsFake

\* A step that leaves the tasks alone.
LEMMA TasksSame ==
    ASSUME TasksInv, UNCHANGED <<kind, host, tasks>>, listed' \subseteq Execs,
           execs' \in [Ids -> ExecRecords], ExecInv', exits' \in [Ids -> Nat],
           \A t \in Tasks : exits'[t] = exits[t] /\ Later(execs[t], execs'[t])
    PROVE  TasksInv'
<1>1. Persist
  BY Zenon DEF Persist, HostGone
<1>2. \A t \in Tasks : SoundTask(t)'
  BY <1>1, TaskSame, Zenon DEF TasksInv
<1>3. TasksTypeOK' /\ SoundHost'
  BY Zenon DEF TasksInv, TasksTypeOK, SoundHost
<1> QED  BY <1>2, <1>3, Zenon DEF TasksInv

\* A step of one task.
LEMMA TaskChanges ==
    ASSUME TasksInv, Persist, NEW t \in Tasks, NEW r \in TaskRecords, SetTask(t, r),
           host' \in Hosts, listed' \subseteq Execs,
           execs' \in [Ids -> ExecRecords], ExecInv', exits' \in [Ids -> Nat],
           \A u \in Tasks \ {t} : exits'[u] = exits[u] /\ Later(execs[u], execs'[u]),
           tasks'[t] = r => SoundTask(t)',
           tasks'[t] = r /\ tasks' \in [Tasks -> TaskRecords]
             /\ (\A u \in Tasks \ {t} : tasks'[u] = tasks[u]) => SoundHost'
    PROVE  TasksInv'
<1>1. tasks' \in [Tasks -> TaskRecords] /\ tasks'[t] = r
      /\ \A u \in Tasks \ {t} : tasks'[u] = tasks[u]
  BY Zenon DEF SetTask, TasksInv, TasksTypeOK
<1>2. \A u \in Tasks : SoundTask(u)'
  BY <1>1, TaskSame, Zenon DEF TasksInv
<1>3. TasksTypeOK'
  BY <1>1, Zenon DEF TasksInv, TasksTypeOK, Persist
<1> QED  BY <1>1, <1>2, <1>3, Zenon DEF TasksInv

\* A step that leaves the execs, their events and the VM alone.
LEMMA ExecsSame ==
    ASSUME TasksInv, UNCHANGED <<kind, host, execs, exits>>
    PROVE  /\ execs' \in [Ids -> ExecRecords] /\ ExecInv'
           /\ \A u \in Tasks : Later(execs[u], execs'[u])
<1>1. Persist
  BY Zenon DEF Persist, HostGone
<1>2. \A x \in Ids : execs[x] \in ExecRecords /\ SoundExec(execs[x])
  BY Zenon DEF TasksInv, TasksTypeOK, ExecInv
<1>3. \A x \in Ids : Quiet(execs[x], execs'[x])
  BY <1>2, QuietSame, Zenon
<1>4. ExecInv' /\ execs' \in [Ids -> ExecRecords]
  BY <1>1, <1>3, ExecsQuiet, Zenon DEF TasksInv, TasksTypeOK
<1> QED  BY <1>3, <1>4, Zenon DEF Quiet, Ids

\* A step of one task that publishes nothing and leaves the VM alone.
LEMMA TaskMoves ==
    ASSUME TasksInv, NEW t \in Tasks, NEW r \in TaskRecords, SetTask(t, r),
           UNCHANGED <<kind, host, exits>>, listed' \subseteq Execs,
           execs' \in [Ids -> ExecRecords], ExecInv',
           \A u \in Tasks : Later(execs[u], execs'[u]),
           tasks'[t] = r => SoundTask(t)',
           r.phase = "None" => tasks[t].phase = "None",
           tasks[t].closer \in {"Host", "End"} => r.closer \in {"Host", "End"}
    PROVE  TasksInv'
<1>1. Persist
  BY Zenon DEF Persist, HostGone
<1>2. ASSUME tasks'[t] = r, \A u \in Tasks \ {t} : tasks'[u] = tasks[u]
      PROVE  SoundHost'
  BY <1>2, Zenon DEF TasksInv, SoundHost, Tasks
<1>3. host' \in Hosts /\ exits' \in [Ids -> Nat]
  BY Zenon DEF TasksInv, TasksTypeOK
<1> QED  BY <1>1, <1>2, <1>3, TaskChanges, Zenon

\* What the invariant says of one exec and of one task.
LEMMA ExecFacts ==
    ASSUME TasksInv, NEW x \in Ids
    PROVE  execs[x] \in ExecRecords /\ SoundExec(execs[x])
BY Zenon DEF TasksInv, TasksTypeOK, ExecInv

LEMMA TaskFacts ==
    ASSUME TasksInv, NEW t \in Tasks
    PROVE  /\ tasks[t] \in TaskRecords /\ SoundTask(t) /\ t \in Ids /\ t \notin Execs
           /\ execs[t] \in ExecRecords /\ exits[t] \in Nat
BY RunhcsAssumption, Zenon DEF TasksInv, TasksTypeOK, Ids

LEMMA NewTasks ==
    ASSUME kind \in AllKinds
    PROVE  /\ newHcsTask \in TaskRecords /\ newHcsTask.phase = "Creating"
           /\ newHcsTask.closer = "Wait" /\ newHcsTask.hostWaiter \in {"None", "Wait"}
           /\ newHcsTask.closeHost = "Free" /\ newHcsTask.closed = FALSE
           /\ newWcowPodSandboxTask \in TaskRecords /\ newWcowPodSandboxTask.phase = "Creating"
           /\ newWcowPodSandboxTask.closer = "Wait"
           /\ newWcowPodSandboxTask.hostWaiter \in {"None", "Wait"}
           /\ newWcowPodSandboxTask.closeHost = "Free" /\ newWcowPodSandboxTask.closed = FALSE
           /\ newWcowPodSandboxTask.resources = "None"
BY TaskValues, Zenon DEF newHcsTask, newWcowPodSandboxTask, NoTask, TaskRecords

\* A task is new.
LEMMA TaskCreated ==
    ASSUME TasksInv, UNCHANGED <<kind, listed, exits>>, NEW t \in Tasks, tasks[t].phase = "None",
           NEW r \in TaskRecords, SetTask(t, r), NEW e \in ExecRecords, SetExec(t, e),
           e.state = "Created", e.waiter = "None", e.exited = FALSE, e.status = "unset",
           r.phase = "Creating", r.closer = "Wait", r.hostWaiter \in {"None", "Wait"},
           r.closeHost = "Free", r.closed = FALSE, IsFake(t) => r.resources = "None",
           host' \in Hosts,
           IF t = Sandbox THEN host' \in {"None", "Running"} ELSE host' = host
    PROVE  TasksInv'
<1>1. SoundTask(t) /\ t \in Ids /\ t \notin Execs /\ NoTask.closeHost = "Free"
  BY TaskFacts, Zenon DEF NoTask
<1>2. exits[t] = 0
  BY <1>1, Zenon DEF SoundTask
<1>3. t = Sandbox => host = "None"
  BY Zenon DEF TasksInv, SoundHost
<1>4. Persist
  BY <1>3, Zenon DEF Persist, HostGone
<1>5. SoundExec(e)
  BY Zenon DEF SoundExec
<1>6. execs' \in [Ids -> ExecRecords] /\ ExecInv'
      /\ execs'[t] = e /\ \A y \in Ids \ {t} : execs'[y] = execs[y]
  BY <1>1, <1>4, <1>5, ExecChanges, Zenon
<1>7. \A u \in Tasks \ {t} : exits'[u] = exits[u] /\ Later(execs[u], execs'[u])
  BY <1>6, Zenon DEF Later, Ids
<1>8. ASSUME tasks'[t] = r PROVE SoundTask(t)'
  BY <1>2, <1>6, <1>8, Zenon DEF SoundTask, IsFake
<1>9. ASSUME tasks'[t] = r, \A u \in Tasks \ {t} : tasks'[u] = tasks[u]
      PROVE  SoundHost'
  <2>1. CASE t = Sandbox
    BY <1>9, <2>1, Zenon DEF SoundHost
  <2>2. CASE t # Sandbox
    BY <1>9, <2>2, Zenon DEF SoundHost, TasksInv, Tasks
  <2> QED  BY <2>1, <2>2, Zenon
<1>10. listed' \subseteq Execs /\ exits' \in [Ids -> Nat]
  BY Zenon DEF TasksInv, TasksTypeOK
<1> QED  BY <1>4, <1>6, <1>7, <1>8, <1>9, <1>10, TaskChanges, Zenon

LEMMA CreatePodStep == TasksInv /\ CreatePod => TasksInv'
<1> SUFFICES ASSUME TasksInv, CreatePod PROVE TasksInv'
  BY Zenon
<1>1. Sandbox \in Tasks /\ kind \in AllKinds
  BY Zenon DEF Tasks, TasksInv, TasksTypeOK
<1>2. host' \in {"None", "Running"} /\ host' \in Hosts
  BY Zenon DEF CreatePod, Hosts
<1>3. CASE kind.fake
  BY <1>1, <1>2, <1>3, NewTasks, NewExecs, TaskCreated, Zenon DEF CreatePod
<1>4. CASE ~kind.fake
  BY <1>1, <1>2, <1>4, NewTasks, NewExecs, TaskCreated, Zenon DEF CreatePod, IsFake
<1> QED  BY <1>3, <1>4, Zenon

LEMMA CreateTaskStep ==
    ASSUME TasksInv, NEW t \in Workloads, CreateTask(t)
    PROVE  TasksInv'
<1>1. t \in Tasks /\ t # Sandbox /\ kind \in AllKinds
      /\ host \in Hosts
  BY RunhcsAssumption, Zenon DEF Tasks, TasksInv, TasksTypeOK
<1> QED  BY <1>1, NewTasks, NewExecs, TaskCreated, Zenon DEF CreateTask, IsFake

\* The VM of a task that fails, or that a signal does not end, is lost.
LEMMA HostLost ==
    ASSUME TasksInv, NEW t \in Tasks, NEW r \in TaskRecords, SetTask(t, r),
           UNCHANGED <<kind, execs, listed, exits>>,
           host' = host \/ (host \in {"Running", "Exited"} /\ host' \in {"Exited", "Lost"}),
           r.phase # "None", tasks[t].phase # "None",
           r.closeHost = tasks[t].closeHost, r.closer = tasks[t].closer,
           r.hostWaiter = tasks[t].hostWaiter, r.closed = tasks[t].closed,
           r.resources = tasks[t].resources /\ r.told = tasks[t].told
    PROVE  TasksInv'
<1>1. Persist
  BY Zenon DEF Persist, HostGone
<1>2. \A x \in Ids : Quiet(execs[x], execs'[x])
  BY ExecFacts, QuietSame, Zenon
<1>3. ExecInv' /\ execs' \in [Ids -> ExecRecords]
  BY <1>1, <1>2, ExecsQuiet, Zenon DEF TasksInv, TasksTypeOK
<1>4. \A u \in Tasks \ {t} : exits'[u] = exits[u] /\ Later(execs[u], execs'[u])
  BY <1>2, Zenon DEF Quiet, Ids
<1>5. ASSUME tasks'[t] = r PROVE SoundTask(t)'
  BY <1>1, <1>5, TaskFacts, ZenonT(40) DEF SoundTask, IsFake, Persist
<1>6. ASSUME tasks'[t] = r, \A u \in Tasks \ {t} : tasks'[u] = tasks[u]
      PROVE  SoundHost'
  BY <1>6, Zenon DEF TasksInv, SoundHost, Tasks
<1>7. host' \in Hosts /\ exits' \in [Ids -> Nat] /\
        listed' \subseteq Execs
  BY Zenon DEF TasksInv, TasksTypeOK, Hosts
<1> QED  BY <1>1, <1>3, <1>4, <1>5, <1>6, <1>7, TaskChanges, Zenon

LEMMA CreatedStep ==
    ASSUME TasksInv, NEW t \in Tasks, Created(t)
    PROVE  TasksInv'
<1> DEFINE r(p) == [tasks[t] EXCEPT !.phase = p]
<1>1. \A p \in {"Listed", "Failed"} :
        /\ r(p) \in TaskRecords /\ r(p).phase = p
        /\ r(p).closeHost = tasks[t].closeHost /\ r(p).closer = tasks[t].closer
        /\ r(p).hostWaiter = tasks[t].hostWaiter /\ r(p).closed = tasks[t].closed
        /\ r(p).resources = tasks[t].resources /\ r(p).told = tasks[t].told
  BY TaskValues, TaskFacts DEF TaskRecords
<1>2. PICK p \in {"Listed", "Failed"} : SetTask(t, r(p))
  BY Zenon DEF Created
<1>3. host' = host \/ (host \in {"Running", "Exited"} /\ host' \in {"Exited", "Lost"})
  BY Zenon DEF Created, HostShut
<1> HIDE DEF r
<1> QED  BY <1>1, <1>2, <1>3, HostLost, Zenon DEF Created

LEMMA KillTimeoutStep ==
    ASSUME TasksInv, NEW t \in Tasks, KillTimeout(t)
    PROVE  TasksInv'
<1> DEFINE r == [tasks[t] EXCEPT !.timer = FALSE]
<1>1. /\ r \in TaskRecords /\ r.phase = tasks[t].phase
      /\ r.closeHost = tasks[t].closeHost /\ r.closer = tasks[t].closer
      /\ r.hostWaiter = tasks[t].hostWaiter /\ r.closed = tasks[t].closed
      /\ r.resources = tasks[t].resources /\ r.told = tasks[t].told
  BY TaskFacts, TaskValues, ZenonT(40) DEF TaskRecords
<1>2. tasks[t].phase # "None"
  BY TaskFacts DEF KillTimeout, SoundTask, NoTask
<1>3. /\ SetTask(t, r)
      /\ host' = host \/ (host \in {"Running", "Exited"} /\ host' \in {"Exited", "Lost"})
  BY Zenon DEF KillTimeout, HostShut
<1> HIDE DEF r
<1> QED  BY <1>1, <1>2, <1>3, HostLost, Zenon DEF KillTimeout

LEMMA HostExitsStep ==
    ASSUME TasksInv, HostExits
    PROVE  TasksInv'
<1> DEFINE r == tasks[Sandbox]
<1>1. Sandbox \in Tasks /\ r \in TaskRecords /\ r.phase # "None"
  BY Zenon DEF HostExits, TasksInv, TasksTypeOK, SoundHost, Tasks
<1>2. SetTask(Sandbox, r)
  BY <1>1, Zenon DEF HostExits, SetTask, TasksInv, TasksTypeOK
<1> QED  BY <1>1, <1>2, HostLost, Zenon DEF HostExits

-----------------------------------------------------------------------------
(* The steps of the execs.                                                  *)

\* The execs change without their waiters, and nothing else does.
LEMMA QuietStep ==
    ASSUME TasksInv, UNCHANGED <<kind, host, tasks, exits>>, listed' \subseteq Execs,
           execs' \in [Ids -> ExecRecords], \A x \in Ids : Quiet(execs[x], execs'[x])
    PROVE  TasksInv'
<1>1. Persist
  BY Zenon DEF Persist, HostGone
<1>2. ExecInv' /\ exits' \in [Ids -> Nat]
  BY <1>1, ExecsQuiet, Zenon DEF TasksInv, TasksTypeOK
<1>3. \A t \in Tasks : exits'[t] = exits[t] /\ Later(execs[t], execs'[t])
  BY Zenon DEF Quiet, Ids
<1> QED  BY <1>2, <1>3, TasksSame, Zenon

LEMMA OneQuietStep ==
    ASSUME TasksInv, UNCHANGED <<kind, host, tasks, exits>>, listed' \subseteq Execs,
           NEW x \in Ids, NEW f \in ExecRecords, SetExec(x, f), Quiet(execs[x], f)
    PROVE  TasksInv'
<1>1. Persist
  BY Zenon DEF Persist, HostGone
<1>2. ExecInv' /\ execs' \in [Ids -> ExecRecords] /\ exits' \in [Ids -> Nat]
      /\ \A y \in Ids : Later(execs[y], execs'[y])
  BY <1>1, OneQuiet, Zenon DEF TasksInv, TasksTypeOK
<1>3. \A t \in Tasks : exits'[t] = exits[t] /\ Later(execs[t], execs'[t])
  BY <1>2, Zenon DEF Ids
<1> QED  BY <1>2, <1>3, TasksSame, Zenon

\* Signals to any set of execs, and the end of a container.
LEMMA KillAllQuiet ==
    ASSUME TasksInv, NEW S, NEW d
    PROVE  /\ KillAll(S, d) \in [Ids -> ExecRecords]
           /\ \A x \in Ids : Quiet(execs[x], KillAll(S, d)[x])
<1>1. ASSUME NEW x \in Ids
      PROVE  KillAll(S, d)[x] \in ExecRecords /\ Quiet(execs[x], KillAll(S, d)[x])
  <2>1. KillAll(S, d)[x] = IF x \notin S THEN execs[x]
                           ELSE IF x = Sandbox /\ kind.fake THEN KillSandbox(execs[x])
                           ELSE Kill(execs[x], x \in d)
    BY Zenon DEF KillAll
  <2>2. execs[x] \in ExecRecords /\ SoundExec(execs[x])
    BY ExecFacts, Zenon
  <2>3. CASE x \notin S
    BY <2>1, <2>2, <2>3, QuietSame, Zenon
  <2>4. CASE x \in S /\ x = Sandbox /\ kind.fake
    <3>1. execs[x].waiter = "None"
      BY <2>4, Zenon DEF TasksInv, ExecInv
    <3> QED  BY <2>1, <2>2, <2>4, <3>1, SandboxQuiet, Zenon
  <2>5. CASE x \in S /\ ~(x = Sandbox /\ kind.fake)
    BY <2>1, <2>2, <2>5, KillQuiet, Zenon
  <2> QED  BY <2>3, <2>4, <2>5, Zenon
<1>2. KillAll(S, d) = [x \in Ids |-> KillAll(S, d)[x]]
  BY Zenon DEF KillAll
<1> QED  BY <1>1, <1>2, Zenon

LEMMA ForceAllQuiet ==
    ASSUME TasksInv, NEW S, NEW d, Sandbox \in S /\ kind.fake => execs[Sandbox].state # "None"
    PROVE  /\ ForceAll(S, d) \in [Ids -> ExecRecords]
           /\ \A x \in Ids : Quiet(execs[x], ForceAll(S, d)[x])
<1>1. ASSUME NEW x \in Ids
      PROVE  ForceAll(S, d)[x] \in ExecRecords /\ Quiet(execs[x], ForceAll(S, d)[x])
  <2>1. ForceAll(S, d)[x] = IF x \notin S THEN execs[x]
                            ELSE IF x = Sandbox /\ kind.fake THEN ForceExitSandbox(execs[x])
                            ELSE ForceExit(execs[x], x \in d)
    BY Zenon DEF ForceAll
  <2>2. execs[x] \in ExecRecords /\ SoundExec(execs[x])
    BY ExecFacts, Zenon
  <2>3. CASE x \notin S
    BY <2>1, <2>2, <2>3, QuietSame, Zenon
  <2>4. CASE x \in S /\ x = Sandbox /\ kind.fake
    <3>1. execs[x].waiter = "None"
      BY <2>4, Zenon DEF TasksInv, ExecInv
    <3> QED  BY <2>1, <2>2, <2>4, <3>1, SandboxQuiet, Zenon
  <2>5. CASE x \in S /\ ~(x = Sandbox /\ kind.fake)
    BY <2>1, <2>2, <2>5, KillQuiet, Zenon
  <2> QED  BY <2>3, <2>4, <2>5, Zenon
<1>2. ForceAll(S, d) = [x \in Ids |-> ForceAll(S, d)[x]]
  BY Zenon DEF ForceAll
<1> QED  BY <1>1, <1>2, Zenon

LEMMA EndedQuiet ==
    ASSUME TasksInv, NEW t \in Tasks
    PROVE  /\ Ended(t) \in [Ids -> ExecRecords]
           /\ \A x \in Ids : Quiet(execs[x], Ended(t)[x])
<1>1. ASSUME NEW x \in Ids
      PROVE  Ended(t)[x] \in ExecRecords /\ Quiet(execs[x], Ended(t)[x])
  <2>1. Ended(t)[x] = IF TaskOf(x) = t THEN SignalProcess(execs[x], TRUE) ELSE execs[x]
    BY Zenon DEF Ended
  <2> QED  BY <2>1, ExecFacts, SignalQuiet, QuietSame, Zenon
<1>2. Ended(t) = [x \in Ids |-> Ended(t)[x]]
  BY Zenon DEF Ended
<1> QED  BY <1>1, <1>2, Zenon

LEMMA CreateExecStep ==
    ASSUME TasksInv, NEW x \in Execs, CreateExec(x)
    PROVE  TasksInv'
<1>1. x \in Ids /\ x \notin Tasks /\ Persist /\ listed' \subseteq Execs /\ exits' \in [Ids -> Nat]
  BY RunhcsAssumption, Zenon DEF Ids, CreateExec, Persist, HostGone, TasksInv, TasksTypeOK
<1>2. SoundExec(newHcsExec)
  BY NewExecs, Zenon DEF SoundExec
<1>3. execs[x].waiter = "None"
  BY <1>1, ExecFacts, Idle, Zenon DEF CreateExec
<1>4. exits'[x] = 0 /\ \A y \in Execs \ {x} : exits'[y] = exits[y]
  BY <1>3, Zenon DEF CreateExec, TasksInv, ExecInv
<1>5. execs' \in [Ids -> ExecRecords] /\ ExecInv'
      /\ execs'[x] = newHcsExec /\ \A y \in Ids \ {x} : execs'[y] = execs[y]
  BY <1>1, <1>2, <1>4, NewExecs, ExecChanges, Zenon DEF CreateExec
<1>6. \A t \in Tasks : exits'[t] = exits[t] /\ Later(execs[t], execs'[t])
  BY <1>1, <1>5, Zenon DEF CreateExec, Later, Ids
<1> QED  BY <1>1, <1>5, <1>6, TasksSame, Zenon DEF CreateExec

LEMMA StartSandboxStep ==
    ASSUME TasksInv, NEW t \in Tasks, StartSandbox(t)
    PROVE  TasksInv'
<1> DEFINE f == [execs[t] EXCEPT !.state = "Running"]
<1>1. t \in Ids /\ listed' \subseteq Execs
  BY Zenon DEF Ids, StartSandbox, TasksInv, TasksTypeOK
<1>2. /\ f \in ExecRecords /\ f.state = "Running" /\ f.exited = execs[t].exited
      /\ f.waiter = execs[t].waiter /\ f.proc = execs[t].proc /\ f.status = execs[t].status
  BY <1>1, ExecFacts, Zenon DEF ExecRecords
<1>3. SetExec(t, f) /\ execs[t].state = "Created"
  BY Zenon DEF StartSandbox
<1> HIDE DEF f
<1>4. Quiet(execs[t], f)
  <2>1. SoundExec(execs[t]) /\ execs[t].waiter = "None"
    BY <1>1, ExecFacts, Zenon DEF StartSandbox, IsFake, TasksInv, ExecInv
  <2> QED  BY <1>2, <1>3, <2>1, Zenon DEF Quiet, Later, SoundExec
<1> QED  BY <1>1, <1>2, <1>3, <1>4, OneQuietStep, Zenon DEF StartSandbox

\* An exec is started: its process is waited for from now on.
LEMMA StartedChanges ==
    ASSUME TasksInv, UNCHANGED <<kind, host, exits>>, NEW x \in Ids,
           execs[x].state = "Created", ~(kind.fake /\ x = Sandbox), SetExec(x, Started(execs[x]))
    PROVE  /\ execs' \in [Ids -> ExecRecords] /\ ExecInv'
           /\ \A y \in Ids : Later(execs[y], execs'[y])
<1>1. Persist
  BY Zenon DEF Persist, HostGone
<1>2. execs[x] \in ExecRecords /\ SoundExec(execs[x])
  BY ExecFacts, Zenon
<1>3. /\ Started(execs[x]) \in ExecRecords /\ Started(execs[x]).state = "Running"
      /\ Started(execs[x]).waiter = "Wait" /\ Started(execs[x]).exited = FALSE
      /\ Started(execs[x]).status = "unset" /\ execs[x].exited = FALSE
  BY <1>2, StartedExec, Zenon
<1>4. SoundExec(Started(execs[x]))
  BY <1>3, Zenon DEF SoundExec
<1>5. x \in Execs => exits'[x] = 0
  BY <1>2, Zenon DEF TasksInv, ExecInv, SoundExec
<1>6. execs' \in [Ids -> ExecRecords] /\ ExecInv'
      /\ execs'[x] = Started(execs[x]) /\ \A y \in Ids \ {x} : execs'[y] = execs[y]
  BY <1>1, <1>3, <1>4, <1>5, ExecChanges, Zenon
<1>7. \A y \in Ids : Later(execs[y], execs'[y])
  BY <1>3, <1>6, Zenon DEF Later
<1> QED  BY <1>6, <1>7, Zenon

LEMMA StartExecStep ==
    ASSUME TasksInv, NEW x \in Execs, StartExec(x)
    PROVE  TasksInv'
<1>1. /\ x \in Ids /\ x # Sandbox /\ execs[x].state = "Created"
      /\ UNCHANGED <<kind, host, tasks, exits>> /\ listed' \subseteq Execs /\
           exits' \in [Ids -> Nat]
  BY RunhcsAssumption, Zenon DEF Ids, Tasks, StartExec, TasksInv, TasksTypeOK
<1>2. execs[x] \in ExecRecords /\ SoundExec(execs[x]) /\ execs[x].waiter = "None"
  BY <1>1, ExecFacts, Idle, Zenon
<1>3. CASE SetExec(x, ExitFromCreatedL(execs[x]))
  BY <1>1, <1>2, <1>3, ExitQuiet, OneQuietStep, Zenon
<1>4. CASE SetExec(x, StartedUnpublished(execs[x]))
  BY <1>1, <1>2, <1>4, StartedExec, OneQuietStep, Zenon
<1>5. CASE SetExec(x, Started(execs[x]))
  <2>1. /\ execs' \in [Ids -> ExecRecords] /\ ExecInv'
        /\ \A y \in Ids : Later(execs[y], execs'[y])
    BY <1>1, <1>5, StartedChanges, Zenon
  <2>2. \A t \in Tasks : exits'[t] = exits[t] /\ Later(execs[t], execs'[t])
    BY <1>1, <2>1, Zenon DEF Ids
  <2> QED  BY <1>1, <2>1, <2>2, TasksSame, Zenon
<1> QED  BY <1>3, <1>4, <1>5, Zenon DEF StartExec

LEMMA DeleteTaskStep ==
    ASSUME TasksInv, NEW t \in Tasks, DeleteTask(t)
    PROVE  TasksInv'
<1> DEFINE forced == ExecsOf(t) \cup (IF execs[t].state = "Created" THEN {t} ELSE {})
<1>1. PICK d : execs' = ForceAll(forced, d)
  BY Zenon DEF DeleteTask
<1>2. ~(Sandbox \in forced /\ kind.fake)
  BY RunhcsAssumption, Zenon DEF DeleteTask, ExecsOf, IsFake, TasksInv, TasksTypeOK, Tasks
<1> HIDE DEF forced
<1>3. execs' \in [Ids -> ExecRecords] /\ \A x \in Ids : Quiet(execs[x], execs'[x])
  BY <1>1, <1>2, ForceAllQuiet, Zenon
<1> QED  BY <1>3, QuietStep, Zenon DEF DeleteTask, TasksInv, TasksTypeOK

LEMMA DeleteSandboxStep ==
    ASSUME TasksInv, NEW t \in Tasks, DeleteSandbox(t)
    PROVE  TasksInv'
<1>1. t \in Ids /\ listed' \subseteq Execs /\ execs[t].waiter = "None" /\ execs[t].state # "None"
  BY Zenon DEF Ids, DeleteSandbox, IsFake, TasksInv, TasksTypeOK, ExecInv
<1> QED  BY <1>1, ExecFacts, SandboxQuiet, OneQuietStep, Zenon DEF DeleteSandbox

LEMMA DeleteExecStep ==
    ASSUME TasksInv, NEW x \in Execs, DeleteExec(x)
    PROVE  TasksInv'
<1>1. x \in Ids /\ listed' \subseteq Execs
  BY Zenon DEF Ids, DeleteExec, TasksInv, TasksTypeOK
<1> QED  BY <1>1, ExecFacts, KillQuiet, OneQuietStep, Zenon DEF DeleteExec

LEMMA ReapStep ==
    ASSUME TasksInv, NEW x \in Ids, Reap(x)
    PROVE  TasksInv'
<1>0. PICK st \in {"own", "lost"} :
        SetExec(x, Reaped(execs[x], st)) /\ (st = "own" => execs[x].proc = "Dead")
  BY Zenon DEF Reap
<1> DEFINE f == Reaped(execs[x], st)
<1>1. /\ Persist /\ listed' \subseteq Execs /\ exits' \in [Ids -> Nat] /\ SetExec(x, f)
      /\ execs[x].waiter = "Wait"
  BY <1>0, Zenon DEF Reap, Persist, HostGone, TasksInv, TasksTypeOK
<1>2. execs[x] \in ExecRecords /\ SoundExec(execs[x])
  BY ExecFacts, Zenon
<1>3. f \in ExecRecords /\ f.state = "Exited" /\ f.waiter = "Copy" /\ f.exited = execs[x].exited
      /\ f.proc = execs[x].proc /\ f.status = st
  <2>1. \A v \in {"own", "lost"} :
          /\ Reaped(execs[x], v) \in ExecRecords /\ Reaped(execs[x], v).state = "Exited"
          /\ Reaped(execs[x], v).waiter = "Copy" /\ Reaped(execs[x], v).status = v
          /\ Reaped(execs[x], v).exited = execs[x].exited
          /\ Reaped(execs[x], v).proc = execs[x].proc
    BY <1>2, ReapedExec, Zenon
  <2>2. st \in {"own", "lost"}
    OBVIOUS
  <2> QED  BY <2>1, <2>2, Zenon
<1> HIDE DEF f
<1>4. SoundExec(f) /\ Later(execs[x], f)
  BY <1>0, <1>1, <1>2, <1>3, Zenon DEF SoundExec, Later
<1>5. ~(kind.fake /\ x = Sandbox) /\ (x \in Execs => exits'[x] = 0)
      /\ \A y \in Execs \ {x} : exits'[y] = exits[y]
  BY <1>1, Zenon DEF TasksInv, ExecInv, Reap
<1>6. execs' \in [Ids -> ExecRecords] /\ ExecInv'
      /\ execs'[x] = f /\ \A y \in Ids \ {x} : execs'[y] = execs[y]
  BY <1>1, <1>3, <1>4, <1>5, ExecChanges, Zenon
<1>7. \A t \in Tasks : exits'[t] = exits[t] /\ Later(execs[t], execs'[t])
  BY <1>4, <1>6, Zenon DEF Reap, Later, Ids
<1> QED  BY <1>1, <1>6, <1>7, TasksSame, Zenon DEF Reap

LEMMA FreeStep ==
    ASSUME TasksInv, NEW x \in Ids, Free(x)
    PROVE  TasksInv'
<1> DEFINE f == Freed(execs[x])
<1>1. /\ Persist /\ listed' \subseteq Execs /\ SetExec(x, f) /\ execs[x].waiter = "Copy"
  BY Zenon DEF Free, Persist, HostGone, TasksInv, TasksTypeOK
<1>2. execs[x] \in ExecRecords /\ SoundExec(execs[x])
  BY <1>1, ExecFacts, Zenon
<1>3. f \in ExecRecords /\ f.state = execs[x].state /\ f.waiter = "End" /\ f.exited
      /\ f.proc = execs[x].proc /\ f.status = execs[x].status
  BY <1>2, ReapedExec, Zenon
<1> HIDE DEF f
<1>4. SoundExec(f) /\ Later(execs[x], f)
  BY <1>1, <1>2, <1>3, Zenon DEF SoundExec, Later
<1>5. exits' \in [Ids -> Nat] /\ (\A y \in Ids \ {x} : exits'[y] = exits[y])
      /\ (x \in Tasks => exits'[x] = exits[x]) /\ (x \notin Tasks => exits'[x] = exits[x] + 1)
  BY DEF Free, TasksInv, TasksTypeOK
<1>6. ~(kind.fake /\ x = Sandbox) /\ (x \in Execs => exits'[x] = 1)
      /\ \A y \in Execs \ {x} : exits'[y] = exits[y]
  BY <1>1, <1>5, RunhcsAssumption DEF TasksInv, ExecInv, Ids
<1>8. execs' \in [Ids -> ExecRecords] /\ ExecInv'
      /\ execs'[x] = f /\ \A y \in Ids \ {x} : execs'[y] = execs[y]
  BY <1>1, <1>3, <1>4, <1>6, ExecChanges, Zenon
<1>9. \A t \in Tasks : exits'[t] = exits[t] /\ Later(execs[t], execs'[t])
  BY <1>4, <1>5, <1>8, Zenon DEF Later, Ids
<1> QED  BY <1>1, <1>5, <1>8, <1>9, TasksSame, Zenon DEF Free

LEMMA WaitForContainerExitStep ==
    ASSUME TasksInv, NEW x \in Ids, WaitForContainerExit(x)
    PROVE  TasksInv'
<1>1. PICK d : SetExec(x, ContainerGone(execs[x], d # {}))
  BY Zenon DEF WaitForContainerExit
<1>2. listed' \subseteq Execs
  BY Zenon DEF WaitForContainerExit, TasksInv, TasksTypeOK
<1>3. /\ ContainerGone(execs[x], d # {}) \in ExecRecords
      /\ Quiet(execs[x], ContainerGone(execs[x], d # {}))
  BY ExecFacts, GoneQuiet, Zenon DEF WaitForContainerExit
<1> QED  BY <1>1, <1>2, <1>3, OneQuietStep, Zenon DEF WaitForContainerExit

LEMMA ProcessEndsStep ==
    ASSUME TasksInv, NEW x \in Ids, ProcessEnds(x)
    PROVE  TasksInv'
<1>1. listed' \subseteq Execs
  BY Zenon DEF ProcessEnds, TasksInv, TasksTypeOK
<1> QED  BY <1>1, ExecFacts, SignalQuiet, OneQuietStep, Zenon DEF ProcessEnds

-----------------------------------------------------------------------------
(* The steps of the tasks.                                                  *)

\* A task changes in what closing it does not depend on.
LEMMA TaskDetail ==
    ASSUME TasksInv, NEW t \in Tasks, NEW r \in TaskRecords, SetTask(t, r),
           UNCHANGED <<kind, host, exits>>, listed' \subseteq Execs,
           execs' \in [Ids -> ExecRecords], ExecInv',
           \A u \in Tasks : Later(execs[u], execs'[u]),
           tasks[t].phase # "None", r.phase # "None",
           r.closeHost = tasks[t].closeHost, r.closer = tasks[t].closer,
           r.hostWaiter = tasks[t].hostWaiter, r.closed = tasks[t].closed,
           r.resources = tasks[t].resources /\ r.told = tasks[t].told
    PROVE  TasksInv'
<1>1. ASSUME tasks'[t] = r PROVE SoundTask(t)'
  BY <1>1, TaskFacts DEF SoundTask, IsFake, Later, HostGone
<1> QED  BY <1>1, TaskMoves, Zenon

LEMMA StartInitStep ==
    ASSUME TasksInv, NEW t \in Tasks, StartInit(t)
    PROVE  TasksInv'
<1> DEFINE undone == [tasks[t] EXCEPT !.container = "Exited", !.handle = FALSE]
           runs == [tasks[t] EXCEPT !.container = "Running"]
           e == SignalProcess(StartedUnpublished(execs[t]), TRUE)
<1>1. /\ t \in Ids /\ ~(kind.fake /\ t = Sandbox) /\ execs[t].state = "Created"
      /\ UNCHANGED <<kind, host, exits>> /\ listed' \subseteq Execs /\ exits' \in [Ids -> Nat]
      /\ tasks[t] \in TaskRecords /\ tasks[t].phase # "None"
  BY TaskFacts, Zenon DEF StartInit, IsFake, Reachable, TasksInv, TasksTypeOK
<1>2. execs[t] \in ExecRecords /\ SoundExec(execs[t]) /\ execs[t].waiter = "None"
  BY <1>1, ExecFacts, Idle, Zenon
<1>3. \A r \in {undone, runs} :
        /\ r \in TaskRecords /\ r.phase = tasks[t].phase
        /\ r.closeHost = tasks[t].closeHost /\ r.closer = tasks[t].closer
        /\ r.hostWaiter = tasks[t].hostWaiter /\ r.closed = tasks[t].closed
        /\ r.resources = tasks[t].resources /\ r.told = tasks[t].told
  BY <1>1, TaskValues, ZenonT(40) DEF TaskRecords
<1>4. ExitFromCreatedL(execs[t]) \in ExecRecords /\ Quiet(execs[t], ExitFromCreatedL(execs[t]))
  BY <1>1, <1>2, ExitQuiet, Zenon
<1>5. e \in ExecRecords /\ Quiet(execs[t], e)
  <2> DEFINE s == StartedUnpublished(execs[t])
  <2>1. s \in ExecRecords /\ Quiet(execs[t], s)
    BY <1>1, <1>2, StartedExec, Zenon
  <2>2. SoundExec(s)
    BY <1>2, <2>1, QuietSound, Zenon
  <2> HIDE DEF s
  <2>3. e \in ExecRecords /\ Quiet(s, e)
    BY <2>1, <2>2, SignalQuiet, Zenon DEF s
  <2> HIDE DEF e
  <2> QED  BY <1>1, <1>2, <2>1, <2>3, Zenon DEF Quiet, Later
<1> HIDE DEF e
<1>6. Persist
  BY <1>1, Zenon DEF Persist, HostGone
<1>7. ASSUME NEW f \in ExecRecords, SetExec(t, f), Quiet(execs[t], f)
      PROVE  /\ execs' \in [Ids -> ExecRecords] /\ ExecInv'
             /\ \A u \in Tasks : Later(execs[u], execs'[u])
  <2>1. execs' \in [Ids -> ExecRecords] /\ ExecInv' /\ \A u \in Ids : Later(execs[u], execs'[u])
    BY <1>1, <1>6, <1>7, OneQuiet, Zenon
  <2> QED  BY <2>1, Zenon DEF Ids
<1>8. CASE SetExec(t, ExitFromCreatedL(execs[t])) /\ UNCHANGED tasks
  BY <1>1, <1>4, <1>7, <1>8, TasksSame, Zenon
<1>9. ASSUME NEW f \in {ExitFromCreatedL(execs[t]), e}, SetExec(t, f), SetTask(t, undone)
      PROVE  TasksInv'
  <2>1. f \in ExecRecords /\ Quiet(execs[t], f)
    BY <1>4, <1>5, <1>9, Zenon
  <2>2. /\ execs' \in [Ids -> ExecRecords] /\ ExecInv'
        /\ \A u \in Tasks : Later(execs[u], execs'[u])
    BY <1>7, <1>9, <2>1, Zenon
  <2> HIDE DEF undone, runs
  <2> QED  BY <1>1, <1>3, <1>9, <2>2, TaskDetail, Zenon
<1>10. CASE SetExec(t, Started(execs[t])) /\ SetTask(t, runs)
  <2>1. /\ execs' \in [Ids -> ExecRecords] /\ ExecInv'
        /\ \A u \in Ids : Later(execs[u], execs'[u])
    BY <1>1, <1>10, StartedChanges, Zenon
  <2>2. \A u \in Tasks : Later(execs[u], execs'[u])
    BY <2>1, Zenon DEF Ids
  <2> HIDE DEF undone, runs
  <2> QED  BY <1>1, <1>3, <1>10, <2>1, <2>2, TaskDetail, Zenon
<1> QED  BY <1>8, <1>9, <1>10, Zenon DEF StartInit, e

LEMMA ContainerExitsStep ==
    ASSUME TasksInv, NEW t \in Tasks, ContainerExits(t)
    PROVE  TasksInv'
<1> DEFINE r == [tasks[t] EXCEPT !.container = "Exited"]
<1>1. /\ tasks[t] \in TaskRecords /\ tasks[t].phase # "None" /\ SetTask(t, r)
      /\ UNCHANGED <<kind, host, exits>> /\ listed' \subseteq Execs
  BY TaskFacts DEF ContainerExits, SoundTask, NoTask, TasksInv, TasksTypeOK
<1>2. /\ r \in TaskRecords /\ r.phase = tasks[t].phase
      /\ r.closeHost = tasks[t].closeHost /\ r.closer = tasks[t].closer
      /\ r.hostWaiter = tasks[t].hostWaiter /\ r.closed = tasks[t].closed
      /\ r.resources = tasks[t].resources /\ r.told = tasks[t].told
  BY <1>1, TaskValues, Zenon DEF TaskRecords
<1> HIDE DEF r
<1>3. execs' \in [Ids -> ExecRecords] /\ \A x \in Ids : Quiet(execs[x], execs'[x])
  BY EndedQuiet, Zenon DEF ContainerExits
<1>4. ExecInv' /\ \A u \in Tasks : Later(execs[u], execs'[u])
  BY <1>1, <1>3, ExecsQuiet, Zenon DEF Persist, HostGone, Quiet, Ids
<1> QED  BY <1>1, <1>2, <1>3, <1>4, TaskDetail, ZenonT(40)

\* A signal to some execs; a SIGKILL may arm the timers of their tasks.
LEMMA KillTaskStep ==
    ASSUME TasksInv, NEW x \in Ids, NEW all \in BOOLEAN, NEW sigkill \in BOOLEAN,
           KillTask(x, all, sigkill)
    PROVE  TasksInv'
<1>1. UNCHANGED <<kind, host, listed, exits>>
  BY Zenon DEF KillTask
<1>2. execs' \in [Ids -> ExecRecords] /\ \A y \in Ids : Quiet(execs[y], execs'[y])
  BY KillAllQuiet, Zenon DEF KillTask
<1>3. Persist
  BY <1>1, Zenon DEF Persist, HostGone
<1>4. ExecInv' /\ \A u \in Tasks : Later(execs[u], execs'[u])
  BY <1>1, <1>2, <1>3, ExecsQuiet, Zenon DEF Quiet, Ids
<1>5. \A y \in Targets(x, all) \cap Tasks : Reachable(y)
  BY Zenon DEF KillTask, Targets, Findable, TaskOf
<1>6. ASSUME NEW t \in Tasks
      PROVE  /\ tasks'[t] \in TaskRecords /\ tasks'[t].phase = tasks[t].phase
             /\ tasks'[t].closer = tasks[t].closer /\ SoundTask(t)'
  <2> DEFINE r == [tasks[t] EXCEPT !.timer = TRUE]
  <2>1. tasks'[t] = tasks[t] \/ (tasks'[t] = r /\ tasks[t].phase = "Listed")
    BY <1>5, Zenon DEF KillTask, Reachable
  <2>2. /\ r \in TaskRecords /\ r.phase = tasks[t].phase
        /\ r.closeHost = tasks[t].closeHost /\ r.closer = tasks[t].closer
        /\ r.hostWaiter = tasks[t].hostWaiter /\ r.closed = tasks[t].closed
        /\ r.resources = tasks[t].resources /\ r.told = tasks[t].told
    BY TaskFacts, TaskValues, ZenonT(40) DEF TaskRecords
  <2> HIDE DEF r
  <2>3. CASE tasks'[t] = tasks[t]
    BY <1>1, <1>3, <1>4, <2>3, TaskFacts, TaskSame, Zenon
  <2>4. CASE tasks'[t] = r /\ tasks[t].phase = "Listed"
    BY <1>1, <1>4, <2>2, <2>4, TaskFacts DEF SoundTask, IsFake, Later, HostGone
  <2> QED  BY <2>1, <2>3, <2>4, TaskFacts, Zenon
<1>7. tasks' \in [Tasks -> TaskRecords]
  <2>1. tasks' = [t \in Tasks |-> tasks'[t]]
    BY Zenon DEF KillTask
  <2> QED  BY <1>6, <2>1, Zenon
<1>8. TasksTypeOK' /\ SoundHost'
  BY <1>1, <1>2, <1>6, <1>7, Zenon DEF TasksInv, TasksTypeOK, SoundHost, Tasks
<1> QED  BY <1>4, <1>6, <1>8, Zenon DEF TasksInv

LEMMA DeletedStep ==
    ASSUME TasksInv, NEW t \in Tasks, Deleted(t)
    PROVE  TasksInv'
<1> DEFINE r == Removed(t)
<1>1. /\ tasks[t] \in TaskRecords /\ tasks[t].phase # "None"
      /\ UNCHANGED <<kind, host, execs, exits>> /\ listed' \subseteq Execs
  BY TaskFacts, Zenon DEF Deleted, Reachable, TasksInv, TasksTypeOK
<1>2. /\ execs' \in [Ids -> ExecRecords] /\ ExecInv'
      /\ \A u \in Tasks : Later(execs[u], execs'[u])
  BY <1>1, ExecsSame, Zenon
<1>3. /\ r \in TaskRecords /\ r.phase # "None"
      /\ r.closeHost = tasks[t].closeHost /\ r.closer = tasks[t].closer
      /\ r.hostWaiter = tasks[t].hostWaiter /\ r.closed = tasks[t].closed
      /\ r.resources = tasks[t].resources /\ r.told = tasks[t].told
  BY TaskValues, <1>1, SMTT(30) DEF TaskRecords, Removed
<1> HIDE DEF r
<1>4. CASE SetTask(t, r)
  BY <1>1, <1>2, <1>3, <1>4, TaskDetail, Zenon
<1>5. CASE UNCHANGED tasks
  BY <1>1, <1>2, <1>5, TasksSame, Zenon DEF TasksInv, TasksTypeOK
<1> QED  BY <1>4, <1>5, Zenon DEF Deleted, r

LEMMA WaitInitExitStep ==
    ASSUME TasksInv, NEW t \in Tasks, WaitInitExit(t)
    PROVE  TasksInv'
<1> DEFINE r == [tasks[t] EXCEPT !.closer = IF IsFake(t) THEN "Host" ELSE "Shutdown"]
<1>1. /\ tasks[t] \in TaskRecords /\ tasks[t].phase # "None" /\ SetTask(t, r)
      /\ UNCHANGED <<kind, host, execs, exits>> /\ listed' \subseteq Execs
      /\ tasks[t].closer = "Wait" /\ execs[t].exited
  BY TaskFacts DEF WaitInitExit, SoundTask, NoTask, TasksInv, TasksTypeOK
<1>2. /\ execs' \in [Ids -> ExecRecords] /\ ExecInv'
      /\ \A u \in Tasks : Later(execs[u], execs'[u])
  BY <1>1, ExecsSame, Zenon
<1>3. /\ r \in TaskRecords /\ r.phase = tasks[t].phase /\ r.closeHost = tasks[t].closeHost
      /\ r.closer = (IF IsFake(t) THEN "Host" ELSE "Shutdown")
      /\ r.hostWaiter = tasks[t].hostWaiter /\ r.closed = tasks[t].closed
      /\ r.resources = tasks[t].resources /\ r.told = tasks[t].told
  BY <1>1, TaskValues, Zenon DEF TaskRecords
<1> HIDE DEF r
<1>4. ASSUME tasks'[t] = r PROVE SoundTask(t)'
  BY <1>1, <1>3, <1>4, TaskFacts, SMTT(30) DEF SoundTask, IsFake, HostGone
<1> QED  BY <1>1, <1>2, <1>3, <1>4, TaskMoves, Zenon

\* The closer moves on, before it has released the container.
LEMMA CloserMoves ==
    ASSUME TasksInv, NEW t \in Tasks, NEW r \in TaskRecords, SetTask(t, r),
           UNCHANGED <<kind, host, exits>>, listed' \subseteq Execs,
           execs' \in [Ids -> ExecRecords], ExecInv',
           \A u \in Tasks : Later(execs[u], execs'[u]),
           tasks[t].closer \in {"Shutdown", "Terminate"}, r.closer \in {"Terminate", "Release"},
           r.phase = tasks[t].phase, r.closeHost = tasks[t].closeHost,
           r.hostWaiter = tasks[t].hostWaiter, r.closed = tasks[t].closed,
           r.resources = tasks[t].resources /\ r.told = tasks[t].told
    PROVE  TasksInv'
<1>1. tasks[t].phase # "None"
  BY TaskFacts, SMTT(30) DEF SoundTask, NoTask
<1>2. ASSUME tasks'[t] = r PROVE SoundTask(t)'
  BY <1>1, <1>2, TaskFacts DEF SoundTask, IsFake, HostGone, Later
<1> QED  BY <1>2, TaskMoves, Zenon

LEMMA ShutdownStep ==
    ASSUME TasksInv, NEW t \in Tasks, Shutdown(t) \/ Terminate(t)
    PROVE  TasksInv'
<1> DEFINE r(c) == [tasks[t] EXCEPT !.closer = c]
           ended == [tasks[t] EXCEPT !.closer = "Release", !.container = "Exited"]
<1>1. /\ tasks[t] \in TaskRecords /\ tasks[t].closer \in {"Shutdown", "Terminate"}
      /\ UNCHANGED <<kind, host, exits>> /\ listed' \subseteq Execs
  BY TaskFacts, Zenon DEF Shutdown, Terminate, TasksInv, TasksTypeOK
<1>2. \A c \in {"Terminate", "Release"} :
         /\ r(c) \in TaskRecords /\ r(c).closer = c
         /\ r(c).phase = tasks[t].phase /\ r(c).closeHost = tasks[t].closeHost
         /\ r(c).hostWaiter = tasks[t].hostWaiter /\ r(c).closed = tasks[t].closed
         /\ r(c).resources = tasks[t].resources /\ r(c).told = tasks[t].told
  BY <1>1, TaskValues, Zenon DEF TaskRecords
<1>3. /\ ended \in TaskRecords /\ ended.closer = "Release"
      /\ ended.phase = tasks[t].phase /\ ended.closeHost = tasks[t].closeHost
      /\ ended.hostWaiter = tasks[t].hostWaiter /\ ended.closed = tasks[t].closed
      /\ ended.resources = tasks[t].resources /\ ended.told = tasks[t].told
  BY <1>1, TaskValues, Zenon DEF TaskRecords
<1>4. \/ execs' = Ended(t) /\ SetTask(t, ended)
      \/ UNCHANGED execs /\ \E c \in {"Terminate", "Release"} : SetTask(t, r(c))
  BY Zenon DEF Shutdown, Terminate
<1> HIDE DEF r, ended
<1>5. CASE execs' = Ended(t) /\ SetTask(t, ended)
  <2>1. execs' \in [Ids -> ExecRecords] /\ \A x \in Ids : Quiet(execs[x], execs'[x])
    BY <1>5, EndedQuiet, Zenon
  <2>2. ExecInv' /\ \A u \in Tasks : Later(execs[u], execs'[u])
    BY <1>1, <2>1, ExecsQuiet, Zenon DEF Persist, HostGone, Quiet, Ids
  <2> QED  BY <1>1, <1>3, <1>5, <2>1, <2>2, CloserMoves, Zenon
<1>6. CASE UNCHANGED execs /\ \E c \in {"Terminate", "Release"} : SetTask(t, r(c))
  <2>1. /\ execs' \in [Ids -> ExecRecords] /\ ExecInv'
        /\ \A u \in Tasks : Later(execs[u], execs'[u])
    BY <1>1, <1>6, ExecsSame, Zenon
  <2> QED  BY <1>1, <1>2, <1>6, <2>1, CloserMoves, Zenon
<1> QED  BY <1>4, <1>5, <1>6, Zenon

LEMMA ReleaseStep ==
    ASSUME TasksInv, NEW t \in Tasks, Release(t)
    PROVE  TasksInv'
<1>0. PICK left \in {"Released", "Kept"} :
        SetTask(t, [tasks[t] EXCEPT !.closer = "Host", !.resources = left, !.handle = FALSE])
  BY Zenon DEF Release
<1> DEFINE r == [tasks[t] EXCEPT !.closer = "Host", !.resources = left, !.handle = FALSE]
<1>1. /\ tasks[t] \in TaskRecords /\ tasks[t].phase # "None" /\ SetTask(t, r)
      /\ UNCHANGED <<kind, host, execs, exits>> /\ listed' \subseteq Execs
      /\ tasks[t].closer = "Release"
  BY <1>0, TaskFacts DEF Release, SoundTask, NoTask, TasksInv, TasksTypeOK
<1>2. /\ execs' \in [Ids -> ExecRecords] /\ ExecInv'
      /\ \A u \in Tasks : Later(execs[u], execs'[u])
  BY <1>1, ExecsSame, Zenon
<1>3. /\ r \in TaskRecords /\ r.phase = tasks[t].phase /\ r.closeHost = tasks[t].closeHost
      /\ r.closer = "Host" /\ r.resources = left /\ r.told = tasks[t].told
      /\ r.hostWaiter = tasks[t].hostWaiter /\ r.closed = tasks[t].closed
  BY <1>1, TaskValues, ZenonT(40) DEF TaskRecords
<1> HIDE DEF r
<1>4. ASSUME tasks'[t] = r PROVE SoundTask(t)'
  BY <1>1, <1>3, <1>4, TaskFacts DEF SoundTask, IsFake, HostGone
<1> QED  BY <1>1, <1>2, <1>3, <1>4, TaskMoves, Zenon

LEMMA WaitForHostExitStep ==
    ASSUME TasksInv, NEW t \in Tasks, WaitForHostExit(t)
    PROVE  TasksInv'
<1> DEFINE r == [tasks[t] EXCEPT !.hostWaiter = "Host"]
           S == ExecsOf(t) \cup {t}
<1>1. /\ tasks[t] \in TaskRecords /\ tasks[t].phase # "None" /\ SetTask(t, r)
      /\ UNCHANGED <<kind, host, exits>> /\ listed' \subseteq Execs
      /\ tasks[t].hostWaiter = "Wait" /\ HostGone /\ execs' = ForceAll(S, {})
  BY TaskFacts DEF WaitForHostExit, HostWaitOver, HostGone, SoundTask, NoTask, TasksInv, TasksTypeOK
<1>2. Sandbox \in S => Sandbox = t
  BY RunhcsAssumption, Zenon DEF ExecsOf, TasksInv, TasksTypeOK, Tasks
<1> HIDE DEF S
<1>3. Sandbox \in S => execs[Sandbox].state # "None"
  BY <1>1, <1>2, TaskFacts, Zenon DEF SoundTask
<1>4. execs' \in [Ids -> ExecRecords] /\ \A x \in Ids : Quiet(execs[x], execs'[x])
  BY <1>1, <1>3, ForceAllQuiet, Zenon
<1>5. ExecInv' /\ \A u \in Tasks : Later(execs[u], execs'[u])
  BY <1>1, <1>4, ExecsQuiet, Zenon DEF Persist, HostGone, Quiet, Ids
<1>6. /\ r \in TaskRecords /\ r.phase = tasks[t].phase /\ r.closeHost = tasks[t].closeHost
      /\ r.closer = tasks[t].closer /\ r.resources = tasks[t].resources /\ r.told = tasks[t].told
      /\ r.hostWaiter = "Host" /\ r.closed = tasks[t].closed
  BY <1>1, TaskValues, Zenon DEF TaskRecords
<1> HIDE DEF r
<1>7. ASSUME tasks'[t] = r PROVE SoundTask(t)'
  BY <1>1, <1>5, <1>6, <1>7, TaskFacts, SMTT(30) DEF SoundTask, IsFake, HostGone, Later
<1> QED  BY <1>1, <1>4, <1>5, <1>6, <1>7, TaskMoves, Zenon

\* The first goroutine at closeHost publishes the exit of the task.
LEMMA FinishedStep ==
    ASSUME TasksInv, NEW t \in Tasks, NEW r \in TaskRecords, SetTask(t, r),
           UNCHANGED <<kind, host, execs, listed>>, exits' = [exits EXCEPT ![t] = @ + 1],
           tasks[t].closeHost # "Done", tasks[t].phase # "None",
           r.phase = tasks[t].phase, r.closeHost = "Done", r.closed = TRUE,
           r.resources = tasks[t].resources /\ r.told = execs[t].status,
           \/ /\ tasks[t].closer = "Host" /\ r.closer = "End"
              /\ r.hostWaiter = tasks[t].hostWaiter
           \/ /\ tasks[t].hostWaiter = "Host" /\ r.hostWaiter = "End"
              /\ r.closer = tasks[t].closer
    PROVE  TasksInv'
<1>1. Persist
  BY Zenon DEF Persist, HostGone
<1>2. SoundTask(t) /\ t \in Ids /\ t \notin Execs /\ tasks[t] \in TaskRecords /\ exits[t] = 0
  BY TaskFacts, Zenon DEF SoundTask
<1>3. exits' \in [Ids -> Nat] /\ exits'[t] = 1 /\ \A x \in Ids \ {t} : exits'[x] = exits[x]
  BY <1>2, SMTT(30) DEF TasksInv, TasksTypeOK
<1>4. \A x \in Ids : Quiet(execs[x], execs'[x])
  BY ExecFacts, QuietSame, Zenon
<1>5. \A x \in Execs : exits'[x] = exits[x]
  BY <1>2, <1>3, Zenon DEF Ids
<1>6. ExecInv' /\ execs' \in [Ids -> ExecRecords]
  BY <1>1, <1>4, <1>5, ExecsQuiet, Zenon DEF TasksInv, TasksTypeOK
<1>7. \A u \in Tasks \ {t} : exits'[u] = exits[u] /\ Later(execs[u], execs'[u])
  BY <1>3, <1>4, Zenon DEF Quiet, Ids
<1>8. ASSUME tasks'[t] = r PROVE SoundTask(t)'
  <2>1. \/ r.told = execs'[t].status /\ execs'[t].state = "Exited"
        \/ r.told = "unset" /\ HostGone'
    BY <1>2, ExecFacts, Zenon DEF SoundTask, SoundExec, HostGone
  <2> QED  BY <1>2, <1>3, <1>8, <2>1, Zenon DEF SoundTask, IsFake, HostGone
<1>9. ASSUME tasks'[t] = r, \A u \in Tasks \ {t} : tasks'[u] = tasks[u]
      PROVE  SoundHost'
  BY <1>9, Zenon DEF TasksInv, SoundHost, Tasks
<1>10. host' \in Hosts /\ listed' \subseteq Execs
  BY Zenon DEF TasksInv, TasksTypeOK
<1> QED  BY <1>1, <1>3, <1>6, <1>7, <1>8, <1>9, <1>10, TaskChanges, Zenon

LEMMA ToldTask ==
    ASSUME NEW r \in TaskRecords, NEW v \in Said
    PROVE  LET f == [r EXCEPT !.told = v] IN
           /\ f \in TaskRecords /\ f.told = v
           /\ f.phase = r.phase /\ f.closeHost = r.closeHost /\ f.closed = r.closed
           /\ f.resources = r.resources /\ f.closer = r.closer /\ f.hostWaiter = r.hostWaiter
BY TaskValues, ZenonT(40) DEF TaskRecords

LEMMA FinishedRecord ==
    ASSUME NEW t \in Tasks, tasks[t] \in TaskRecords, execs[t] \in ExecRecords
    PROVE  /\ \A who \in {"closer", "hostWaiter"} :
                /\ Finished(t, who) \in TaskRecords /\ Finished(t, who).phase = tasks[t].phase
                /\ Finished(t, who).closeHost = "Done" /\ Finished(t, who).closed = TRUE
                /\ Finished(t, who).resources = tasks[t].resources
                /\ Finished(t, who).told = execs[t].status
           /\ Finished(t, "closer").closer = "End"
           /\ Finished(t, "closer").hostWaiter = tasks[t].hostWaiter
           /\ Finished(t, "hostWaiter").hostWaiter = "End"
           /\ Finished(t, "hostWaiter").closer = tasks[t].closer
<1> DEFINE c == [tasks[t] EXCEPT !.closeHost = "Done", !["closer"] = "End", !.closed = TRUE]
           d == [tasks[t] EXCEPT !.closeHost = "Done", !["hostWaiter"] = "End", !.closed = TRUE]
           a == [c EXCEPT !.told = execs[t].status]
           b == [d EXCEPT !.told = execs[t].status]
<1>1. /\ a \in TaskRecords /\ a.phase = tasks[t].phase /\ a.closeHost = "Done" /\ a.closed = TRUE
      /\ a.resources = tasks[t].resources /\ a.told = execs[t].status
      /\ a.closer = "End" /\ a.hostWaiter = tasks[t].hostWaiter
  <2>1. /\ c \in TaskRecords /\ c.phase = tasks[t].phase /\ c.closeHost = "Done" /\ c.closed = TRUE
        /\ c.resources = tasks[t].resources /\ c.closer = "End"
        /\ c.hostWaiter = tasks[t].hostWaiter
    BY TaskValues, ZenonT(40) DEF TaskRecords
  <2> HIDE DEF c
  <2>2. execs[t].status \in Said
    BY Zenon DEF ExecRecords, Said
  <2> QED  BY <2>1, <2>2, ToldTask, Zenon
<1>2. /\ b \in TaskRecords /\ b.phase = tasks[t].phase /\ b.closeHost = "Done" /\ b.closed = TRUE
      /\ b.resources = tasks[t].resources /\ b.told = execs[t].status
      /\ b.hostWaiter = "End" /\ b.closer = tasks[t].closer
  <2>1. /\ d \in TaskRecords /\ d.phase = tasks[t].phase /\ d.closeHost = "Done" /\ d.closed = TRUE
        /\ d.resources = tasks[t].resources /\ d.hostWaiter = "End"
        /\ d.closer = tasks[t].closer
    BY TaskValues, ZenonT(40) DEF TaskRecords
  <2> HIDE DEF d
  <2>2. execs[t].status \in Said
    BY Zenon DEF ExecRecords, Said
  <2> QED  BY <2>1, <2>2, ToldTask, Zenon
<1>3. Finished(t, "closer") = a /\ Finished(t, "hostWaiter") = b
  BY Zenon DEF Finished
<1> HIDE DEF a, b
<1> QED  BY <1>1, <1>2, <1>3, Zenon

LEMMA PublishedStep ==
    ASSUME TasksInv, NEW t \in Tasks, Published(t)
    PROVE  TasksInv'
<1>1. tasks[t] \in TaskRecords /\ execs[t] \in ExecRecords /\ SoundTask(t)
  BY TaskFacts, Zenon
<1>2. PICK who \in {"closer", "hostWaiter"} :
        tasks[t].closeHost = who /\ SetTask(t, Finished(t, who))
  BY Zenon DEF Published
<1>3. tasks[t].phase # "None"
  BY <1>1, <1>2, SMTT(30) DEF SoundTask, NoTask
<1>4. CASE who = "closer"
  BY <1>1, <1>2, <1>3, <1>4, FinishedRecord, FinishedStep, Zenon DEF SoundTask, Published
<1>5. CASE who = "hostWaiter"
  BY <1>1, <1>2, <1>3, <1>5, FinishedRecord, FinishedStep, ZenonT(40) DEF SoundTask, Published
<1> QED  BY <1>4, <1>5, Zenon

\* The owner of the VM closes it.
LEMMA ClosingStep ==
    ASSUME TasksInv, NEW who \in {"closer", "hostWaiter"}, NEW r \in TaskRecords,
           SetTask(Sandbox, r), UNCHANGED <<kind, execs, listed, exits>>, kind.vm,
           host' = IF host = "Running" THEN "Closed" ELSE HostShut,
           tasks[Sandbox].closeHost = "Free", tasks[Sandbox].phase # "None",
           who = "closer" => tasks[Sandbox].closer = "Host",
           who = "hostWaiter" => tasks[Sandbox].hostWaiter = "Host",
           r.phase = tasks[Sandbox].phase, r.closeHost = who, r.closed = tasks[Sandbox].closed,
           r.resources = tasks[Sandbox].resources /\ r.told = tasks[Sandbox].told,
            r.closer = tasks[Sandbox].closer,
           r.hostWaiter = tasks[Sandbox].hostWaiter
    PROVE  TasksInv'
<1>1. Persist /\ Sandbox \in Tasks
  BY Zenon DEF Persist, HostGone, HostShut, Tasks
<1>2. SoundTask(Sandbox) /\ tasks[Sandbox] \in TaskRecords
  BY <1>1, TaskFacts, Zenon
<1>3. host = "Running" => who = "closer"
  BY <1>2, Zenon DEF SoundTask, HostGone
<1>4. \A x \in Ids : Quiet(execs[x], execs'[x])
  BY ExecFacts, QuietSame, Zenon
<1>5. ExecInv' /\ execs' \in [Ids -> ExecRecords]
  BY <1>1, <1>4, ExecsQuiet, Zenon DEF TasksInv, TasksTypeOK
<1>6. \A u \in Tasks \ {Sandbox} : exits'[u] = exits[u] /\ Later(execs[u], execs'[u])
  BY <1>4, Zenon DEF Quiet, Ids
<1>7. ASSUME tasks'[Sandbox] = r PROVE SoundTask(Sandbox)'
  BY <1>1, <1>2, <1>7, Zenon DEF SoundTask, IsFake, Persist
<1>8. ASSUME tasks'[Sandbox] = r PROVE SoundHost'
  BY <1>3, <1>8, Zenon DEF TasksInv, SoundHost, HostShut
<1>9. host' \in Hosts /\ listed' \subseteq Execs
      /\ exits' \in [Ids -> Nat]
  BY Zenon DEF TasksInv, TasksTypeOK, Hosts, HostShut
<1> QED  BY <1>1, <1>5, <1>6, <1>7, <1>8, <1>9, TaskChanges, Zenon

LEMMA CloseHostStep ==
    ASSUME TasksInv, NEW t \in Tasks, NEW who \in {"closer", "hostWaiter"}, CloseHost(t, who)
    PROVE  TasksInv'
<1>1. tasks[t] \in TaskRecords /\ execs[t] \in ExecRecords /\ SoundTask(t)
      /\ tasks[t].closeHost = "Free"
  BY TaskFacts, Zenon DEF CloseHost
<1>2. /\ who = "closer" => tasks[t].closer = "Host"
      /\ who = "hostWaiter" => tasks[t].hostWaiter = "Host"
  BY <1>1, TaskValues, Zenon DEF CloseHost, TaskRecords
<1>3. tasks[t].phase # "None"
  BY <1>1, <1>2, SMTT(30) DEF SoundTask, NoTask
<1>4. CASE OwnsHost(t)
  <2> DEFINE r == [tasks[t] EXCEPT !.closeHost = who]
  <2>1. t = Sandbox /\ kind.vm
    BY <1>4, Zenon DEF OwnsHost
  <2>2. /\ r \in TaskRecords /\ r.phase = tasks[t].phase /\ r.closeHost = who
        /\ r.closed = tasks[t].closed /\ r.resources = tasks[t].resources /\ r.told = tasks[t].told
        /\ r.closer = tasks[t].closer /\ r.hostWaiter = tasks[t].hostWaiter
    BY <1>1, TaskValues, Zenon DEF TaskRecords
  <2>3. /\ SetTask(t, r) /\ host' = IF host = "Running" THEN "Closed" ELSE HostShut
        /\ UNCHANGED <<kind, execs, listed, exits>>
    BY <1>4, Zenon DEF CloseHost
  <2> HIDE DEF r
  <2> QED  BY <1>1, <1>2, <1>3, <2>1, <2>2, <2>3, ClosingStep, Zenon
<1>5. CASE ~OwnsHost(t)
  <2>1. /\ SetTask(t, Finished(t, who)) /\ exits' = [exits EXCEPT ![t] = @ + 1]
        /\ UNCHANGED <<kind, host, execs, listed>>
    BY <1>5, Zenon DEF CloseHost
  <2>2. CASE who = "closer"
    BY <1>1, <1>2, <1>3, <2>1, <2>2, FinishedRecord, FinishedStep, Zenon
  <2>3. CASE who = "hostWaiter"
    BY <1>1, <1>2, <1>3, <2>1, <2>3, FinishedRecord, FinishedStep, Zenon
  <2> QED  BY <2>2, <2>3, Zenon
<1> QED  BY <1>4, <1>5, Zenon

-----------------------------------------------------------------------------
(* The tasks: the theorems.                                                 *)

LEMMA TasksInit == Init => TasksInv
<1> SUFFICES ASSUME Init PROVE TasksInv
  BY Zenon
<1>1. NoTask \in TaskRecords /\ NoTask.phase = "None" /\ NoTask.closer = "None"
      /\ NoTask.hostWaiter = "None" /\ NoTask.closeHost = "Free" /\ NoTask.closed = FALSE
      /\ NoTask.resources = "None"
  BY TaskValues, Zenon DEF NoTask, TaskRecords
<1>2. TasksTypeOK
  BY <1>1, NoExecType, RunhcsAssumption, Zenon DEF Init, TasksTypeOK, Hosts
<1>3. \A x \in Ids : execs[x] = NoExec
  BY Zenon DEF Init
<1>4. ExecInv
  <2>1. \A x \in Ids : SoundExec(execs[x])
    BY <1>3, NoExecType, Zenon DEF SoundExec
  <2>2. execs[Sandbox].waiter = "None"
    BY <1>3, NoExecType, Zenon DEF Ids, Tasks
  <2>3. \A x \in Execs : exits[x] = 0 /\ execs[x].waiter = "None"
    BY <1>3, NoExecType, Zenon DEF Init, Ids
  <2> QED  BY <2>1, <2>2, <2>3, Zenon DEF ExecInv
<1>5. \A t \in Tasks : SoundTask(t)
  <2>1. \A t \in Tasks : tasks[t] = NoTask /\ execs[t] = NoExec /\ exits[t] = 0
    BY <1>3, Zenon DEF Init, Ids
  <2> QED  BY <1>1, <2>1, NoExecType, Zenon DEF SoundTask
<1>6. SoundHost
  BY Zenon DEF Init, SoundHost
<1> QED  BY <1>2, <1>4, <1>5, <1>6, Zenon DEF TasksInv

LEMMA TasksStep == TasksInv /\ [Next]_vars => TasksInv'
<1> SUFFICES ASSUME TasksInv, [Next]_vars PROVE TasksInv'
  BY Zenon
<1>1. CASE Requests
  <2>1. CASE CreatePod
    BY <2>1, CreatePodStep, Zenon
  <2>2. ASSUME NEW t \in Workloads, CreateTask(t) PROVE TasksInv'
    BY <2>2, CreateTaskStep, Zenon
  <2>3. ASSUME NEW t \in Tasks,
               StartSandbox(t) \/ StartInit(t) \/ DeleteTask(t) \/ Deleted(t) \/ DeleteSandbox(t)
        PROVE  TasksInv'
    BY <2>3, StartSandboxStep, StartInitStep, DeleteTaskStep, DeletedStep, DeleteSandboxStep,
       Zenon
  <2>4. ASSUME NEW x \in Execs, CreateExec(x) \/ StartExec(x) \/ DeleteExec(x) PROVE TasksInv'
    BY <2>4, CreateExecStep, StartExecStep, DeleteExecStep, Zenon
  <2>5. ASSUME NEW x \in Ids, NEW all \in BOOLEAN, NEW sigkill \in BOOLEAN,
               KillTask(x, all, sigkill)
        PROVE  TasksInv'
    BY <2>5, KillTaskStep, Zenon
  <2> QED  BY <1>1, <2>1, <2>2, <2>3, <2>4, <2>5, Zenon DEF Requests
<1>2. CASE Guest
  BY <1>2, ProcessEndsStep, ContainerExitsStep, HostExitsStep, Zenon DEF Guest
<1>3. CASE Background
  <2>1. ASSUME NEW x \in Ids, Reap(x) \/ Free(x) \/ WaitForContainerExit(x) PROVE TasksInv'
    BY <2>1, ReapStep, FreeStep, WaitForContainerExitStep, Zenon
  <2>2. ASSUME NEW t \in Tasks, Created(t) \/ KillTimeout(t) \/ WaitInitExit(t) PROVE TasksInv'
    BY <2>2, CreatedStep, KillTimeoutStep, WaitInitExitStep, Zenon
  <2>3. ASSUME NEW t \in Tasks, Shutdown(t) \/ Terminate(t) \/ Release(t) PROVE TasksInv'
    BY <2>3, ShutdownStep, ReleaseStep, Zenon
  <2>4. ASSUME NEW t \in Tasks, WaitForHostExit(t) \/ Published(t) PROVE TasksInv'
    BY <2>4, WaitForHostExitStep, PublishedStep, Zenon
  <2>5. ASSUME NEW t \in Tasks, NEW who \in {"closer", "hostWaiter"}, CloseHost(t, who)
        PROVE  TasksInv'
    BY <2>5, CloseHostStep, Zenon
  <2> QED  BY <1>3, <2>1, <2>2, <2>3, <2>4, <2>5, Zenon DEF Background
<1>4. CASE UNCHANGED vars
  <2>1. UNCHANGED <<kind, host, tasks, execs, listed, exits>>
    BY <1>4, Zenon DEF vars
  <2>2. /\ execs' \in [Ids -> ExecRecords] /\ ExecInv'
        /\ \A u \in Tasks : Later(execs[u], execs'[u])
    BY <2>1, ExecsSame, Zenon
  <2> QED  BY <2>1, <2>2, TasksSame, Zenon DEF TasksInv, TasksTypeOK
<1> QED  BY <1>1, <1>2, <1>3, <1>4, Zenon DEF Next

\* What the invariant says of tasks that are closed and of their exit events.
LEMMA TasksInvGives == TasksInv => ClosedReleased /\ OneExit /\ StatusesAreReal
<1> SUFFICES ASSUME TasksInv PROVE ClosedReleased /\ OneExit /\ StatusesAreReal
  BY Zenon
<1>1. ClosedReleased
  <2> SUFFICES ASSUME NEW t \in Tasks, tasks[t].closed,
                      IF OwnsHost(t) THEN host \notin {"Exited", "Lost"} ELSE ~HostGone
               PROVE  tasks[t].resources # "Held" /\ execs[t].exited
    BY Zenon DEF ClosedReleased
  <2>1. SoundTask(t)
    BY TaskFacts, Zenon
  <2>2. CASE tasks[t].closer \in {"Host", "End"}
    BY <2>1, <2>2, Zenon DEF SoundTask
  <2>3. CASE tasks[t].hostWaiter = "End" /\ OwnsHost(t)
    <3>1. host = "Closed" /\ t = Sandbox
      BY <2>1, <2>3, Zenon DEF SoundTask, HostGone, OwnsHost
    <3> QED  BY <2>2, <3>1, Zenon DEF TasksInv, SoundHost
  <2>4. CASE tasks[t].hostWaiter = "End" /\ ~OwnsHost(t)
    BY <2>1, <2>4, Zenon DEF SoundTask
  <2> QED  BY <2>1, <2>2, <2>3, <2>4, Zenon DEF SoundTask
<1>2. OneExit
  <2>1. \A t \in Tasks : exits[t] \in {0, 1}
    BY Zenon DEF TasksInv, SoundTask
  <2>2. \A x \in Execs : exits[x] \in {0, 1}
    BY Zenon DEF TasksInv, ExecInv
  <2> QED  BY <2>1, <2>2, SMTT(30) DEF OneExit, Ids
<1>3. StatusesAreReal
  <2>1. \A x \in Ids : execs[x].waiter \in {"None", "Wait", "Copy", "End"} /\ SoundExec(execs[x])
    BY ExecFacts, Zenon DEF ExecRecords
  <2>2. \A t \in Tasks : SoundTask(t)
    BY Zenon DEF TasksInv
  <2> QED  BY <2>1, <2>2, ZenonT(40) DEF StatusesAreReal, SoundExec, SoundTask
<1> QED  BY <1>1, <1>2, <1>3, Zenon

-----------------------------------------------------------------------------
(* The handles: the inductive invariant.                                    *)

Guests == {"absent", "created", "running", "paused", "ending", "exited"}

Notices == {"Exited", "Disconnect"}

HandlesTypeOK ==
    /\ notes \in [Handles -> SUBSET Notices]
    /\ notify \in [Handles -> {"none", "exit", "abort"}]
    /\ DOMAIN life = Handles /\ DOMAIN waitBlock = Handles
    /\ guest \in [Handles -> Guests]

\* What HCS has still to tell of an exit, what the callback signalled and what
\* Wait returned are true.
HandlesInv ==
    /\ HandlesTypeOK
    /\ \A h \in Handles :
         /\ life[h] = "new" => guest[h] = "absent"
         /\ "Exited" \in notes[h] => guest[h] = "exited"
         /\ notify[h] = "exit" => guest[h] = "exited"
    /\ WaitIsTrue

-----------------------------------------------------------------------------
(* The steps of the handles.                                                *)

\* What a step may do to handle h: what it newly tells of an exit is true.
Honest(h) ==
    /\ guest[h] = "exited" => guest'[h] = "exited"
    /\ "Exited" \in notes'[h] => "Exited" \in notes[h] \/ guest'[h] = "exited"
    /\ notify'[h] = "exit" => notify[h] = "exit" \/ guest'[h] = "exited"
    /\ life'[h] = "new" => life[h] = "new" /\ guest'[h] = guest[h]
    /\ waitBlock'[h] = "exited" => waitBlock[h] = "exited" \/ guest'[h] = "exited"

LEMMA HonestStep ==
    ASSUME HandlesInv, HandlesTypeOK', \A h \in Handles : Honest(h)
    PROVE  HandlesInv'
<1>1. ASSUME NEW h \in Handles
      PROVE  /\ life'[h] = "new" => guest'[h] = "absent"
             /\ "Exited" \in notes'[h] => guest'[h] = "exited"
             /\ notify'[h] = "exit" => guest'[h] = "exited"
             /\ waitBlock'[h] = "exited" => guest'[h] = "exited"
  BY Zenon DEF HandlesInv, Honest, WaitIsTrue
<1> QED  BY <1>1, Zenon DEF HandlesInv, WaitIsTrue

\* A step that says nothing of a handle, neither to it nor about it.
LEMMA SilentStep ==
    ASSUME HandlesInv, UNCHANGED <<notify, waitBlock, life, guest, notes>>
    PROVE  HandlesInv'
<1>1. HandlesTypeOK'
  BY Zenon DEF HandlesInv, HandlesTypeOK
<1>2. ASSUME NEW h \in Handles PROVE Honest(h)
  BY <1>2, Zenon DEF Honest
<1> QED  BY <1>1, <1>2, HonestStep, Zenon

\* A step by which the owner of a handle goes on.
LEMMA OwnerStep ==
    ASSUME HandlesInv, NEW h \in Handles, NEW l, l # "new",
           life' = [life EXCEPT ![h] = l], UNCHANGED <<notify, waitBlock, guest, notes>>
    PROVE  HandlesInv'
<1>1. HandlesTypeOK'
  BY Zenon DEF HandlesInv, HandlesTypeOK
<1>2. ASSUME NEW k \in Handles PROVE Honest(k)
  BY <1>2, Zenon DEF HandlesInv, HandlesTypeOK, Honest
<1> QED  BY <1>1, <1>2, HonestStep, Zenon

LEMMA FailedBy ==
    ASSUME HandlesTypeOK, NEW h \in Handles,
           waitBlock' = waitBlock \/ waitBlock' = Unblocked(h, "failed")
    PROVE  DOMAIN waitBlock' = Handles
           /\ \A k \in Handles : waitBlock'[k] # waitBlock[k] => waitBlock'[k] = "failed"
<1>1. CASE waitBlock' = waitBlock
  BY <1>1, Zenon DEF HandlesTypeOK
<1>2. CASE waitBlock' = Unblocked(h, "failed")
  BY <1>2, SMT DEF HandlesTypeOK, Unblocked
<1> QED  BY <1>1, <1>2, Zenon

\* Waiters are released with an error, and nothing else is told.
LEMMA ReleasedStep ==
    ASSUME HandlesInv, NEW h \in Handles,
           waitBlock' = waitBlock \/ waitBlock' = Unblocked(h, "failed"),
           UNCHANGED <<notify, life, guest, notes>>
    PROVE  HandlesInv'
<1>1. DOMAIN waitBlock' = Handles
      /\ \A k \in Handles : waitBlock'[k] # waitBlock[k] => waitBlock'[k] = "failed"
  BY FailedBy, Zenon DEF HandlesInv
<1>2. HandlesTypeOK'
  BY <1>1, Zenon DEF HandlesInv, HandlesTypeOK
<1>3. ASSUME NEW k \in Handles PROVE Honest(k)
  BY <1>1, <1>3, Zenon DEF Honest
<1> QED  BY <1>2, <1>3, HonestStep, Zenon

LEMMA ToldOnly ==
    ASSUME HandlesTypeOK, NEW h \in Handles, NEW type \in Notices
    PROVE  /\ Told(h, type) \in [Handles -> SUBSET Notices]
           /\ \A k \in Handles : Told(h, type)[k] \subseteq notes[k] \cup
                (IF k = h THEN {type} ELSE {})
<1>1. \A k \in Handles : Told(h, type)[k] =
         IF k = h /\ callback[k] THEN notes[k] \cup {type} ELSE notes[k]
  BY Zenon DEF Told, HandlesTypeOK
<1>2. \A k \in Handles : Told(h, type)[k] \in SUBSET Notices
  BY <1>1, Zenon DEF HandlesTypeOK
<1>3. Told(h, type) = [k \in Handles |-> Told(h, type)[k]]
  BY Zenon DEF Told, HandlesTypeOK
<1>4. Told(h, type) \in [Handles -> SUBSET Notices]
  BY <1>2, <1>3, Zenon
<1>5. \A k \in Handles : Told(h, type)[k] \subseteq notes[k] \cup (IF k = h THEN {type} ELSE {})
  BY <1>1, Zenon
<1> QED  BY <1>4, <1>5, Zenon

LEMMA ExitsHonest ==
    ASSUME HandlesInv, NEW h \in Handles, Exits(h)
    PROVE  HandlesInv'
<1>1. notes' = notes \/ notes' = Told(h, "Exited")
  BY Zenon DEF Exits
<1>2. /\ notes' \in [Handles -> SUBSET Notices]
      /\ \A k \in Handles : notes'[k] \subseteq notes[k] \cup (IF k = h THEN {"Exited"} ELSE {})
  <2>1. HandlesTypeOK /\ "Exited" \in Notices
    BY Zenon DEF HandlesInv, Notices
  <2>2. CASE notes' = notes
    BY <2>1, <2>2, Zenon DEF HandlesTypeOK
  <2>3. CASE notes' = Told(h, "Exited")
    BY <2>1, <2>3, ToldOnly, Zenon
  <2> QED  BY <1>1, <2>2, <2>3, Zenon
<1>3. HandlesTypeOK'
  BY <1>2, Zenon DEF HandlesInv, HandlesTypeOK, Exits, handleVars, Guests
<1>4. ASSUME NEW k \in Handles PROVE Honest(k)
  <2>1. /\ guest'[k] = IF k = h THEN "exited" ELSE guest[k]
        /\ guest[h] # "absent"
        /\ UNCHANGED <<notify, waitBlock, life>>
    BY Zenon DEF HandlesInv, HandlesTypeOK, Exits, handleVars
  <2> QED  BY <1>2, <2>1, Zenon DEF HandlesInv, Honest
<1> QED  BY <1>3, <1>4, HonestStep, Zenon

LEMMA CompletesHonest ==
    ASSUME HandlesInv, NEW s \in Systems, Completes(s)
    PROVE  HandlesInv'
<1>1. s \in Handles /\ Alive(s) /\ UNCHANGED <<notify, waitBlock, life, notes>>
  BY Zenon DEF Handles, Completes, handleVars
<1>2. PICK g \in {"running", "paused"} : guest' = [guest EXCEPT ![s] = g]
  BY Zenon DEF Completes, After
<1>3. HandlesTypeOK'
  BY <1>1, <1>2, Zenon DEF HandlesInv, HandlesTypeOK, Guests
<1>4. ASSUME NEW k \in Handles PROVE Honest(k)
  <2>1. guest'[k] = IF k = s THEN g ELSE guest[k]
    BY <1>2, Zenon DEF HandlesInv, HandlesTypeOK
  <2> QED  BY <1>1, <2>1, Zenon DEF HandlesInv, Alive, Honest
<1> QED  BY <1>3, <1>4, HonestStep, Zenon

LEMMA DisconnectsHonest ==
    ASSUME HandlesInv, Disconnects
    PROVE  HandlesInv'
<1>1. ASSUME NEW k \in Handles
      PROVE  notes'[k] \in SUBSET Notices /\ notes'[k] \subseteq notes[k] \cup {"Disconnect"}
  <2>1. notes[k] \in SUBSET Notices
    BY Zenon DEF HandlesInv, HandlesTypeOK
  <2>2. notes'[k] = notes[k] \cup {"Disconnect"} \/ notes'[k] = notes[k]
    BY Zenon DEF Disconnects
  <2> QED  BY <2>1, <2>2, Zenon DEF Notices
<1>2. notes' = [k \in Handles |-> notes'[k]] /\ UNCHANGED <<notify, waitBlock, life, guest>>
  BY Zenon DEF Disconnects, handleVars
<1>3. notes' \in [Handles -> SUBSET Notices]
  BY <1>1, <1>2, Zenon
<1>4. HandlesTypeOK'
  BY <1>2, <1>3, Zenon DEF HandlesInv, HandlesTypeOK
<1>5. ASSUME NEW k \in Handles PROVE Honest(k)
  BY <1>1, <1>2, <1>5, Zenon DEF Honest
<1> QED  BY <1>4, <1>5, HonestStep, Zenon

LEMMA NotificationHandlerHonest ==
    ASSUME HandlesInv, NEW h \in Handles, NEW t \in notes[h], NotificationHandler(h, t)
    PROVE  HandlesInv'
<1>1. SignalOf(t) \in {"exit", "abort"} /\ (SignalOf(t) = "exit" => guest[h] = "exited")
  BY Zenon DEF SignalOf, HandlesInv
<1>2. UNCHANGED <<waitBlock, life, guest>>
  BY Zenon DEF NotificationHandler
<1>3. \A k \in Handles : notes'[k] = IF k = h THEN notes[k] \ {t} ELSE notes[k]
  BY Zenon DEF NotificationHandler, HandlesInv, HandlesTypeOK
<1>4. \A k \in Handles : notify'[k] = IF k = h /\ notify[k] = "none" THEN SignalOf(t) ELSE notify[k]
  BY Zenon DEF NotificationHandler, HandlesInv, HandlesTypeOK
<1>5. notes' \in [Handles -> SUBSET Notices]
  <2>1. notes' = [k \in Handles |-> notes'[k]]
    BY Zenon DEF NotificationHandler, HandlesInv, HandlesTypeOK
  <2>2. \A k \in Handles : notes'[k] \in SUBSET Notices
    BY <1>3, Zenon DEF HandlesInv, HandlesTypeOK
  <2> QED  BY <2>1, <2>2, Zenon
<1>6. notify' \in [Handles -> {"none", "exit", "abort"}]
  <2>1. notify' = [k \in Handles |-> notify'[k]]
    BY Zenon DEF NotificationHandler, HandlesInv, HandlesTypeOK
  <2>2. \A k \in Handles : notify'[k] \in {"none", "exit", "abort"}
    BY <1>1, <1>4, Zenon DEF HandlesInv, HandlesTypeOK
  <2> QED  BY <2>1, <2>2, Zenon
<1>7. HandlesTypeOK'
  BY <1>2, <1>5, <1>6, Zenon DEF HandlesInv, HandlesTypeOK
<1>8. ASSUME NEW k \in Handles PROVE Honest(k)
  BY <1>1, <1>2, <1>3, <1>4, <1>8, Zenon DEF Honest
<1> QED  BY <1>7, <1>8, HonestStep, Zenon

LEMMA WaitBackgroundHonest ==
    ASSUME HandlesInv, NEW h \in Handles, WaitBackground(h)
    PROVE  HandlesInv'
<1>1. UNCHANGED <<notify, life, guest, notes>>
  BY Zenon DEF WaitBackground, externalVars
<1>2. CASE notify[h] = "exit" /\ waitBlock' = Unblocked(h, "exited")
  <2>1. guest[h] = "exited"
    BY <1>2, Zenon DEF HandlesInv
  <2>2. DOMAIN waitBlock' = Handles /\ \A k \in Handles : waitBlock'[k] # waitBlock[k] => k = h
    BY <1>2, SMT DEF HandlesInv, HandlesTypeOK, Unblocked
  <2>3. HandlesTypeOK'
    BY <1>1, <2>2, Zenon DEF HandlesInv, HandlesTypeOK
  <2>4. ASSUME NEW k \in Handles PROVE Honest(k)
    BY <1>1, <2>1, <2>2, <2>4, Zenon DEF Honest
  <2> QED  BY <2>3, <2>4, HonestStep, Zenon
<1>3. CASE waitBlock' = waitBlock \/ waitBlock' = Unblocked(h, "failed")
  BY <1>1, <1>3, ReleasedStep, Zenon
<1> QED  BY <1>2, <1>3, Zenon DEF WaitBackground

LEMMA CreateComputeSystemHonest ==
    ASSUME HandlesInv, NEW s \in Systems, CreateComputeSystem(s)
    PROVE  HandlesInv'
<1>1. s \in Handles /\ life[s] = "new" /\ UNCHANGED <<notify, notes>>
  BY Zenon DEF Handles, CreateComputeSystem
<1>2. PICK l \in {"creating", "ended"} : life' = [life EXCEPT ![s] = l]
  BY Zenon DEF CreateComputeSystem
<1>3. guest' = guest \/ \E g \in {"created", "ending"} : guest' = [guest EXCEPT ![s] = g]
  BY Zenon DEF CreateComputeSystem
<1>4. waitBlock' = waitBlock \/ waitBlock' = Unblocked(s, "failed")
  BY Zenon DEF CreateComputeSystem
<1>5. DOMAIN waitBlock' = Handles
      /\ \A k \in Handles : waitBlock'[k] # waitBlock[k] => waitBlock'[k] = "failed"
  BY <1>1, <1>4, FailedBy, Zenon DEF HandlesInv
<1>6. HandlesTypeOK'
  <2>1. guest' \in [Handles -> Guests] /\ DOMAIN life' = Handles
    BY <1>2, <1>3, SMT DEF HandlesInv, HandlesTypeOK, Guests
  <2> QED  BY <1>1, <1>5, <2>1, Zenon DEF HandlesInv, HandlesTypeOK
<1>7. ASSUME NEW k \in Handles PROVE Honest(k)
  <2>1. life'[k] = IF k = s THEN l ELSE life[k]
    BY <1>2, Zenon DEF HandlesInv, HandlesTypeOK
  <2>2. guest[s] = "absent" /\ (k # s => guest'[k] = guest[k])
    BY <1>1, <1>3, Zenon DEF HandlesInv, HandlesTypeOK
  <2> QED  BY <1>1, <1>5, <2>1, <2>2, Zenon DEF Honest
<1> QED  BY <1>6, <1>7, HonestStep, Zenon

\* Ending one that is alive brings back none that has exited.
LEMMA EndingStep ==
    ASSUME HandlesInv, NEW h \in Handles,
           guest' = guest \/ (Alive(h) /\ guest' = [guest EXCEPT ![h] = "ending"]),
           \/ life' = life
           \/ \E l \in {"created", "abandoning", "waiting"} : life' = [life EXCEPT ![h] = l],
           UNCHANGED <<notify, waitBlock, notes>>
    PROVE  HandlesInv'
<1>1. HandlesTypeOK'
  BY Zenon DEF HandlesInv, HandlesTypeOK, Guests
<1>2. ASSUME NEW k \in Handles PROVE Honest(k)
  <2>1. guest'[k] = guest[k] \/ guest[k] \in {"created", "running", "paused"}
    BY Zenon DEF HandlesInv, HandlesTypeOK, Alive
  <2>2. life'[k] = "new" => life[k] = "new"
    BY Zenon DEF HandlesInv, HandlesTypeOK
  <2> QED  BY <2>1, <2>2, Zenon DEF HandlesInv, Honest
<1> QED  BY <1>1, <1>2, HonestStep, Zenon

LEMMA TerminateEnds ==
    ASSUME NEW s, TerminateSystem(s)
    PROVE  guest' = guest \/ (Alive(s) /\ guest' = [guest EXCEPT ![s] = "ending"])
BY Zenon DEF TerminateSystem

LEMMA SystemCreatedHonest ==
    ASSUME HandlesInv, NEW s \in Systems, SystemCreated(s)
    PROVE  HandlesInv'
<1>1. s \in Handles /\ life[s] = "creating" /\ UNCHANGED <<notify, waitBlock, notes>>
  BY Zenon DEF Handles, SystemCreated
<1>2. PICK l \in {"created", "abandoning"} : life' = [life EXCEPT ![s] = l]
  BY Zenon DEF SystemCreated
<1>3. guest' = guest \/ (Alive(s) /\ guest' = [guest EXCEPT ![s] = "ending"])
  BY TerminateEnds, Zenon DEF SystemCreated
<1> QED  BY <1>1, <1>2, <1>3, EndingStep, Zenon

LEMMA StopVMHonest ==
    ASSUME HandlesInv, NEW s \in Systems, StopVM(s)
    PROVE  HandlesInv'
<1>1. s \in Handles /\ life[s] = "stop" /\ UNCHANGED <<notify, waitBlock, notes>>
  BY Zenon DEF Handles, StopVM
<1>2. life' = [life EXCEPT ![s] = "waiting"]
  BY Zenon DEF StopVM
<1>3. guest' = guest \/ (Alive(s) /\ guest' = [guest EXCEPT ![s] = "ending"])
  BY TerminateEnds, Zenon DEF StopVM
<1> QED  BY <1>1, <1>2, <1>3, EndingStep, Zenon

\* The other steps of the owner of a system.
LEMMA OwnerHonest ==
    ASSUME HandlesInv, NEW s \in Systems,
           \/ Abandoned(s) \/ Start(s) \/ SystemStarted(s) \/ Connected(s) \/ StartFailed(s)
           \/ CloseVM(s) \/ WaitVM(s) \/ WaitOutput(s)
    PROVE  HandlesInv'
<1>1. s \in Handles
  BY Zenon DEF Handles
<1>2. UNCHANGED <<notify, waitBlock, guest, notes>>
  BY Zenon DEF Abandoned, Start, SystemStarted, Connected, StartFailed, CloseVM, WaitVM,
     WaitOutput, externalVars
<1>3. \E l \in {"ended", "starting", "failed", "connecting", "running", "stop", "output",
                "locking"} : life' = [life EXCEPT ![s] = l]
  BY Zenon DEF Abandoned, Start, SystemStarted, Connected, StartFailed, CloseVM, WaitVM,
     WaitOutput
<1> QED  BY <1>1, <1>2, <1>3, OwnerStep, Zenon

\* The steps of the output of a VM, and those of its waiters.
LEMMA OutputHonest ==
    ASSUME HandlesInv, NEW s \in Systems,
           AcceptOutput(s) \/ OutputEnds(s) \/ Wait(s) \/ WaitReturns(s)
    PROVE  HandlesInv'
<1>1. UNCHANGED <<notify, waitBlock, life, guest, notes>>
  BY Zenon DEF AcceptOutput, OutputEnds, Wait, WaitReturns, handleVars, externalVars
<1> QED  BY <1>1, SilentStep, Zenon

LEMMA OperationHonest ==
    ASSUME HandlesInv, NEW c,
           Operated(c) \/ \E s \in Systems, k \in OpKinds : Operate(c, s, k)
    PROVE  HandlesInv'
<1>1. UNCHANGED <<notify, waitBlock, life, guest, notes>>
  BY Zenon DEF Operate, Operated, handleVars
<1> QED  BY <1>1, SilentStep, Zenon

\* Closing a handle tells of no exit.
LEMMA CloseStep ==
    ASSUME HandlesInv, NEW h \in Handles, Close(h),
           life' = life \/ life' = [life EXCEPT ![h] = "ended"],
           UNCHANGED <<notify, guest>>
    PROVE  HandlesInv'
<1>1. notes' \in [Handles -> SUBSET Notices] /\ \A k \in Handles : notes'[k] \subseteq notes[k]
  BY Zenon DEF HandlesInv, HandlesTypeOK, Close
<1>2. waitBlock' = waitBlock \/ waitBlock' = Unblocked(h, "failed")
  BY Zenon DEF Close
<1>3. DOMAIN waitBlock' = Handles
      /\ \A k \in Handles : waitBlock'[k] # waitBlock[k] => waitBlock'[k] = "failed"
  BY <1>2, FailedBy, Zenon DEF HandlesInv
<1>4. HandlesTypeOK'
  BY <1>1, <1>3, Zenon DEF HandlesInv, HandlesTypeOK
<1>5. ASSUME NEW k \in Handles PROVE Honest(k)
  <2>1. life'[k] = "new" => life[k] = "new"
    BY Zenon DEF HandlesInv, HandlesTypeOK
  <2> QED  BY <1>1, <1>3, <2>1, Zenon DEF Honest
<1> QED  BY <1>4, <1>5, HonestStep, Zenon

LEMMA CloseHandleHonest ==
    ASSUME HandlesInv, NEW h \in Handles, CloseHandle(h)
    PROVE  HandlesInv'
<1>1. Close(h) /\ life' = [life EXCEPT ![h] = "ended"] /\ UNCHANGED <<notify, guest>>
  BY Zenon DEF CloseHandle
<1> QED  BY <1>1, CloseStep, Zenon

LEMMA CreateProcessHonest ==
    ASSUME HandlesInv, NEW p \in Procs, CreateProcess(p)
    PROVE  HandlesInv'
<1>1. p \in Handles /\ guest[p] = "absent" /\ UNCHANGED <<notify, waitBlock, notes>>
  BY Zenon DEF Handles, HandlesInv, CreateProcess
<1>2. /\ guest' = [guest EXCEPT ![p] = "running"]
      /\ life' = [life EXCEPT ![p] = "creating"]
  BY Zenon DEF CreateProcess
<1>3. HandlesTypeOK'
  BY <1>1, <1>2, Zenon DEF HandlesInv, HandlesTypeOK, Guests
<1>4. ASSUME NEW k \in Handles PROVE Honest(k)
  <2>1. /\ guest'[k] = IF k = p THEN "running" ELSE guest[k]
        /\ life'[k] = IF k = p THEN "creating" ELSE life[k]
    BY <1>2, Zenon DEF HandlesInv, HandlesTypeOK
  <2> QED  BY <1>1, <2>1, Zenon DEF Honest
<1> QED  BY <1>3, <1>4, HonestStep, Zenon

LEMMA ProcessHonest ==
    ASSUME HandlesInv, NEW p \in Procs, ProcessCreated(p) \/ CloseProcess(p)
    PROVE  HandlesInv'
<1>1. p \in Handles /\ UNCHANGED <<notify, waitBlock, guest, notes>>
  BY Zenon DEF Handles, ProcessCreated, CloseProcess, externalVars
<1>2. \E l \in {"running", "locking"} : life' = [life EXCEPT ![p] = l]
  BY Zenon DEF ProcessCreated, CloseProcess
<1> QED  BY <1>1, <1>2, OwnerStep, Zenon

LEMMA SignalHonest ==
    ASSUME HandlesInv, NEW p \in Procs, Signal(p) \/ ForceUnblock(p)
    PROVE  HandlesInv'
<1>1. p \in Handles /\ UNCHANGED <<notify, life, guest, notes>>
  BY Zenon DEF Handles, Signal, ForceUnblock, handleVars, externalVars
<1>2. waitBlock' = waitBlock \/ waitBlock' = Unblocked(p, "failed")
  BY Zenon DEF Signal, ForceUnblock, handleVars
<1> QED  BY <1>1, <1>2, ReleasedStep, Zenon

LEMMA KillProcessHonest ==
    ASSUME HandlesInv, NEW p \in Procs, KillProcess(p)
    PROVE  HandlesInv'
<1>1. p \in Handles /\ UNCHANGED <<notify, waitBlock, life, notes>>
  BY Zenon DEF Handles, KillProcess, handleVars
<1>2. \/ guest' = guest
      \/ guest' = [guest EXCEPT ![p] = IF Alive(p) THEN "ending" ELSE guest[p]]
  BY Zenon DEF KillProcess
<1>3. guest = [guest EXCEPT ![p] = guest[p]]
  BY <1>1, Zenon DEF HandlesInv, HandlesTypeOK
<1>4. guest' = guest \/ (Alive(p) /\ guest' = [guest EXCEPT ![p] = "ending"])
  BY <1>2, <1>3, Zenon
<1> QED  BY <1>1, <1>4, EndingStep, Zenon

LEMMA KillTerminatesHonest ==
    ASSUME HandlesInv, NEW p \in Procs, KillTerminates(p)
    PROVE  HandlesInv'
<1>1. SystemOf[p] \in Handles /\ UNCHANGED <<notify, waitBlock, life, notes>>
  BY HcsAssumption, Zenon DEF Handles, KillTerminates, handleVars
<1>2. \/ guest' = guest
      \/ Alive(SystemOf[p]) /\ guest' = [guest EXCEPT ![SystemOf[p]] = "ending"]
  BY TerminateEnds, Zenon DEF KillTerminates
<1> QED  BY <1>1, <1>2, EndingStep, Zenon

LEMMA KillClosesHonest ==
    ASSUME HandlesInv, NEW p \in Procs, KillCloses(p)
    PROVE  HandlesInv'
<1>1. SystemOf[p] \in Handles /\ Close(SystemOf[p]) /\ UNCHANGED <<notify, life, guest>>
  BY HcsAssumption, Zenon DEF Handles, KillCloses
<1> QED  BY <1>1, CloseStep, Zenon

-----------------------------------------------------------------------------
(* The handles, and the theorems of the shim.                               *)

LEMMA HandlesInit == HcsInit => HandlesInv
<1> SUFFICES ASSUME HcsInit PROVE HandlesInv
  BY Zenon
<1>1. DOMAIN life = Handles /\ DOMAIN waitBlock = Handles
      /\ \A h \in Handles : waitBlock[h] = "blocked"
  BY Zenon DEF HcsInit
<1>2. HandlesTypeOK
  BY <1>1, Zenon DEF HcsInit, HandlesTypeOK, Guests
<1> QED  BY <1>1, <1>2, Zenon DEF HcsInit, HandlesInv, WaitIsTrue

LEMMA HandlesStep == HandlesInv /\ [HcsNext]_<<hcsVars, failing>> => HandlesInv'
<1> SUFFICES ASSUME HandlesInv, [HcsNext]_<<hcsVars, failing>> PROVE HandlesInv'
  BY Zenon
<1>1. CASE Running
  <2>1. ASSUME NEW h \in Handles, Service(h) PROVE HandlesInv'
    BY <2>1, ExitsHonest, NotificationHandlerHonest, OutputHonest, Zenon DEF Service
  <2>2. ASSUME NEW s \in Systems, Calls(s) PROVE HandlesInv'
    BY <2>2, SystemCreatedHonest, StopVMHonest, OwnerHonest, OutputHonest, ZenonT(40) DEF Calls
  <2>3. ASSUME NEW p \in Procs,
               ProcessCreated(p) \/ ForceUnblock(p) \/ KillTerminates(p) \/ KillCloses(p)
        PROVE  HandlesInv'
    BY <2>3, ProcessHonest, SignalHonest, KillTerminatesHonest, KillClosesHonest, Zenon
  <2> QED  BY <1>1, <2>1, <2>2, <2>3, WaitBackgroundHonest, CloseHandleHonest, OperationHonest,
              Zenon DEF Running
<1>2. ASSUME NEW s \in Systems,
             \/ CreateComputeSystem(s) \/ Start(s) \/ Wait(s) \/ CloseVM(s)
             \/ Completes(s) \/ OutputEnds(s)
      PROVE  HandlesInv'
  BY <1>2, CreateComputeSystemHonest, OwnerHonest, OutputHonest, CompletesHonest, ZenonT(40)
<1>3. ASSUME NEW p \in Procs,
             CreateProcess(p) \/ CloseProcess(p) \/ Signal(p) \/ KillProcess(p)
      PROVE  HandlesInv'
  BY <1>3, CreateProcessHonest, ProcessHonest, SignalHonest, KillProcessHonest, ZenonT(40)
<1>4. CASE UNCHANGED <<hcsVars, failing>>
  <2>1. UNCHANGED <<notify, waitBlock, life, guest, notes>>
    BY <1>4, Zenon DEF hcsVars, handleVars, externalVars
  <2> QED  BY <2>1, SilentStep, Zenon
<1> QED  BY <1>1, <1>2, <1>3, <1>4, DisconnectsHonest, ExitsHonest, OperationHonest, Zenon
            DEF HcsNext

LEMMA ShimInvAlways == ShimSpec => [](TasksInv /\ HandlesInv)
<1>1. ShimInit => TasksInv /\ HandlesInv
  BY TasksInit, HandlesInit, Zenon DEF ShimInit
<1>2. TasksInv /\ HandlesInv /\ [ShimNext]_shimVars => (TasksInv /\ HandlesInv)'
  <2> SUFFICES ASSUME TasksInv, HandlesInv, [ShimNext]_shimVars
               PROVE  TasksInv' /\ HandlesInv'
    BY Zenon
  <2>1. [Next]_vars /\ [HcsNext]_<<hcsVars, failing>>
    BY Zenon DEF ShimNext, shimVars
  <2> QED  BY <2>1, TasksStep, HandlesStep, Zenon
<1> QED  BY <1>1, <1>2, PTL DEF ShimSpec

\* A task is closed, and a delete that waits for it returns, only once the
\* release of its container's resources was tried and its init exec has exited,
\* whichever of waitInitExit and waitForHostExit got to closeHost first, unless
\* the VM went away under it.
THEOREM ClosedAlwaysReleased == ShimSpec => []ClosedReleased
BY ShimInvAlways, TasksInvGives, PTL

\* Of a task and of an exec at most one TaskExit event is published: the two
\* goroutines that close a task, the waiter of a process and the calls that
\* force an exec to exit never publish it between them a second time.
THEOREM ExitPublishedOnce == ShimSpec => []OneExit
BY ShimInvAlways, TasksInvGives, PTL

\* An exit is reported as it happened: waitForExit keeps the status of the
\* process, or that of the wait that failed, against kills and deletes that come
\* at the same time; the event of a task tells the status its init exec keeps;
\* and waitBackground tells the waiters of a handle of an exit only after one.
THEOREM ExitsAlwaysReal == ShimSpec => []ExitsAreReal
<1>1. TasksInv /\ HandlesInv => ExitsAreReal
  BY TasksInvGives, Zenon DEF ExitsAreReal, HandlesInv
<1> QED  BY <1>1, ShimInvAlways, PTL
=============================================================================

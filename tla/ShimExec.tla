----------------------------- MODULE ShimExec ------------------------------
(***************************************************************************)
(* One exec of the runhcs shim (cmd/containerd-shim-runhcs-v1): hcsExec,   *)
(* a process in a container, and wcowPodSandboxExec, the init exec of a    *)
(* pod that needs no real sandbox container.  An exec is a record:         *)
(*   state    "None" until it is created, then shimExecState               *)
(*   exited   the channel Wait blocks on is closed                         *)
(*   io       the upstream pipes are open                                  *)
(*   proc     the process behind it: "None", "Alive" or "Dead"             *)
(*   waiter   where its waitForExit goroutine is                           *)
(*   status   its exit status: "unset" as created, "forced" when the shim    *)
(*            chose it, "own" from the process, "lost" when its wait failed  *)
(*   watching its waitForContainerExit goroutine still waits               *)
(* Everything below runs under the exec's state lock.                      *)
(***************************************************************************)

NoExec == [state |-> "None", exited |-> FALSE, io |-> FALSE, proc |-> "None",
           waiter |-> "None", status |-> "unset", watching |-> FALSE]

newHcsExec == [NoExec EXCEPT !.state = "Created", !.io = TRUE, !.watching = TRUE]

newWcowPodSandboxExec == [NoExec EXCEPT !.state = "Created"]

\* Closing processDone ends the goroutine that waits for the container.
ExitFromCreatedL(e) ==
    IF e.state = "Exited" THEN e
    ELSE [e EXCEPT !.state = "Exited", !.exited = TRUE, !.io = FALSE, !.watching = FALSE,
                   !.status = "forced"]

\* The process is told to end; a guest that is stuck does not deliver it.
SignalProcess(e, delivered) ==
    IF delivered /\ e.proc = "Alive" THEN [e EXCEPT !.proc = "Dead"] ELSE e

\* hcsExec: an exec that never started exits at once, a running one only
\* once its process ends.
Kill(e, delivered) ==
    CASE e.state = "Created" -> ExitFromCreatedL(e)
      [] e.state = "Running" -> SignalProcess(e, delivered)
      [] OTHER -> e

MarksExited(e, delivered) ==
    IF e.state = "None" THEN e ELSE ExitFromCreatedL(SignalProcess(e, delivered))

ForceExit(e, delivered) == Kill(e, delivered)

\* wcowPodSandboxExec: no process stands behind it, Kill and ForceExit both
\* end it and close exited under the lock.
SandboxExited(e) == [e EXCEPT !.state = "Exited", !.exited = TRUE, !.status = "forced"]

KillSandbox(e) == IF e.state \in {"Created", "Running"} THEN SandboxExited(e) ELSE e

ForceExitSandbox(e) == IF e.state # "Exited" THEN SandboxExited(e) ELSE e

\* startInternal once the process exists and its start event is published:
\* the goroutine that waits for the process is started last.
Started(e) == [e EXCEPT !.state = "Running", !.proc = "Alive", !.waiter = "Wait"]

\* ... and when the event could not be published: nobody waits for the
\* process, the deferred exit reports it as ended.
StartedUnpublished(e) == ExitFromCreatedL([e EXCEPT !.state = "Running", !.proc = "Alive"])

\* waitForExit up to the unlock, after a Wait that returned the exit of the
\* process or an error: the state is final, waiters are not freed.
Reaped(e, status) ==
    [e EXCEPT !.state = "Exited", !.status = status, !.watching = FALSE, !.waiter = "Copy"]

\* ... and the rest, after the IO copies are done.
Freed(e) == [e EXCEPT !.io = FALSE, !.exited = TRUE, !.waiter = "End"]

\* The wait channel of the container is closed.
ContainerGone(e, delivered) == [Kill(e, delivered) EXCEPT !.watching = FALSE]

=============================================================================

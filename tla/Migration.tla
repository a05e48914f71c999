----------------------------- MODULE Migration -----------------------------
(***************************************************************************)
(* The migration controller (internal/controller/migration) of one shim:   *)
(* it takes the VM and the pods of its sandbox through a live migration    *)
(* session, as source or as destination.                                   *)
(*                                                                         *)
(* A handler runs under the controller's mutex and is one action, except   *)
(* where the code lets go of it: Cancel releases it around the abort, and  *)
(* Transfer hands the work to a goroutine, a driver, which takes it only   *)
(* to claim the transfer and to record its outcome.  The transfer itself   *)
(* holds the VM's mutex throughout, and whoever needs the VM waits.        *)
(*                                                                         *)
(* The orchestrator may issue any call at any time.  A call that names     *)
(* another session than the active one, or that the state does not allow,  *)
(* is refused and changes nothing, so only the accepted ones are actions.  *)
(***************************************************************************)
EXTENDS Naturals, FiniteSets, VmOps

CONSTANTS
    Pods,         \* the sandbox's pods
    Drivers,      \* the goroutines Transfer may spawn
    Cancellers,   \* the threads that may be inside Cancel
    MaxSessions,  \* bound on the sessions started
    Quiesces,     \* the orchestrator winds a session down only when the Cancel
                  \* calls and transfers it started have ended
    None          \* no session

ASSUME MigrationAssumption == MaxSessions \in Nat /\ Quiesces \in BOOLEAN

VARIABLES
    state,        \* the session's state
    session,      \* sessionID, None when empty
    origin,       \* "Source", "Destination" or None
    dupSocket,    \* a transport socket is adopted
    socketReady,  \* the identity of the channel in this field
    closed,       \* the channels that were closed
    panicked,     \* the shim crashed: a nil pointer, a channel closed twice
    pods,         \* pod -> isMigrating, and whether its containers are frozen
    pending,      \* pendingPatches
    vm,           \* the VM, see VmOps
    drivers,      \* goroutine -> where it is, and the channel it captured
    cancels,      \* thread -> where it is in Cancel
    sessions,     \* the number of sessions started
    cancelled     \* a Cancel of this session has succeeded

control == <<state, session, origin, dupSocket, socketReady, pending>>
vars == <<control, closed, panicked, pods, vm, drivers, cancels, sessions, cancelled>>

Idling == [pc |-> "none", channel |-> 0]
Thawed == [migrating |-> FALSE, frozen |-> FALSE]
Frozen == [migrating |-> TRUE, frozen |-> TRUE]
BadlySaved(some) == [migrating |-> FALSE, frozen |-> some]

\* A shim that runs a sandbox, or one started to receive a migration.
Init ==
    /\ state = "Idle" /\ session = None /\ origin = None /\ dupSocket = FALSE
    /\ socketReady = 0 /\ closed = {} /\ panicked = FALSE
    /\ pods = [p \in Pods |-> Thawed] /\ pending = {}
    /\ vm \in {[state |-> "Running", guestMigrating |-> FALSE, frozen |-> FALSE,
                watched |-> TRUE, gc |-> TRUE, listening |-> FALSE],
               [state |-> "NotCreated", guestMigrating |-> FALSE, frozen |-> FALSE,
                watched |-> FALSE, gc |-> FALSE, listening |-> FALSE]}
    /\ drivers = [t \in Drivers |-> Idling]
    /\ cancels = [k \in Cancellers |-> "none"]
    /\ sessions = 0 /\ cancelled = FALSE

VmUnlocked == \A t \in Drivers : drivers[t].pc # "transferring"
Active == ~panicked /\ session # None

\* close(c.socketReady): closing a closed channel panics.
Close ==
    /\ closed' = closed \cup {socketReady}
    /\ panicked' = (socketReady \in closed)

-----------------------------------------------------------------------------
(* Source: PrepareSource and ExportState.                                   *)

NewSession(side) ==
    /\ ~panicked /\ state = "Idle" /\ sessions < MaxSessions
    /\ session' = sessions + 1 /\ sessions' = sessions + 1
    /\ origin' = side

PrepareSource ==
    /\ NewSession("Source")
    /\ VmUnlocked
    /\ \E r \in InitializeLiveMigrationOnSource(vm) : ~r.err /\ vm' = r.vm
    /\ state' = "SourcePrepared"
    /\ UNCHANGED <<dupSocket, socketReady, pending, closed, panicked, pods, drivers, cancels,
                   cancelled>>

\* What the loop over the pods leaves behind: pods are saved one by one until
\* one fails, possibly with some of its containers frozen.
HalfSaved(done, bad, some) ==
    [p \in Pods |-> IF p = bad THEN BadlySaved(some) ELSE IF p \in done THEN Frozen ELSE pods[p]]

SavePods ==
    {[pods |-> [p \in Pods |-> Frozen], err |-> FALSE]}
    \cup IF "savePod" \notin Faults THEN {}
         ELSE {[pods |-> HalfSaved(done, bad, some), err |-> TRUE] :
               done \in SUBSET Pods, bad \in Pods, some \in BOOLEAN}

\* The VM is saved first; any failure fails the session.
ExportState ==
    /\ Active /\ VmUnlocked
    /\ state = "SourcePrepared"
    /\ \E r \in SaveVM(vm), s \in SavePods :
         /\ vm' = r.vm
         /\ pods' = IF r.err THEN pods ELSE s.pods
         /\ state' = IF r.err \/ s.err THEN "Failed" ELSE "SourceExported"
    /\ UNCHANGED <<session, origin, dupSocket, socketReady, pending, closed, panicked, drivers,
                   cancels, sessions, cancelled>>

-----------------------------------------------------------------------------
(* Destination: ImportState, PatchResourcePaths and PrepareDestination.     *)

ImportState ==
    /\ NewSession("Destination")
    /\ VmUnlocked
    /\ \E r \in ImportVM(vm) : ~r.err /\ vm' = r.vm
    /\ pods' = [p \in Pods |-> Frozen]
    /\ pending' = Pods
    /\ state' = "DestinationImported"
    /\ UNCHANGED <<dupSocket, socketReady, closed, panicked, drivers, cancels, cancelled>>

PatchResourcePaths(p) ==
    /\ Active
    /\ state = "DestinationImported"
    /\ p \in pending
    /\ pending' = pending \ {p}
    /\ UNCHANGED <<state, session, origin, dupSocket, socketReady, closed, panicked, pods, vm,
                   drivers, cancels, sessions, cancelled>>

\* A VM that cannot be created leaves the session as it was; one that cannot
\* be patched fails it.
PrepareDestination ==
    /\ Active /\ VmUnlocked
    /\ state = "DestinationImported"
    /\ pending = {}
    /\ \E r \in CreateVM(vm) :
         /\ ~r.err
         /\ \E q \in PatchVM(r.vm) :
              /\ vm' = q.vm
              /\ state' = IF q.err THEN "Failed" ELSE "DestinationPrepared"
    /\ UNCHANGED <<session, origin, dupSocket, socketReady, pending, closed, panicked, pods,
                   drivers, cancels, sessions, cancelled>>

-----------------------------------------------------------------------------
(* RegisterDuplicateSocket: adopting the socket or failing to, it closes    *)
(* the channel a driver may be waiting on.                                  *)

\* Mutant: a session that has been cancelled may still register a socket.
AnyRegistrable == ~dupSocket
Registrable ==
    ~dupSocket /\ state \in {"SourceExported", "DestinationPrepared", "SocketWaiting"}

RegisterDuplicateSocket ==
    /\ Active
    /\ Registrable
    /\ \E ok \in IF "socket" \in Faults THEN BOOLEAN ELSE {TRUE} :
         /\ dupSocket' = ok
         /\ state' = IF ok THEN "SocketReady" ELSE "Failed"
    /\ Close
    /\ UNCHANGED <<session, origin, socketReady, pending, pods, vm, drivers, cancels, sessions,
                   cancelled>>

-----------------------------------------------------------------------------
(* Transfer and the goroutine it starts.                                    *)

Transfer(t) ==
    /\ Active
    /\ drivers[t] = Idling
    /\ state \in {"SocketReady", "SourceExported", "DestinationPrepared"}
    /\ state' = IF state = "SocketReady" THEN state ELSE "SocketWaiting"
    /\ drivers' = [drivers EXCEPT ![t] = [pc |-> "waiting", channel |-> socketReady]]
    /\ UNCHANGED <<session, origin, dupSocket, socketReady, pending, closed, panicked, pods, vm,
                   cancels, sessions, cancelled>>

At(t, pc) == ~panicked /\ drivers[t].pc = pc
Goes(t, pc) == drivers' = [drivers EXCEPT ![t] = IF pc = "none" THEN Idling ELSE [@ EXCEPT !.pc = pc]]

\* The wait for the socket times out.
TimeOut(t) ==
    /\ "timeout" \in Faults
    /\ At(t, "waiting")
    /\ Goes(t, "failing")
    /\ UNCHANGED <<control, closed, panicked, pods, vm, cancels, sessions, cancelled>>

\* Mutant: the claim only asks for the socket.
ClaimableBySocket == dupSocket
Claimable == state = "SocketReady"

\* The channel is closed: claim the transfer, report a failed session, or bail.
Claim(t) ==
    /\ At(t, "waiting")
    /\ drivers[t].channel \in closed
    /\ \/ /\ Claimable
          /\ state' = "Transferring"
          /\ Goes(t, "claimed")
       \/ /\ ~Claimable
          /\ Goes(t, IF state = "Failed" THEN "failing" ELSE "none")
          /\ UNCHANGED state
    /\ UNCHANGED <<session, origin, dupSocket, socketReady, pending, closed, panicked, pods, vm,
                   cancels, sessions, cancelled>>

\* The first half of runTransfer reads the session's fields without the mutex.
\* Once the session is cleaned up it finds no origin and fails, or it has read
\* the origin before and the VM controller after and dereferences nil.
RunStart(t) ==
    /\ At(t, "claimed") /\ VmUnlocked
    /\ \/ /\ session # None
          /\ \E r \in IF origin = "Source" THEN StartLiveMigrationOnSource(vm)
                      ELSE StartWithMigrationOptions(vm) :
               vm' = r.vm /\ Goes(t, IF r.err THEN "failing" ELSE "started")
          /\ UNCHANGED panicked
       \/ /\ session = None
          /\ \/ Goes(t, "failing") /\ UNCHANGED panicked
             \/ panicked' = TRUE /\ UNCHANGED drivers
          /\ UNCHANGED vm
    /\ UNCHANGED <<control, closed, pods, cancels, sessions, cancelled>>

\* StartLiveMigrationTransfer takes the VM's mutex, or refuses.
RunTransfer(t) ==
    /\ At(t, "started") /\ VmUnlocked
    /\ panicked' = (session = None)
    /\ Goes(t, IF vm.state \in Streaming THEN "transferring" ELSE "failing")
    /\ UNCHANGED <<control, closed, pods, vm, cancels, sessions, cancelled>>

RunEnds(t) ==
    /\ At(t, "transferring")
    /\ \E r \in StartLiveMigrationTransfer(vm) :
         vm' = r.vm /\ Goes(t, IF r.err THEN "failing" ELSE "completing")
    /\ UNCHANGED <<control, closed, panicked, pods, cancels, sessions, cancelled>>

\* Mutant: the transfer completes whatever became of the session meanwhile.
Completes == TRUE
StillTransferring == state = "Transferring"

Complete(t) ==
    /\ At(t, "completing")
    /\ state' = IF StillTransferring THEN "TransferCompleted" ELSE state
    /\ Goes(t, "none")
    /\ UNCHANGED <<session, origin, dupSocket, socketReady, pending, closed, panicked, pods, vm,
                   cancels, sessions, cancelled>>

\* Mutant: the error of a cancelled transfer fails the session.
NeverSwallowed == FALSE
Swallowed == state = "Cancelled"

FailTransfer(t) ==
    /\ At(t, "failing")
    /\ state' = IF Swallowed THEN state ELSE "Failed"
    /\ Goes(t, "none")
    /\ UNCHANGED <<session, origin, dupSocket, socketReady, pending, closed, panicked, pods, vm,
                   cancels, sessions, cancelled>>

-----------------------------------------------------------------------------
(* Cancel lets go of the mutex while the host aborts the migration.         *)

\* The orchestrator's discipline, which the code does not enforce.
WindsDown ==
    Quiesces => /\ \A k \in Cancellers : cancels[k] = "none"
                /\ \A t \in Drivers : drivers[t] = Idling

\* A destination without a compute system has nothing to abort.
CancelImported ==
    /\ Active
    /\ state = "DestinationImported"
    /\ state' = "Cancelled" /\ cancelled' = TRUE
    /\ UNCHANGED <<session, origin, dupSocket, socketReady, pending, closed, panicked, pods, vm,
                   drivers, cancels, sessions>>

CloseOnce == closed' = closed \cup {socketReady} /\ UNCHANGED panicked

CancelBegin(k) ==
    /\ Active
    /\ cancels[k] = "none"
    /\ state \notin {"Idle", "Cancelled", "Cancelling", "DestinationImported"}
    /\ CloseOnce
    /\ state' = "Cancelling"
    /\ cancels' = [cancels EXCEPT ![k] = "aborting"]
    /\ UNCHANGED <<session, origin, dupSocket, socketReady, pending, pods, vm, drivers, sessions,
                   cancelled>>

\* The VM controller is read after the mutex is released.
CancelAborts(k) ==
    /\ ~panicked
    /\ cancels[k] = "aborting"
    /\ panicked' = (session = None)
    /\ \E r \in CancelLiveMigration(vm) :
         cancels' = [cancels EXCEPT ![k] = IF r.err THEN "failed" ELSE "aborted"]
    /\ UNCHANGED <<control, closed, pods, vm, drivers, sessions, cancelled>>

CancelEnds(k) ==
    /\ ~panicked
    /\ cancels[k] \in {"aborted", "failed"}
    /\ state' = IF cancels[k] = "aborted" THEN "Cancelled" ELSE "Failed"
    /\ cancelled' = (cancelled \/ cancels[k] = "aborted")
    /\ cancels' = [cancels EXCEPT ![k] = "none"]
    /\ UNCHANGED <<session, origin, dupSocket, socketReady, pending, closed, panicked, pods, vm,
                   drivers, sessions>>

-----------------------------------------------------------------------------
(* Finalize and Cleanup.                                                    *)

\* A pod that is not migrating is left as it is.
Resumed(p) == IF pods[p].migrating THEN Thawed ELSE pods[p]

\* Pods resume one by one until one fails, with some of its containers thawed
\* and its flag still set.
HalfResumed(done, bad, some) ==
    [p \in Pods |-> IF p = bad THEN [pods[p] EXCEPT !.frozen = @ /\ some]
                    ELSE IF p \in done THEN Resumed(p) ELSE pods[p]]

ResumePods ==
    {[pods |-> [p \in Pods |-> Resumed(p)], err |-> FALSE]}
    \cup IF "resumePod" \notin Faults THEN {}
         ELSE {[pods |-> HalfResumed(done, bad, some), err |-> TRUE] :
               done \in SUBSET Pods, bad \in {p \in Pods : pods[p].migrating}, some \in BOOLEAN}

\* Mutant: a stop after a resume that did not come through leaves the VM as it is.
NotTornDown(op) ==
    CASE vm.state = "Terminated" -> IF op = "Resume" THEN Err(vm) ELSE Ok(vm)
      [] vm.state = "MigrationFinalized" -> Ok(vm)
      [] OTHER -> FinalizeLiveMigration(vm, origin, op)

\* The final operation, reconciled with where an earlier attempt left the VM.
FinalOperation(op) ==
    CASE vm.state = "Terminated" -> IF op = "Resume" THEN Err(vm) ELSE Ok(vm)
      [] vm.state = "MigrationFinalized" -> IF op = "Stop" THEN TerminateVM(vm) ELSE Ok(vm)
      [] OTHER -> FinalizeLiveMigration(vm, origin, op)

Settled ==
    \/ state \in {"TransferCompleted", "Failed"}
    \/ state = "Cancelled" /\ origin = "Source"

FinalizeStop ==
    /\ Active /\ VmUnlocked /\ WindsDown
    /\ Settled
    /\ \E r \in FinalOperation("Stop") :
         /\ vm' = r.vm
         /\ state' = IF r.err THEN state ELSE "Finalized"
    /\ UNCHANGED <<session, origin, dupSocket, socketReady, pending, closed, panicked, pods,
                   drivers, cancels, sessions, cancelled>>

\* The VM first, then the pods.
FinalizeResume ==
    /\ Active /\ VmUnlocked /\ WindsDown
    /\ Settled
    /\ \E r \in FinalOperation("Resume") :
         \/ r.err /\ vm' = r.vm /\ UNCHANGED <<pods, state>>
         \/ /\ ~r.err
            /\ \E q \in ResumeVM(r.vm, origin) :
                 \/ q.err /\ vm' = q.vm /\ UNCHANGED <<pods, state>>
                 \/ /\ ~q.err
                    /\ vm' = q.vm
                    /\ \E s \in ResumePods :
                         /\ pods' = s.pods
                         /\ state' = IF s.err THEN state ELSE "Finalized"
    /\ UNCHANGED <<session, origin, dupSocket, socketReady, pending, closed, panicked, drivers,
                   cancels, sessions, cancelled>>

\* Mutant: a cancelled destination has to be finalized like everybody else.
OnlyFinalized == state = "Finalized"
CanCleanup == state = "Finalized" \/ (state = "Cancelled" /\ origin = "Destination")

Cleanup ==
    /\ Active /\ WindsDown
    /\ CanCleanup
    /\ session' = None /\ origin' = None /\ dupSocket' = FALSE /\ pending' = {}
    /\ socketReady' = socketReady + 1
    /\ state' = "Idle" /\ cancelled' = FALSE
    /\ UNCHANGED <<closed, panicked, pods, vm, drivers, cancels, sessions>>

-----------------------------------------------------------------------------
(* The VM can exit by itself, and the sandbox can be stopped at any time.   *)

VMExits ==
    /\ "exit" \in Faults
    /\ ~panicked /\ VmUnlocked
    /\ vm.watched /\ vm.state # "Terminated"
    /\ vm' = Exited(vm)
    /\ UNCHANGED <<control, closed, panicked, pods, drivers, cancels, sessions, cancelled>>

StopSandbox ==
    /\ "stop" \in Faults
    /\ ~panicked /\ VmUnlocked
    /\ vm.state \notin {"Terminated", "NotCreated"}
    /\ \E r \in TerminateVM(vm) : vm' = r.vm
    /\ UNCHANGED <<control, closed, panicked, pods, drivers, cancels, sessions, cancelled>>

Driving(t) ==
    \/ Transfer(t) \/ TimeOut(t) \/ Claim(t) \/ RunStart(t) \/ RunTransfer(t) \/ RunEnds(t)
    \/ Complete(t) \/ FailTransfer(t)
Cancelling(k) == CancelBegin(k) \/ CancelAborts(k) \/ CancelEnds(k)

Next ==
    \/ PrepareSource \/ ExportState
    \/ ImportState \/ (\E p \in Pods : PatchResourcePaths(p)) \/ PrepareDestination
    \/ RegisterDuplicateSocket
    \/ \E t \in Drivers : Driving(t)
    \/ CancelImported \/ (\E k \in Cancellers : Cancelling(k))
    \/ FinalizeStop \/ FinalizeResume \/ Cleanup
    \/ VMExits \/ StopSandbox

Spec == Init /\ [][Next]_vars

-----------------------------------------------------------------------------
(* Properties.                                                              *)

\* Once a Cancel has aborted the session, its transfer neither starts nor
\* completes, however late its goroutine wakes up.
CancelWins == cancelled => state \notin {"SocketReady", "Transferring", "TransferCompleted"}

\* Of all the goroutines that Transfer has started, one at most is past its claim.
SingleDriver ==
    \A t, u \in Drivers :
        {drivers[t].pc, drivers[u].pc} \subseteq {"claimed", "started", "transferring", "completing"}
            => t = u

\* A transfer belongs to one goroutine, and after a Cancel to none: however late
\* the others wake up, they neither drive the VM nor change the outcome.
TransferOwned == CancelWins /\ SingleDriver

\* The memory of a source VM is only streamed once its SCSI controller and all
\* of its pods are frozen, so nothing changes behind the exported snapshot.
StreamsOnlyExported ==
    vm.state = "SourceMigrationStarted"
        => vm.frozen /\ \A p \in Pods : pods[p].migrating /\ pods[p].frozen

\* A VM in state Running takes ordinary calls: no migration left its SCSI
\* controller frozen or its guest bridge tolerating a lost connection.
RunningIsThawed == vm.state = "Running" => ~vm.frozen /\ ~vm.guestMigrating

\* Finalize leaves nothing in between: the VM is gone, or it runs and no pod is
\* left frozen.
FinalizedIsSettled ==
    state = "Finalized"
        => \/ vm.state = "Terminated"
           \/ vm.state = "Running" /\ \A p \in Pods : pods[p] = Thawed

\* The refinement mapping: the session's phase is the controller's state.
Session == INSTANCE MigrationSession WITH phase <- state, side <- origin, Nobody <- None

\* The controller with its goroutines, its VM and its pods goes through no other
\* life cycle than the one it promises.
ImplementsSession == Session!Spec

-----------------------------------------------------------------------------
(* Liveness.  Goroutines and threads get to run.  The orchestrator keeps    *)
(* asking for one outcome or the other until an attempt succeeds, which     *)
(* attempts the host can grant eventually do, and keeps asking to clean up. *)

Settles(A) == A /\ state' = "Finalized"

Fairness ==
    /\ \A t \in Drivers :
         /\ WF_vars(TimeOut(t) \/ Claim(t)) /\ WF_vars(RunStart(t)) /\ WF_vars(RunTransfer(t))
         /\ WF_vars(RunEnds(t)) /\ WF_vars(Complete(t)) /\ WF_vars(FailTransfer(t))
    /\ \A k \in Cancellers : WF_vars(CancelAborts(k)) /\ WF_vars(CancelEnds(k))
    /\ SF_vars(FinalizeResume)
    /\ SF_vars(Settles(FinalizeStop)) /\ SF_vars(Settles(FinalizeResume))
    /\ SF_vars(Cleanup)

FairSpec == Spec /\ Fairness

\* Finalize has brought the VM back to Running, but one of its pods did not
\* resume, or a Cancel came after it: no Finalize is accepted any more, until the
\* VM is gone.
Unfinishable == Settled /\ vm.state = "Running"

\* A session whose transfer has been asked for, or that has failed, been
\* cancelled or completed, eventually ends and the controller is idle again,
\* unless it can no longer be finalized.
WoundDown ==
    state \in {"SocketWaiting", "Transferring", "Failed", "Cancelled", "TransferCompleted",
               "Finalized"} ~> state = "Idle" \/ Unfinishable
=============================================================================

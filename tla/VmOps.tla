------------------------------- MODULE VmOps -------------------------------
(***************************************************************************)
(* The operations of the VM controller (internal/controller/vm) that a     *)
(* live migration drives.  Each operator takes the VM and yields the set   *)
(* of outcomes its method can have: the VM afterwards and whether the      *)
(* method returned an error.  Every method runs under the VM's own mutex,  *)
(* so it is one step; the calls into HCS and the guest may fail when they  *)
(* are in Faults.                                                          *)
(*                                                                         *)
(* A VM is a record: state is vmState, guestMigrating the flag the bridge  *)
(* uses to tolerate a lost connection, frozen the isMigrating flag of the  *)
(* VM's SCSI controller, watched tells whether waitForVMExit runs, and     *)
(* gc and listening are those of the guest manager                         *)
(* (internal/vm/guestmanager): it has a guest connection, it has a listener*)
(* on which the guest's agent can make one.                                *)
(***************************************************************************)
CONSTANT Faults

Ok(v) == {[vm |-> v, err |-> FALSE]}
Err(v) == {[vm |-> v, err |-> TRUE]}
MayFail(call, v) == IF call \in Faults THEN Err(v) ELSE {}
To(v, state) == [v EXCEPT !.state = state]

\* A method that moves the VM from one state to the next around one call.
Step(v, from, call, to) ==
    IF v.state \notin from THEN Err(v) ELSE MayFail(call, v) \cup Ok(To(v, to))

-----------------------------------------------------------------------------
(* Source.                                                                  *)

InitializeLiveMigrationOnSource(v) ==
    Step(v, {"Running"}, "initialize", "SourceMigrationInitialized")

\* Reading the compatibility blob or saving the SCSI controller fails before
\* the freeze; a VPCI device or a Plan9 share fails the call after it.
SaveVM(v) ==
    IF v.state # "SourceMigrationInitialized" THEN Err(v)
    ELSE MayFail("save", v) \cup MayFail("saveDevices", [v EXCEPT !.frozen = TRUE])
            \cup Ok([v EXCEPT !.frozen = TRUE])

\* The flag is raised before the host is asked and lowered again on failure.
StartLiveMigrationOnSource(v) ==
    IF v.state # "SourceMigrationInitialized" THEN Err(v)
    ELSE MayFail("start", [v EXCEPT !.guestMigrating = FALSE])
            \cup Ok([v EXCEPT !.state = "SourceMigrationStarted", !.guestMigrating = TRUE])

-----------------------------------------------------------------------------
(* Destination.                                                             *)

ImportVM(v) ==
    IF v.state # "NotCreated" THEN Err(v)
    ELSE Ok([v EXCEPT !.state = "DestinationMigrationImported", !.frozen = TRUE])

CreateVM(v) ==
    Step(v, {"DestinationMigrationImported"}, "create", "DestinationMigrationCreated")

PatchVM(v) ==
    Step(v, {"DestinationMigrationCreated"}, "patch", "DestinationMigrationPatched")

\* PrepareConnection does nothing for a guest manager that listens or that has
\* a connection, in whatever state the connection is.
PrepareConnection(v) == [v EXCEPT !.listening = @ \/ ~v.gc]

\* The listener is armed first, and stays so if the VM does not start.
StartWithMigrationOptions(v) ==
    IF v.state # "DestinationMigrationPatched" THEN Err(v)
    ELSE MayFail("start", v) \cup MayFail("start", PrepareConnection(v))
            \cup Ok([PrepareConnection(v) EXCEPT !.state = "DestinationMigrationStarted",
                                                 !.watched = TRUE])

-----------------------------------------------------------------------------
(* Both sides.                                                              *)

Streaming == {"SourceMigrationStarted", "DestinationMigrationStarted"}

StartLiveMigrationTransfer(v) ==
    Step(v, Streaming, "transfer", "MigrationTransferCompleted")

Finalizable ==
    Streaming \cup {"SourceMigrationInitialized", "DestinationMigrationCreated",
                    "DestinationMigrationPatched", "MigrationTransferCompleted"}

\* A stopped source thaws its SCSI controller, and fails if it is not frozen.
Stop(v, origin) ==
    IF origin = "Source" /\ ~v.frozen THEN Err(v)
    ELSE Ok([v EXCEPT !.state = "Terminated", !.guestMigrating = FALSE,
                      !.frozen = @ /\ origin # "Source"])

FinalizeLiveMigration(v, origin, op) ==
    IF v.state \notin Finalizable THEN Err(v)
    ELSE MayFail("finalize", v)
            \cup IF op = "Stop" THEN Stop(v, origin) ELSE Ok(To(v, "MigrationFinalized"))

\* The listener is given away before the guest is waited for.
Accept(v) ==
    LET waiting == [v EXCEPT !.listening = FALSE] IN
    MayFail("accept", waiting) \cup Ok([waiting EXCEPT !.gc = TRUE])

CreateConnection(v) ==
    IF v.gc THEN Ok(v) ELSE IF v.listening THEN Accept(v) ELSE Err(v)

ResumeConnection(v) == IF v.gc /\ v.listening THEN Accept(v) ELSE Err(v)

\* Mutant: the VM is running before the SCSI controller is thawed.
LeftFrozen(v) == Ok([v EXCEPT !.state = "Running", !.guestMigrating = FALSE])

\* Once the guest connection is back, the SCSI controller thaws, which fails if
\* it is not frozen.
Thaw(v) ==
    LET connected == [v EXCEPT !.guestMigrating = FALSE] IN
    IF ~v.frozen THEN Err(connected)
    ELSE Ok([connected EXCEPT !.frozen = FALSE, !.state = "Running"])

\* The log connection can fail before the guest connection is made and after.
ResumeVM(v, origin) ==
    IF v.state = "Running" THEN Ok(v)
    ELSE IF v.state # "MigrationFinalized" THEN Err(v)
    ELSE LET made == IF origin = "Source" THEN ResumeConnection(PrepareConnection(v))
                     ELSE CreateConnection(v)
         IN MayFail("resume", v)
            \cup UNION {IF r.err THEN {r} ELSE MayFail("resume", r.vm) \cup Thaw(r.vm) : r \in made}

\* Without a lock, so that it can interrupt a transfer.
CancelLiveMigration(v) ==
    IF v.state \in {"NotCreated", "DestinationMigrationImported"} THEN Err(v)
    ELSE MayFail("cancel", v) \cup Ok(v)

\* A destination that was only imported has no HCS handle to close.
TerminateVM(v) ==
    IF v.state \in {"Terminated", "NotCreated"} THEN Ok(v)
    ELSE IF v.state = "DestinationMigrationImported" THEN Ok(To(v, "Terminated"))
    ELSE LET released == [v EXCEPT !.guestMigrating = FALSE, !.gc = FALSE,
                                 !.listening = FALSE] IN
         MayFail("close", To(released, "Invalid")) \cup Ok(To(released, "Terminated"))

\* The VM exited, and waitForVMExit records it.
Exited(v) == To(v, "Terminated")
=============================================================================

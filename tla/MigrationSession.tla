-------------------------- MODULE MigrationSession --------------------------
(***************************************************************************)
(* What a migration session promises the orchestrator: the life cycle the  *)
(* migration package states for it, with neither VM nor goroutines.  A     *)
(* session is opened on one side, moves forward, can fail, and ends by     *)
(* being finalized.  It can be cancelled at any time, even then: a session *)
(* that was finalized may have to be so once more, but is never again open *)
(* to a transfer.                                                          *)
(***************************************************************************)
CONSTANT Nobody

VARIABLES
    phase,   \* the phase of the session
    side     \* the side it was opened on

session == <<phase, side>>

Forward ==
    {<<"SourcePrepared", "SourceExported">>, <<"DestinationImported", "DestinationPrepared">>,
     <<"SocketWaiting", "SocketReady">>, <<"SocketReady", "Transferring">>,
     <<"Transferring", "TransferCompleted">>}
    \cup {"SourceExported", "DestinationPrepared"} \X {"SocketWaiting", "SocketReady"}

Open == {from[1] : from \in Forward}

Init == phase = "Idle" /\ side = Nobody

Begin ==
    /\ phase = "Idle"
    /\ \/ phase' = "SourcePrepared" /\ side' = "Source"
       \/ phase' = "DestinationImported" /\ side' = "Destination"

Advance ==
    /\ \E step \in Forward : phase = step[1] /\ phase' = step[2]
    /\ UNCHANGED side

Fail == phase \in Open /\ phase' = "Failed" /\ UNCHANGED side

\* A destination that has only imported has nothing to abort.  The transfer's
\* own failure may show while the abort runs.
Cancel ==
    /\ \/ /\ phase \in Open \cup {"TransferCompleted", "Failed", "Finalized"}
          /\ phase' = "Cancelling"
       \/ phase = "DestinationImported" /\ phase' = "Cancelled"
       \/ phase \in {"Cancelling", "Failed"} /\ phase' \in {"Cancelled", "Failed"}
    /\ UNCHANGED side

Finalize ==
    /\ phase \in {"TransferCompleted", "Failed", "Cancelled"}
    /\ phase = "Cancelled" => side = "Source"
    /\ phase' = "Finalized"
    /\ UNCHANGED side

Cleanup ==
    /\ phase = "Finalized" \/ (phase = "Cancelled" /\ side = "Destination")
    /\ phase' = "Idle" /\ side' = Nobody

Next == Begin \/ Advance \/ Fail \/ Cancel \/ Finalize \/ Cleanup

Spec == Init /\ [][Next]_session
=============================================================================

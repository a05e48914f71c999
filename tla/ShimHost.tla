------------------------------ MODULE ShimHost ------------------------------
(***************************************************************************)
(* The runhcs shim beside the handles it drives its utility VM and its     *)
(* processes with.  The tasks see the VM through Wait, Terminate and Close *)
(* only, and RunhcsShim lets it exit or be closed at any time: a behaviour *)
(* is of the tasks or of the handles.                                      *)
(***************************************************************************)
EXTENDS RunhcsShim, HcsSystem

VARIABLE used

shimVars == <<vars, hcsVars, failing, used>>

\* The half that is not used stays in one of its initial states.
ShimInit ==
    /\ Init /\ HcsInit
    /\ \/ used = "tasks" /\ failing = {} /\ \A h \in Handles : life[h] = "new"
       \/ used = "handles" /\ kind = CHOOSE k \in Kinds : TRUE

ShimNext ==
    \/ used = "tasks" /\ Next /\ UNCHANGED <<hcsVars, failing, used>>
    \/ used = "handles" /\ HcsNext /\ UNCHANGED <<vars, used>>

ShimSpec == ShimInit /\ [][ShimNext]_shimVars /\ WF_vars(Background) /\ HcsFairness

-----------------------------------------------------------------------------
(* Properties.                                                              *)

\* An exit that is reported has happened as it is reported: of an exec and a
\* task to containerd, of a compute system or a process to those who wait on
\* its handle.
ExitsAreReal == StatusesAreReal /\ WaitIsTrue

\* What is being closed gets closed: a task, so that waits and deletes of it
\* return, and the handles of a VM and of a process; and those who wait for a VM
\* hear of its exit.  Each condition, once broken, stays so until what it asks
\* for is done: to be met again and again is to be done every time.
EverythingCloses == []<>(TasksClosed /\ HandlesClosed /\ WaitsReturn)
=============================================================================

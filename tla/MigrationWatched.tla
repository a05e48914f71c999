-------------------------- MODULE MigrationWatched --------------------------
(***************************************************************************)
(* The migration controller with its goroutines (Migration), and the       *)
(* streams that tell of a session (Notifications, over the life cycle that *)
(* Migration implements).  The notifier never holds up a session, so one   *)
(* of the two runs.                                                        *)
(***************************************************************************)
EXTENDS Migration, Notifications

VARIABLE watched    \* which

WatchedInit ==
    /\ watched \in BOOLEAN /\ Init /\ NotifyInit
    /\ watched => vm.state = "Running"

WatchedNext ==
    \/ ~watched /\ Next /\ UNCHANGED <<watched, notifyVars>>
    \/ watched /\ NotifyNext /\ UNCHANGED <<watched, vars>>

WatchedSpec == WatchedInit /\ [][WatchedNext]_<<watched, vars, notifyVars>>
=============================================================================

----------------------------- MODULE GcsBridge -----------------------------
(***************************************************************************)
(* The two bridges over their connections, around a live migration: the    *)
(* source's bridge, with waits for processes outstanding, loses its        *)
(* connection and is given another; or the destination connects to a guest *)
(* that still owes the source answers, and takes those answers over.       *)
(***************************************************************************)
EXTENDS HostBridge, GuestBridge

CONSTANTS
    Sides,        \* the sides of the migration to start from
    MaxWindows,   \* bound on the migration windows of the source's bridge
    WaitID,       \* wait -> the id of its request on the source
    SourceNextID, \* the source's next id
    Opening       \* the containers and waits that the destination opens, in order

ASSUME SidesAssumption == Sides \subseteq {"source", "destination"} /\ MaxWindows \in Nat

\* Id 0 was the source's NegotiateProtocol.
ASSUME SourceAssumption ==
    /\ SourceNextID \in Nat \ {0}
    /\ WaitID \in [Waits -> 1..(SourceNextID - 1)]
    /\ \A c, d \in Waits : WaitID[c] = WaitID[d] => c = d
    /\ Opening \in Seq(Containers \cup Waits)
    /\ \A i, j \in DOMAIN Opening : Opening[i] = Opening[j] => i = j

VARIABLES
    restore,    \* where the destination's Resume is
    opening,    \* what it has still to open
    windows     \* the migration windows opened

vars == <<wire, host, guest, restore, opening, windows>>

\* The VM takes requests: it was never migrated, or all is open.
Restored == restore = "open" /\ opening = <<>>

WaitCalls == [i \in {WaitID[c] : c \in Waits} |-> CHOOSE c \in Waits : WaitID[c] = i]

Established(source) ==
    /\ conn = IF source THEN 1 ELSE 0
    /\ nextID = IF source THEN SourceNextID ELSE 0
    /\ rpcs = IF source THEN WaitCalls ELSE NoCalls
    /\ receiver = [pc |-> IF source THEN "reading" ELSE "none", conn |-> conn]
    /\ notifyChs = IF source THEN Containers ELSE {}
    /\ caller = [c \in Calls |-> IF source /\ c \in Waits THEN "waiting"
                                 ELSE IF c \in (IF source THEN Negotiates ELSE Waits) THEN "none"
                                 ELSE "offering"]
    /\ restore = IF source THEN "open" ELSE "connect"
    /\ opening = IF source THEN <<>> ELSE Opening
    /\ link = [g \in Conns |-> IF source /\ g = 1 THEN "up" ELSE "none"]
    /\ main = IF source THEN "serving" ELSE "dialing"
    /\ served = conn /\ protVer = source /\ connected = source
    /\ reader = [g \in Conns |-> IF source /\ g = 1 THEN "reading" ELSE "none"]
    /\ writer = [g \in Conns |-> IF g = conn THEN "ready" ELSE "none"]

Init ==
    /\ \E side \in Sides : Established(side = "source")
    /\ closed = FALSE /\ migrating = FALSE /\ resumeCh = FALSE
    /\ outcome = [c \in Calls |-> Pending]
    /\ sender = Idle /\ buf = <<>> /\ notified = {} /\ panicked = FALSE
    /\ toGuest = [g \in Conns |-> <<>>] /\ toHost = [g \in Conns |-> <<>>]
    /\ handler = [c \in Calls |-> IF c \in Waits
                                  THEN [pc |-> "running", id |-> WaitID[c], ok |-> TRUE]
                                  ELSE NoHandler]
    /\ queue = <<>> /\ draining = <<>>
    /\ publisher = [k \in Containers |-> "none"]
    /\ exited = {} /\ crashed = FALSE
    /\ windows = IF Restored THEN 0 ELSE MaxWindows

-----------------------------------------------------------------------------
(* The destination's Resume: connect, negotiate, seed the ids, then attach  *)
(* the containers and the processes.                                        *)

RestoreConnect ==
    /\ restore = "connect" /\ restore' = "negotiate"
    /\ \E g \in Conns : Connect(g)
    /\ UNCHANGED <<guest, opening, windows>>

\* Connect's first request; if it fails the restore does.
Negotiate ==
    /\ restore = "negotiate"
    /\ \E c \in Negotiates :
         /\ caller[c] \in {"returned", "gave up", "refused"}
         /\ restore' = IF caller[c] = "returned" /\ outcome[c].ok THEN "seed" ELSE "failed"
    /\ UNCHANGED <<wire, host, guest, opening, windows>>

Seed ==
    /\ restore = "seed" /\ restore' = "open"
    /\ SeedNextID(SourceNextID)
    /\ UNCHANGED <<wire, conn, closed, migrating, resumeCh, rpcs, caller, outcome, sender, buf,
                   receiver, notifyChs, notified, panicked, guest, opening, windows>>

Opens == restore = "open" /\ opening # <<>> /\ opening' = Tail(opening)

OpenContainer ==
    /\ Opens /\ Head(opening) \in Containers
    /\ RequestNotify(Head(opening))
    /\ restore' = IF notifyChs = None THEN "failed" ELSE "open"
    /\ UNCHANGED <<wire, conn, closed, migrating, resumeCh, rpcs, nextID, caller, outcome, sender,
                   buf, receiver, notified, panicked, guest, windows>>

OpenProcess ==
    /\ Opens /\ Head(opening) \in Waits
    /\ PreregisterRPC(WaitID[Head(opening)], Head(opening))
    /\ restore' = IF caller'[Head(opening)] = "refused" THEN "failed" ELSE "open"
    /\ UNCHANGED <<wire, conn, closed, migrating, resumeCh, nextID, outcome, sender, buf,
                   receiver, notifyChs, notified, panicked, guest, windows>>

-----------------------------------------------------------------------------

\* Callers that quiesce for a migration; the code above the bridge refuses
\* calls during one.
Migrate ==
    /\ Restored /\ ~closed
    /\ \/ ~migrating /\ windows < MaxWindows /\ windows' = windows + 1 /\ SetMigrating(TRUE)
       \/ migrating /\ SetMigrating(FALSE) /\ UNCHANGED windows
    /\ UNCHANGED <<guest, restore, opening>>

\* The VM takes requests once it is restored.
Admitted(c) == Restored \/ (c \in Negotiates /\ restore = "negotiate")

HostStep ==
    /\ \/ \E c \in Calls : Admitted(c) /\ (Refused(c) \/ Take(c))
       \/ \E c \in Calls : Return(c) \/ Timeout(c)
       \/ CloseBridge \/ Write \/ WriteFails \/ SendStops
       \/ ReadFails \/ ReceiveResponse \/ ReceiveNotification \/ Wake \/ Drain \/ ClearNotifies
       \/ \E g \in Conns : ResumeOnConn(g)
    /\ UNCHANGED <<guest, restore, opening, windows>>

\* The host accepts a connection when it connects, and when it resumes.
Listening == ~closed /\ (restore = "connect" \/ migrating)

GuestStep ==
    /\ \/ Listening /\ Dial
       \/ DrainOne \/ ServeReturns
       \/ \E g \in Conns : WriterReports(g) \/ Read(g)
       \/ \E c \in Calls : Serve(c) \/ ProcessExits(c)
       \/ \E k \in Containers : ContainerExits(k) \/ Publish(k)
    /\ UNCHANGED <<host, restore, opening, windows>>

Restore == RestoreConnect \/ Negotiate \/ Seed \/ OpenContainer \/ OpenProcess
Lost == (\E g \in Conns : Drop(g)) /\ UNCHANGED <<host, guest, restore, opening, windows>>

Next == HostStep \/ GuestStep \/ Restore \/ Migrate \/ Lost

Spec == Init /\ [][Next]_vars

-----------------------------------------------------------------------------
(* Properties.                                                              *)

\* No call is completed twice and no container's channel closed twice, whichever
\* of sendLoop, the receiver and the clean-up gets there first: closing a closed
\* channel would crash the shim.
NeverPanics == ~panicked

\* A call that sendLoop took is completed or still registered, so that somebody
\* will complete it.
NoCallLost ==
    \A c \in Calls :
        caller[c] \in {"waiting", "timed out"} /\ ~outcome[c].done
            => \E i \in DOMAIN rpcs : rpcs[i] = c

\* A call is answered by what the guest did for it, never by the answer to
\* another: on the destination the ids of new requests do not meet those of
\* the waits that were taken over.
AnsweredByOwn == \A c \in Calls : outcome[c].ok => outcome[c].of = c

-----------------------------------------------------------------------------
(* Liveness: a call that is not answered times out, a caller whose call is  *)
(* complete returns, and the receiver runs; nothing is assumed of the guest.*)

Receiver == ReadFails \/ ReceiveResponse \/ ReceiveNotification \/ Wake \/ Drain

Fairness ==
    /\ \A c \in Calls \ Waits :
         /\ WF_vars(HostStep /\ Timeout(c))
         /\ WF_vars(HostStep /\ Return(c) /\ outcome[c].done)
    /\ WF_vars(HostStep /\ Receiver)

FairSpec == Spec /\ Fairness

\* Every RPC that sendLoop took returns to its caller, with the answer or with an
\* error once its timer has killed the bridge: even if the receiver is parked for
\* a migration, or its connection was swapped out under it, and whatever the
\* guest does.
CallsReturn ==
    \A c \in Calls \ Waits :
        caller[c] \in {"waiting", "timed out"} ~> caller[c] \in {"returned", "gave up"}
=============================================================================

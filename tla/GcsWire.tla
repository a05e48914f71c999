------------------------------ MODULE GcsWire ------------------------------
(***************************************************************************)
(* The hvsock connections between the host's bridge and the guest's, one   *)
(* after the other: each time the guest's agent dials it gets the next     *)
(* one.  A connection that is closed by either side, or that a migration's *)
(* blackout drops, loses what is under way on it.                          *)
(***************************************************************************)
EXTENDS Naturals, Sequences, FiniteSets

CONSTANTS
    Calls,         \* requests the host makes of the guest
    Waits,         \* the WaitForProcess requests among them
    Cancellable,   \* those whose caller may give up (allowCancel)
    Negotiates,    \* the NegotiateProtocol request
    Containers,    \* containers of the guest
    MaxConns,      \* bound on the connections the guest gets
    None

ASSUME GcsAssumption ==
    /\ Waits \subseteq Calls /\ Cancellable \subseteq Calls \ Waits
    /\ Negotiates \subseteq Calls \ Waits
    /\ \A c, d \in Negotiates : c = d
    /\ MaxConns \in Nat \ {0}

VARIABLES
    link,       \* connection -> "none", "up" or "down"
    toGuest,    \* connection -> requests under way
    toHost      \* connection -> responses and notifications under way

wire == <<link, toGuest, toHost>>

\* Connection 0 is the one a migrated guest had with the source.
Conns == 0..MaxConns
Request(id, c, bad) == [id |-> id, call |-> c, bad |-> bad]
Response(id, c, ok) == [type |-> "response", id |-> id, of |-> c, ok |-> ok]
Notification(k) == [type |-> "notify", id |-> 0, of |-> k, ok |-> TRUE]

Up(g) == g \in Conns /\ link[g] = "up"

\* The connections of gs are closed, and what is under way on them is lost.
Shut(gs) ==
    /\ link' = [g \in Conns |-> IF g \in gs THEN "down" ELSE link[g]]
    /\ toGuest' = [g \in Conns |-> IF g \in gs THEN <<>> ELSE toGuest[g]]
    /\ toHost' = [g \in Conns |-> IF g \in gs THEN <<>> ELSE toHost[g]]

\* A blackout, or a crash of the other end, drops the connection.
Drop(g) == Up(g) /\ Shut({g})
=============================================================================

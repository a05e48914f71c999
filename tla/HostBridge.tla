----------------------------- MODULE HostBridge -----------------------------
(***************************************************************************)
(* The host's end of the guest connection (internal/gcs): the bridge that  *)
(* multiplexes requests over one hvsock connection and the notification    *)
(* table of the GuestConnection above it.                                  *)
(*                                                                         *)
(* Three kinds of goroutine share the bridge: the callers inside AsyncRPC  *)
(* and RPC, sendLoop, and recvLoopRoutine.  Each critical section of       *)
(* bridge.mu is a step, and so is each read from or write to the           *)
(* connection.  rpcCh is unbuffered: sendLoop takes a call in the step in  *)
(* which its caller hands it over.  While migrating is set a lost          *)
(* connection parks the receiver, and ResumeOnConn swaps a new one in.     *)
(***************************************************************************)
EXTENDS GcsWire

VARIABLES
    conn,       \* the connection in brdg.conn
    closed,     \* brdg.closed, and waitCh
    migrating,
    resumeCh,   \* the wake-up in the buffered channel
    rpcs,       \* id -> call
    nextID,
    caller,     \* call -> where its caller is
    outcome,    \* call -> how complete was called: what was answered, or an error
    sender,     \* where sendLoop is, and the call it holds
    buf,        \* the id and call of messages that a failed write left in sendLoop's buffer
    receiver,   \* where recvLoopRoutine is, and the connection recvLoop reads
    notifyChs,  \* the containers registered; None once cleared
    notified,   \* the containers whose notification channel is closed
    panicked    \* a channel was closed twice

host == <<conn, closed, migrating, resumeCh, rpcs, nextID, caller, outcome, sender, buf,
          receiver, notifyChs, notified, panicked>>

Pending == [ok |-> FALSE, of |-> None, done |-> FALSE]
Failed == [ok |-> FALSE, of |-> None, done |-> TRUE]
Answered(m) == [ok |-> m.ok, of |-> m.of, done |-> TRUE]

Idle == [pc |-> "idle", call |-> None, id |-> 0]
NoCalls == [i \in {} |-> None]
Registered(id) == id \in DOMAIN rpcs
Enter(id, c) == [i \in DOMAIN rpcs \cup {id} |-> IF i = id THEN c ELSE rpcs[i]]
Without(id) == [i \in DOMAIN rpcs \ {id} |-> rpcs[i]]

\* The receiver's last act makes the table nil.
Drained == receiver.pc = "done"

\* rpc.complete for the calls of cs: it closes the call's channel.
Complete(cs, how) ==
    /\ outcome' = [c \in Calls |-> IF c \in cs THEN how ELSE outcome[c]]
    /\ panicked' = (panicked \/ \E c \in cs : outcome[c].done)

-----------------------------------------------------------------------------
(* Callers: AsyncRPC offers the call to sendLoop; RPC then waits for it.    *)

\* The bridge is closed, or the caller's context is done, before sendLoop came;
\* every caller has a context here, whether or not it may give up later.
Refused(c) ==
    /\ caller[c] = "offering"
    /\ caller' = [caller EXCEPT ![c] = "refused"]
    /\ UNCHANGED <<wire, conn, closed, migrating, resumeCh, rpcs, nextID, outcome, sender, buf,
                   receiver, notifyChs, notified, panicked>>

\* A caller that may be cancelled leaves the call behind, answered or not.
Return(c) ==
    /\ \/ /\ caller[c] \in {"waiting", "timed out"} /\ outcome[c].done
          /\ caller' = [caller EXCEPT ![c] = "returned"]
       \/ /\ caller[c] = "waiting" /\ c \in Cancellable
          /\ caller' = [caller EXCEPT ![c] = "gave up"]
    /\ UNCHANGED <<wire, conn, closed, migrating, resumeCh, rpcs, nextID, outcome, sender, buf,
                   receiver, notifyChs, notified, panicked>>

\* kill: the first caller closes the connection and waitCh.
Kill ==
    /\ closed' = TRUE
    /\ IF closed THEN UNCHANGED wire ELSE Shut({conn})

\* RPC's timer kills the bridge and goes on waiting for the call; a wait for a
\* process is an AsyncRPC and has no timer.
Timeout(c) ==
    /\ caller[c] = "waiting" /\ c \notin Waits /\ ~outcome[c].done
    /\ Kill
    /\ caller' = [caller EXCEPT ![c] = "timed out"]
    /\ UNCHANGED <<conn, migrating, resumeCh, rpcs, nextID, outcome, sender, buf, receiver,
                   notifyChs, notified, panicked>>

CloseBridge ==
    /\ conn # 0 /\ ~closed
    /\ Kill
    /\ UNCHANGED <<conn, migrating, resumeCh, rpcs, nextID, caller, outcome, sender, buf,
                   receiver, notifyChs, notified, panicked>>

-----------------------------------------------------------------------------
(* sendLoop.                                                                *)

\* sendRPC registers the call under the next id, unless the receiver is gone.
Take(c) ==
    /\ conn # 0 /\ sender = Idle /\ caller[c] = "offering"
    /\ caller' = [caller EXCEPT ![c] = "waiting"]
    /\ \/ /\ Drained
          /\ Complete({c}, Failed)
          /\ UNCHANGED <<rpcs, nextID, sender>>
       \/ /\ ~Drained
          /\ rpcs' = Enter(nextID, c)
          /\ nextID' = nextID + 1
          /\ sender' = [pc |-> "writing", call |-> c, id |-> nextID]
          /\ UNCHANGED <<outcome, panicked>>
    /\ UNCHANGED <<wire, conn, closed, migrating, resumeCh, buf, receiver, notifyChs, notified>>

\* The message follows what an earlier failure left in the buffer, whose header
\* it inherits: its guest reads one malformed request with the stale id.
OnTheWire ==
    IF buf = <<>> THEN Request(sender.id, sender.call, FALSE)
    ELSE Request(Head(buf).id, Head(buf).call, TRUE)

Write ==
    /\ sender.pc = "writing"
    /\ \/ /\ Up(conn)
          /\ toGuest' = [toGuest EXCEPT ![conn] = Append(@, OnTheWire)]
          /\ sender' = Idle /\ buf' = <<>>
       \/ /\ ~Up(conn)
          /\ sender' = [sender EXCEPT !.pc = "failing"]
          /\ buf' = Append(buf, [id |-> sender.id, call |-> sender.call])
          /\ UNCHANGED toGuest
    /\ UNCHANGED <<link, toHost, conn, closed, migrating, resumeCh, rpcs, nextID, caller, outcome,
                   receiver, notifyChs, notified, panicked>>

\* Mutant: the failed call is completed whoever holds it.
AlwaysReclaims == TRUE
Reclaims == Registered(sender.id)

\* The call is taken back and failed, unless the receiver has completed it.
\* Outside a migration the bridge dies with the write.
WriteFails ==
    /\ sender.pc = "failing"
    /\ IF Reclaims THEN Complete({sender.call}, Failed) ELSE UNCHANGED <<outcome, panicked>>
    /\ rpcs' = IF Registered(sender.id) THEN Without(sender.id) ELSE rpcs
    /\ IF migrating THEN sender' = Idle /\ UNCHANGED <<closed, wire>>
       ELSE sender' = [Idle EXCEPT !.pc = "stopped"] /\ Kill
    /\ UNCHANGED <<conn, migrating, resumeCh, nextID, caller, buf, receiver, notifyChs, notified>>

SendStops ==
    /\ closed /\ sender = Idle
    /\ sender' = [Idle EXCEPT !.pc = "stopped"]
    /\ UNCHANGED <<wire, conn, closed, migrating, resumeCh, rpcs, nextID, caller, outcome, buf,
                   receiver, notifyChs, notified, panicked>>

-----------------------------------------------------------------------------
(* recvLoopRoutine and recvLoop.                                            *)

\* recvLoop returned: the receiver waits for a new connection if the bridge is
\* migrating, and otherwise kills the bridge.
LoopEnds ==
    /\ receiver' = [receiver EXCEPT !.pc = IF migrating THEN "parked" ELSE "draining"]
    /\ IF migrating THEN UNCHANGED <<closed, link, toGuest>>
       ELSE /\ closed' = TRUE
            /\ link' = IF closed THEN link ELSE [link EXCEPT ![conn] = "down"]
            /\ toGuest' = IF closed THEN toGuest ELSE [toGuest EXCEPT ![conn] = <<>>]

ReadFails ==
    /\ receiver.pc = "reading" /\ ~Up(receiver.conn)
    /\ LoopEnds
    /\ UNCHANGED <<toHost, conn, migrating, resumeCh, rpcs, nextID, caller, outcome, sender, buf,
                   notifyChs, notified, panicked>>

Receive ==
    /\ receiver.pc = "reading" /\ Up(receiver.conn) /\ toHost[receiver.conn] # <<>>
    /\ toHost' = [toHost EXCEPT ![receiver.conn] = Tail(@)]

Incoming == Head(toHost[receiver.conn])

\* A response to an id nobody waits for ends the loop, and so does one that
\* cannot be unmarshalled, once its call is failed.
ReceiveResponse ==
    /\ Receive /\ Incoming.type = "response"
    /\ \/ /\ Registered(Incoming.id)
          /\ rpcs' = Without(Incoming.id)
          /\ Complete({rpcs[Incoming.id]}, Answered(Incoming))
          /\ UNCHANGED <<closed, link, toGuest, receiver>>
       \/ /\ Registered(Incoming.id)
          /\ rpcs' = Without(Incoming.id)
          /\ Complete({rpcs[Incoming.id]}, Failed)
          /\ LoopEnds
       \/ /\ ~Registered(Incoming.id)
          /\ LoopEnds
          /\ UNCHANGED <<rpcs, outcome, panicked>>
    /\ UNCHANGED <<conn, migrating, resumeCh, nextID, caller, sender, buf, notifyChs, notified>>

\* GuestConnection.notify: a container nobody registered ends the loop, and so
\* does a notification that cannot be unmarshalled.
ReceiveNotification ==
    /\ Receive /\ Incoming.type = "notify"
    /\ \/ /\ notifyChs # None /\ Incoming.of \in notifyChs
          /\ notifyChs' = notifyChs \ {Incoming.of}
          /\ notified' = notified \cup {Incoming.of}
          /\ panicked' = (panicked \/ Incoming.of \in notified)
          /\ UNCHANGED <<closed, link, toGuest, receiver>>
       \/ /\ LoopEnds
          /\ UNCHANGED <<notifyChs, notified, panicked>>
    /\ UNCHANGED <<conn, migrating, resumeCh, rpcs, nextID, caller, outcome, sender, buf>>

\* Mutant: the parked receiver waits for a connection only.
WakesToResume ==
    /\ receiver.pc = "parked" /\ resumeCh
    /\ resumeCh' = FALSE /\ receiver' = [pc |-> "reading", conn |-> conn]
    /\ UNCHANGED <<wire, conn, closed, migrating, rpcs, nextID, caller, outcome, sender, buf,
                   notifyChs, notified, panicked>>

\* The parked receiver goes on with the connection that was swapped in, or
\* leaves with the bridge.
Wake ==
    /\ receiver.pc = "parked"
    /\ \/ resumeCh /\ resumeCh' = FALSE /\ receiver' = [pc |-> "reading", conn |-> conn]
       \/ closed /\ receiver' = [receiver EXCEPT !.pc = "draining"] /\ UNCHANGED resumeCh
    /\ UNCHANGED <<wire, conn, closed, migrating, rpcs, nextID, caller, outcome, sender, buf,
                   notifyChs, notified, panicked>>

\* Mutant: the receiver leaves the calls to their own devices.
Abandoned == {}
Outstanding == {rpcs[i] : i \in DOMAIN rpcs}

Drain ==
    /\ receiver.pc = "draining"
    /\ Complete(Outstanding, Failed)
    /\ rpcs' = NoCalls
    /\ receiver' = [receiver EXCEPT !.pc = "done"]
    /\ UNCHANGED <<wire, conn, closed, migrating, resumeCh, nextID, caller, sender, buf,
                   notifyChs, notified>>

\* The goroutine Connect leaves behind clears the notifications with the bridge.
ClearNotifies ==
    /\ closed /\ notifyChs # None
    /\ notified' = notified \cup notifyChs
    /\ panicked' = (panicked \/ notifyChs \cap notified # {})
    /\ notifyChs' = None
    /\ UNCHANGED <<wire, conn, closed, migrating, resumeCh, rpcs, nextID, caller, outcome, sender,
                   buf, receiver>>

-----------------------------------------------------------------------------
(* Live migration.                                                          *)

SetMigrating(b) ==
    /\ conn # 0 /\ migrating # b
    /\ migrating' = b
    /\ UNCHANGED <<wire, conn, closed, resumeCh, rpcs, nextID, caller, outcome, sender, buf,
                   receiver, notifyChs, notified, panicked>>

ClosesOld(g) == Shut({conn})

\* ResumeOnConn with the connection the guest has just dialled.
ResumeOnConn(g) ==
    /\ conn \in 1..(g - 1) /\ Up(g)
    /\ \/ /\ closed \/ ~migrating
          /\ Shut({g})
          /\ UNCHANGED <<conn, resumeCh>>
       \/ /\ ~closed /\ migrating
          /\ ClosesOld(g)
          /\ conn' = g
          /\ resumeCh' = TRUE
    /\ UNCHANGED <<closed, migrating, rpcs, nextID, caller, outcome, sender, buf, receiver,
                   notifyChs, notified, panicked>>

\* The destination's Connect: a new bridge on the connection the guest dialled.
Connect(g) ==
    /\ conn = 0 /\ Up(g)
    /\ conn' = g
    /\ receiver' = [pc |-> "reading", conn |-> g]
    /\ UNCHANGED <<wire, closed, migrating, resumeCh, rpcs, nextID, caller, outcome, sender, buf,
                   notifyChs, notified, panicked>>

\* Mutant: the destination numbers its requests from the start.
Unseeded(next) == UNCHANGED nextID
SeedNextID(next) == nextID' = IF next > nextID THEN next ELSE nextID

\* PreregisterRPC puts an outstanding wait of the source under its old id.
PreregisterRPC(id, c) ==
    /\ \/ /\ Drained \/ Registered(id)
          /\ caller' = [caller EXCEPT ![c] = "refused"]
          /\ UNCHANGED rpcs
       \/ /\ ~Drained /\ ~Registered(id)
          /\ rpcs' = Enter(id, c)
          /\ caller' = [caller EXCEPT ![c] = "waiting"]

\* requestNotify, for OpenContainer.
RequestNotify(k) ==
    notifyChs' = IF notifyChs = None THEN None ELSE notifyChs \cup {k}
=============================================================================

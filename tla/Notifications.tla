--------------------------- MODULE Notifications ---------------------------
(***************************************************************************)
(* The migration events of a VM on their way to the orchestrator: the      *)
(* callback of HCS puts them into a channel (internal/hcs/v2), the         *)
(* forwarder of the session's notifier takes them out and broadcasts them  *)
(* to the subscribers (internal/controller/migration/notifications.go),    *)
(* whose RPCs send them on.                                                *)
(*                                                                         *)
(* The session is the abstract one of MigrationSession, which Migration    *)
(* implements: the notifier sees of it that it exists, that its transfer   *)
(* fails and that it is cleaned up.  A message is its messageID.           *)
(***************************************************************************)
EXTENDS Naturals, Sequences

CONSTANTS
    Subscribers,        \* the RPCs that may subscribe, each once
    subscriberBuffer,   \* 64
    notifyBufferSize,   \* migrationNotificationBufferSize, 16
    MaxEvents,          \* bound: events of the VM
    MaxNotifiers        \* bound: sessions

ASSUME NotificationsAssumption ==
    /\ subscriberBuffer \in Nat \ {0} /\ notifyBufferSize \in Nat \ {0}
    /\ MaxEvents \in Nat /\ MaxNotifiers \in Nat

VARIABLES
    sessPhase, sessSide, \* the session
    driver,             \* the goroutine of Transfer runs
    begun,              \* sessions begun
    raised,             \* events HCS has raised
    migrationNotifyCh,  \* how many wait in the channel of the VM
    notifiers,          \* one for each session, made by the first Subscribe
    streams             \* subscriber -> its channel and what it has read

sessionVars == <<sessPhase, sessSide, driver, begun>>
notifyVars == <<sessionVars, raised, migrationNotifyCh, notifiers, streams>>

MS == INSTANCE MigrationSession WITH phase <- sessPhase, side <- sessSide, Nobody <- "nobody"

\* forwarder: where its goroutine is, "none" while there is no notifier.
NoNotifier == [messageID |-> 0, done |-> FALSE, forwarder |-> "none"]
\* of: the session.  read: the message the client was sent last, 0 if none.
NoStream == [of |-> 0, channel |-> <<>>, read |-> 0, closes |-> 0, dropped |-> FALSE]

NotifyInit ==
    /\ MS!Init /\ driver = FALSE /\ begun = 0 /\ raised = 0 /\ migrationNotifyCh = 0
    /\ notifiers = [n \in 1 .. MaxNotifiers |-> NoNotifier]
    /\ streams = [s \in Subscribers |-> NoStream]

\* The notifier of the session that is active, and the subscribers a notifier has.
Notifier == notifiers[begun]
Subscribed(n) == {s \in Subscribers : streams[s].of = n /\ streams[s].closes = 0}

-----------------------------------------------------------------------------
(* From HCS to the subscribers.                                             *)

\* dispatchMigrationEvent drops what finds the channel full.
EventRaised ==
    /\ raised < MaxEvents
    /\ raised' = raised + 1
    /\ migrationNotifyCh' = migrationNotifyCh + (IF migrationNotifyCh < notifyBufferSize THEN 1 ELSE 0)
    /\ UNCHANGED <<sessionVars, notifiers, streams>>

\* One goroutine per notifier.  Both cases of its select may be ready, and then
\* either is taken: an event may be taken after the notifier was closed.
ForwarderTakes(n) ==
    /\ notifiers[n].forwarder = "waiting" /\ migrationNotifyCh > 0
    /\ migrationNotifyCh' = migrationNotifyCh - 1
    /\ notifiers' = [notifiers EXCEPT ![n].forwarder = "holding"]
    /\ UNCHANGED <<sessionVars, raised, streams>>

ForwarderEnds(n) ==
    /\ notifiers[n].forwarder = "waiting" /\ notifiers[n].done
    /\ notifiers' = [notifiers EXCEPT ![n].forwarder = "ended"]
    /\ UNCHANGED <<sessionVars, raised, migrationNotifyCh, streams>>

\* A subscriber with a full buffer goes without the message.
Sent(stream, id) ==
    IF Len(stream.channel) < subscriberBuffer
    THEN [stream EXCEPT !.channel = Append(@, id)]
    ELSE [stream EXCEPT !.dropped = TRUE]

\* notifications.broadcast to the subscribers of a notifier that is not closed.
Broadcast(n, next) ==
    LET id == notifiers[n].messageID + 1
    IN /\ notifiers' = [notifiers EXCEPT ![n].messageID = id, ![n].forwarder = next]
       /\ streams' = [s \in Subscribers |->
             IF s \in Subscribed(n) THEN Sent(streams[s], id) ELSE streams[s]]

\* A closed notifier drops the event.
ForwarderBroadcasts(n) ==
    /\ notifiers[n].forwarder = "holding"
    /\ IF notifiers[n].done
       THEN /\ notifiers' = [notifiers EXCEPT ![n].forwarder = "ended"]
            /\ UNCHANGED streams
       ELSE Broadcast(n, "waiting")
    /\ UNCHANGED <<sessionVars, raised, migrationNotifyCh>>

-----------------------------------------------------------------------------
(* Subscribers.                                                             *)

\* Mutant: a subscriber is not shown the latest message.
NotReplayed(notifier) == <<>>

\* The latest message is replayed.
Replayed(notifier) == IF notifier.messageID = 0 THEN <<>> ELSE <<notifier.messageID>>

\* The first Subscribe makes the notifier, which needs the VM to exist.
Subscribe(s) ==
    /\ sessPhase # "Idle" /\ streams[s] = NoStream
    /\ Notifier.forwarder = "none" => sessPhase # "DestinationImported"
    /\ notifiers' = [notifiers EXCEPT ![begun].forwarder = IF @ = "none" THEN "waiting" ELSE @]
    /\ streams' = [streams EXCEPT ![s] = [NoStream EXCEPT
          !.of = begun, !.channel = Replayed(Notifier)]]
    /\ UNCHANGED <<sessionVars, raised, migrationNotifyCh>>

\* The RPC sends the next message to its client.
Read(s) ==
    /\ streams[s].channel # <<>>
    /\ streams' = [streams EXCEPT ![s].read = Head(streams[s].channel), ![s].channel = Tail(@)]
    /\ UNCHANGED <<sessionVars, raised, migrationNotifyCh, notifiers>>

\* Mutant: a stream is closed although the notifier has closed it.
ClosesAgain(s) == streams[s].of # 0

\* The goroutine of subscribe closes what is still subscribed.
StillSubscribed(s) == s \in Subscribed(streams[s].of)

\* The client goes away.
Unsubscribe(s) ==
    /\ streams[s].of # 0 /\ StillSubscribed(s)
    /\ streams' = [streams EXCEPT ![s].closes = @ + 1]
    /\ UNCHANGED <<sessionVars, raised, migrationNotifyCh, notifiers>>

-----------------------------------------------------------------------------
(* The session.                                                             *)

\* failTransfer tells the subscribers, if there ever was one; a session that is
\* cancelled swallows the failure.
TransferFails ==
    /\ driver /\ driver' = FALSE
    /\ IF sessPhase = "Cancelled" THEN UNCHANGED <<sessPhase, notifiers, streams>>
       ELSE /\ sessPhase' = "Failed"
            /\ IF Notifier.forwarder = "none" THEN UNCHANGED <<notifiers, streams>>
               ELSE Broadcast(begun, Notifier.forwarder)
    /\ UNCHANGED <<sessSide, begun, raised, migrationNotifyCh>>

TransferSucceeds ==
    /\ driver /\ sessPhase \notin {"SocketWaiting", "SocketReady"}
    /\ driver' = FALSE
    /\ sessPhase' = IF sessPhase = "Transferring" THEN "TransferCompleted" ELSE sessPhase
    /\ UNCHANGED <<sessSide, begun, raised, migrationNotifyCh, notifiers, streams>>

\* notifications.close, called by Cleanup.
CloseNotifier(n) ==
    /\ notifiers' = [notifiers EXCEPT ![n].done = TRUE]
    /\ streams' = [s \in Subscribers |->
          IF s \in Subscribed(n) THEN [streams[s] EXCEPT !.closes = @ + 1] ELSE streams[s]]

\* A session is wound down after its transfer.
SessionEnds ==
    /\ ~driver /\ MS!Cleanup
    /\ IF Notifier.forwarder = "none" THEN UNCHANGED <<notifiers, streams>>
       ELSE CloseNotifier(begun)
    /\ UNCHANGED <<driver, begun, raised, migrationNotifyCh>>

\* What else happens to the session does not concern the notifier.
SessionMoves ==
    /\ \/ MS!Begin /\ begun < MaxNotifiers /\ begun' = begun + 1 /\ UNCHANGED driver
       \/ MS!Advance /\ sessPhase # "Transferring" /\ UNCHANGED begun
          /\ driver' = (driver \/ sessPhase' \in {"SocketWaiting", "Transferring"})
       \/ MS!Fail /\ ~driver /\ UNCHANGED <<driver, begun>>
       \/ MS!Cancel /\ UNCHANGED <<driver, begun>>
       \/ MS!Finalize /\ ~driver /\ UNCHANGED <<driver, begun>>
    /\ UNCHANGED <<raised, migrationNotifyCh, notifiers, streams>>

NotifyNext ==
    \/ EventRaised \/ TransferFails \/ TransferSucceeds \/ SessionEnds \/ SessionMoves
    \/ \E n \in 1 .. MaxNotifiers : ForwarderTakes(n) \/ ForwarderEnds(n) \/ ForwarderBroadcasts(n)
    \/ \E s \in Subscribers : Subscribe(s) \/ Read(s) \/ Unsubscribe(s)

-----------------------------------------------------------------------------
(* Properties.                                                              *)

\* The messages of a stream that wait or were read last, oldest first.
Shown(stream) == IF stream.read = 0 THEN stream.channel ELSE <<stream.read>> \o stream.channel

\* A subscriber that keeps up is shown every message from its subscription on,
\* in order and up to the latest one, the failure of the transfer among them
\* (subscribe "first replays the latest notification, then delivers every later
\* one"); one that does not keep up still sees them in order.  No stream outlives
\* its session, and no channel is closed twice.
StreamsFaithful ==
    \A s \in Subscribers :
        LET stream == streams[s]
            shown == Shown(stream)
        IN /\ stream.closes <= 1
           /\ \A i \in 1 .. Len(shown) - 1 :
                 IF stream.dropped THEN shown[i] < shown[i + 1] ELSE shown[i + 1] = shown[i] + 1
           /\ s \in Subscribed(stream.of) /\ stream.of # 0 =>
                 /\ sessPhase # "Idle" /\ stream.of = begun
                 /\ ~stream.dropped /\ Notifier.messageID > 0 =>
                       shown # <<>> /\ shown[Len(shown)] = Notifier.messageID
=============================================================================

-------------------------- MODULE GcsBridgeProofs ---------------------------
(***************************************************************************)
(* The bridge keeps its invariant, for any calls, containers, waits and    *)
(* connections.  A request id travels: from the table of calls to sendLoop *)
(* and its buffer, over the wire to a handler in the guest, and back in a  *)
(* response.  The invariant says that wherever an id is, it is with the    *)
(* one call it was given to, on the source or on the destination.          *)
(*                                                                         *)
(* First types, and how a step can move an id; then the ids, the calls,    *)
(* the containers, and the theorems.                                       *)
(***************************************************************************)
EXTENDS GcsBridge, TLAPS

-----------------------------------------------------------------------------
(* Types.                                                                   *)

Requests == [id : Nat, call : Calls, bad : BOOLEAN]
Responses == [type : {"response"}, id : Nat, of : Calls, ok : BOOLEAN]
Notifications == [type : {"notify"}, id : {0}, of : Containers, ok : {TRUE}]
Messages == Responses \cup Notifications
Leftovers == [id : Nat, call : Calls]
Senders == [pc : {"writing", "failing"}, call : Calls, id : Nat]
Outcomes == [ok : BOOLEAN, of : Calls \cup {None}, done : BOOLEAN]
Handlers == [pc : {"none", "running"}, id : Nat, ok : BOOLEAN]
Whereabouts == {"none", "offering", "waiting", "timed out", "returned", "gave up", "refused"}
Stopped == [Idle EXCEPT !.pc = "stopped"]
Receivers == [pc : {"none", "reading", "parked", "draining", "done"}, conn : Conns]

TypeOK ==
    /\ link \in [Conns -> {"none", "up", "down"}]
    /\ toGuest \in [Conns -> Seq(Requests)]
    /\ toHost \in [Conns -> Seq(Messages)]
    /\ conn \in Conns
    /\ DOMAIN rpcs \subseteq Nat /\ rpcs \in [DOMAIN rpcs -> Calls]
    /\ nextID \in Nat
    /\ caller \in [Calls -> Whereabouts]
    /\ outcome \in [Calls -> Outcomes]
    /\ sender \in Senders \cup {Idle, Stopped}
    /\ buf \in Seq(Leftovers)
    /\ receiver \in Receivers
    /\ served \in Conns
    /\ reader \in [Conns -> {"none", "reading", "failed"}]
    /\ writer \in [Conns -> {"none", "ready", "failed"}]
    /\ handler \in [Calls -> Handlers]
    /\ queue \in Seq(Containers) /\ draining \in Seq(Containers)
    /\ publisher \in [Containers -> {"none", "publishing"}]
    /\ restore \in {"connect", "negotiate", "seed", "open", "failed"}
    /\ opening \in Seq(Containers \cup Waits)

-----------------------------------------------------------------------------
(* The inductive invariant.                                                 *)

Under(s) == {s[n] : n \in DOMAIN s}

\* The places where id i is with call c.
InTable(i, c) == i \in DOMAIN rpcs /\ rpcs[i] = c
InSender(i, c) == sender.pc \in {"writing", "failing"} /\ sender.id = i /\ sender.call = c
InBuffer(i, c) == \E e \in Under(buf) : e.id = i /\ e.call = c
Requested(i, c) == \E g \in Conns : \E r \in Under(toGuest[g]) : r.id = i /\ r.call = c
InHandler(i, c) == handler[c].pc = "running" /\ handler[c].id = i
Responded(i, c) ==
    \E g \in Conns : \E m \in Under(toHost[g]) : m.type = "response" /\ m.id = i /\ m.of = c

Uses(i, c) ==
    \/ InTable(i, c) \/ InSender(i, c) \/ InBuffer(i, c)
    \/ Requested(i, c) \/ InHandler(i, c) \/ Responded(i, c)

\* An id is a wait's, from the source, or this bridge has given it out.
Owned ==
    \A i \in Nat, c \in Calls : Uses(i, c) =>
        \/ c \in Waits /\ i = WaitID[c]
        \/ i < nextID /\ \A w \in Waits : i # WaitID[w]

\* An id is with one call.
OneCall == \A i \in Nat, c, d \in Calls : Uses(i, c) /\ Uses(i, d) => c = d

\* Before the ids are seeded the destination gives out one: the negotiation's.
Numbered ==
    /\ restore = "connect" => nextID = 0
    /\ restore = "negotiate" /\ (\E c \in Negotiates : caller[c] = "offering") => nextID = 0
    /\ restore = "open" => nextID >= SourceNextID

\* A call in the table is there once, was taken, and is not complete.
Tabled ==
    /\ \A i, j \in DOMAIN rpcs : rpcs[i] = rpcs[j] => i = j
    /\ \A i \in DOMAIN rpcs : /\ ~outcome[rpcs[i]].done
                              /\ caller[rpcs[i]] \in {"waiting", "timed out", "returned", "gave up"}

\* A call that was not taken is not complete.
Untaken == \A c \in Calls : caller[c] \in {"none", "offering"} => ~outcome[c].done

\* What is still to be opened is there once, and nobody waits for it.
Unopened ==
    /\ \A m, n \in DOMAIN opening : opening[m] = opening[n] => m = n
    /\ \A n \in DOMAIN opening :
         /\ opening[n] \in Waits => caller[opening[n]] = "none"
         /\ opening[n] \notin notified
         /\ notifyChs # None => opening[n] \notin notifyChs

\* A container whose channel is closed is no longer registered.
NotifiedOnce == notifyChs # None => notifyChs \cap notified = {}

\* Each call's answer, even an error, is the guest's answer to it.
AnswerOwn == \A c \in Calls : outcome[c].of \in {c, None} /\ (outcome[c].ok => outcome[c].of = c)

Inv ==
    /\ TypeOK /\ Owned /\ OneCall /\ Numbered /\ Tabled /\ Untaken /\ Unopened /\ NotifiedOnce
    /\ AnswerOwn /\ NeverPanics /\ NoCallLost

-----------------------------------------------------------------------------
(* Sequences.                                                               *)

\* What a sequence holds once an element is appended.
LEMMA UnderAppend ==
    ASSUME NEW S, NEW s \in Seq(S), NEW e \in S
    PROVE  Append(s, e) \in Seq(S) /\ Under(Append(s, e)) = Under(s) \cup {e}
<1>1. Append(s, e) \in Seq(S)
  OBVIOUS
<1>2. /\ DOMAIN Append(s, e) = DOMAIN s \cup {Len(s) + 1}
      /\ \A n \in DOMAIN s : Append(s, e)[n] = s[n]
      /\ Append(s, e)[Len(s) + 1] = e
  OBVIOUS
<1> QED  BY <1>1, <1>2, Zenon DEF Under

\* What it holds once its head is taken.
LEMMA UnderTail ==
    ASSUME NEW S, NEW s \in Seq(S), s # <<>>
    PROVE  /\ Tail(s) \in Seq(S) /\ Head(s) \in S
           /\ Head(s) \in Under(s) /\ Under(Tail(s)) \subseteq Under(s)
<1>1. Tail(s) \in Seq(S) /\ Head(s) \in S
  OBVIOUS
<1>2. Head(s) \in Under(s)
  BY DEF Under
<1>3. \A n \in DOMAIN Tail(s) : n + 1 \in DOMAIN s /\ Tail(s)[n] = s[n + 1]
  OBVIOUS
<1> QED  BY <1>1, <1>2, <1>3, Zenon DEF Under

\* An empty sequence holds nothing.
LEMMA UnderEmpty == Under(<<>>) = {}
BY DEF Under

-----------------------------------------------------------------------------
(* Types.                                                                   *)

\* A connection that is closed keeps the types of the wire.
LEMMA ShutType ==
    ASSUME TypeOK, NEW gs, Shut(gs)
    PROVE  /\ link' \in [Conns -> {"none", "up", "down"}]
           /\ toGuest' \in [Conns -> Seq(Requests)]
           /\ toHost' \in [Conns -> Seq(Messages)]
BY DEF Shut, TypeOK

\* So does kill.
LEMMA KillType ==
    ASSUME TypeOK, Kill
    PROVE  /\ link' \in [Conns -> {"none", "up", "down"}]
           /\ toGuest' \in [Conns -> Seq(Requests)]
           /\ toHost' \in [Conns -> Seq(Messages)]
BY ShutType, Zenon DEF Kill, TypeOK, wire

\* complete keeps the type of the outcomes.
LEMMA CompleteType ==
    ASSUME TypeOK, NEW cs, NEW how \in Outcomes, Complete(cs, how)
    PROVE  outcome' \in [Calls -> Outcomes]
BY Zenon DEF Complete, TypeOK

LEMMA FailedType == Failed \in Outcomes /\ Pending \in Outcomes
BY Zenon DEF Failed, Pending, Outcomes

LEMMA EnterType ==
    ASSUME TypeOK, NEW i \in Nat, NEW c \in Calls
    PROVE  /\ DOMAIN Enter(i, c) \subseteq Nat /\ Enter(i, c) \in [DOMAIN Enter(i, c) -> Calls]
           /\ DOMAIN Enter(i, c) = DOMAIN rpcs \cup {i}
           /\ \A j \in DOMAIN rpcs \cup {i} : Enter(i, c)[j] = IF j = i THEN c ELSE rpcs[j]
BY Zenon DEF Enter, TypeOK

LEMMA WithoutType ==
    ASSUME TypeOK, NEW i
    PROVE  /\ DOMAIN Without(i) \subseteq Nat /\ Without(i) \in [DOMAIN Without(i) -> Calls]
           /\ DOMAIN Without(i) = DOMAIN rpcs \ {i}
           /\ \A j \in DOMAIN rpcs \ {i} : Without(i)[j] = rpcs[j]
BY Zenon DEF Without, TypeOK

LEMMA NoCallsType ==
    DOMAIN NoCalls = {} /\ NoCalls \in [DOMAIN NoCalls -> Calls]
BY Zenon DEF NoCalls

LEMMA IdleType ==
    Idle \in Senders \cup {Idle, Stopped} /\ Stopped \in Senders \cup {Idle, Stopped}
BY Zenon

LEMMA LoopEndsType ==
    ASSUME TypeOK, LoopEnds
    PROVE  /\ link' \in [Conns -> {"none", "up", "down"}]
           /\ toGuest' \in [Conns -> Seq(Requests)]
           /\ receiver' \in Receivers
<1>1. <<>> \in Seq(Requests)
  OBVIOUS
<1>2. toGuest' \in [Conns -> Seq(Requests)]
  BY <1>1, Zenon DEF LoopEnds, TypeOK
<1>3. link' \in [Conns -> {"none", "up", "down"}]
  BY Zenon DEF LoopEnds, TypeOK
<1>4. receiver' \in Receivers
  BY Zenon DEF LoopEnds, TypeOK, Receivers
<1> QED  BY <1>2, <1>3, <1>4, Zenon

LEMMA ReceiveType ==
    ASSUME TypeOK, Receive
    PROVE  toHost' \in [Conns -> Seq(Messages)] /\ Incoming \in Messages
           /\ Incoming \in Under(toHost[receiver.conn]) /\ receiver.conn \in Conns
<1>1. receiver.conn \in Conns /\ toHost[receiver.conn] \in Seq(Messages)
  BY Zenon DEF TypeOK, Receivers
<1>2. toHost[receiver.conn] # <<>>
  BY Zenon DEF Receive
<1>3. Tail(toHost[receiver.conn]) \in Seq(Messages) /\ Incoming \in Messages
      /\ Incoming \in Under(toHost[receiver.conn])
  BY <1>1, <1>2, UnderTail, Zenon DEF Incoming
<1> QED  BY <1>1, <1>3, Zenon DEF Receive, TypeOK

LEMMA WriterType ==
    ASSUME TypeOK, NEW g \in Conns, NEW m \in Messages, WriterTakes(g, m)
    PROVE  /\ toHost' \in [Conns -> Seq(Messages)]
           /\ writer' \in [Conns -> {"none", "ready", "failed"}]
<1>1. toHost[g] \in Seq(Messages)
  BY Zenon DEF TypeOK
<1>2. Append(toHost[g], m) \in Seq(Messages)
  BY <1>1, UnderAppend, Zenon
<1> QED  BY <1>2, Zenon DEF WriterTakes, TypeOK

LEMMA MessageTypes ==
    /\ \A i \in Nat, c \in Calls, ok \in BOOLEAN : Response(i, c, ok) \in Responses
    /\ \A k \in Containers : Notification(k) \in Notifications
    /\ \A i \in Nat, c \in Calls, bad \in BOOLEAN : Request(i, c, bad) \in Requests
BY Zenon DEF Response, Notification, Request, Responses, Notifications, Requests

LEMMA OnTheWireType ==
    ASSUME TypeOK, sender.pc = "writing"
    PROVE  /\ sender \in Senders /\ OnTheWire \in Requests
           /\ \/ OnTheWire.id = sender.id /\ OnTheWire.call = sender.call
              \/ \E e \in Under(buf) : OnTheWire.id = e.id /\ OnTheWire.call = e.call
<1>1. sender \in Senders
  BY SMTT(30) DEF TypeOK, Idle, Stopped
<1>2. sender.id \in Nat /\ sender.call \in Calls
  BY <1>1, Zenon DEF Senders
<1>3. CASE buf = <<>>
  BY <1>1, <1>2, <1>3, MessageTypes, Zenon DEF OnTheWire, Request
<1>4. CASE buf # <<>>
  <2>1. Head(buf) \in Under(buf) /\ Head(buf) \in Leftovers
    BY <1>4, UnderTail, Zenon DEF TypeOK
  <2>2. Head(buf).id \in Nat /\ Head(buf).call \in Calls
    BY <2>1, Zenon DEF Leftovers
  <2> QED  BY <1>1, <1>4, <2>1, <2>2, MessageTypes, Zenon DEF OnTheWire, Request
<1> QED  BY <1>3, <1>4, Zenon

\* Every step keeps the types.
LEMMA TypeStep ==
    ASSUME TypeOK, Next
    PROVE  TypeOK'
<1> USE GcsAssumption, SourceAssumption
<1>1. ASSUME NEW c \in Calls, Refused(c), UNCHANGED <<guest, restore, opening, windows>>
      PROVE  TypeOK'
  BY <1>1, Zenon DEF Refused, TypeOK, wire, guest, Whereabouts
<1>2. ASSUME NEW c \in Calls, Take(c), UNCHANGED <<guest, restore, opening, windows>>
      PROVE  TypeOK'
  <2>1. caller' \in [Calls -> Whereabouts]
    BY <1>2, Zenon DEF Take, TypeOK, Whereabouts
  <2>2. CASE Drained /\ Complete({c}, Failed) /\ UNCHANGED <<rpcs, nextID, sender>>
    <3>1. outcome' \in [Calls -> Outcomes]
      BY <2>2, CompleteType, FailedType, Zenon
    <3> QED  BY <1>2, <2>1, <2>2, <3>1, Zenon DEF Take, TypeOK, wire, guest
  <2>3. CASE /\ ~Drained /\ rpcs' = Enter(nextID, c) /\ nextID' = nextID + 1
             /\ sender' = [pc |-> "writing", call |-> c, id |-> nextID]
             /\ UNCHANGED <<outcome, panicked>>
    <3>1. DOMAIN rpcs' \subseteq Nat /\ rpcs' \in [DOMAIN rpcs' -> Calls]
      BY <2>3, EnterType, Zenon DEF TypeOK
    <3>2. sender' \in Senders /\ nextID' \in Nat
      BY <2>3, SMTT(30) DEF TypeOK, Senders
    <3> QED  BY <1>2, <2>1, <2>3, <3>1, <3>2, Zenon DEF Take, TypeOK, wire, guest
  <2> QED  BY <1>2, <2>2, <2>3, Zenon DEF Take
<1>3. ASSUME NEW c \in Calls, Return(c), UNCHANGED <<guest, restore, opening, windows>>
      PROVE  TypeOK'
  <2>1. \E w \in Whereabouts : caller' = [caller EXCEPT ![c] = w]
    BY <1>3, Zenon DEF Return, Whereabouts
  <2>2. caller' \in [Calls -> Whereabouts]
    BY <2>1, Zenon DEF TypeOK
  <2> QED  BY <1>3, <2>2, Zenon DEF Return, TypeOK, wire, guest
<1>4. ASSUME NEW c \in Calls, Timeout(c), UNCHANGED <<guest, restore, opening, windows>>
      PROVE  TypeOK'
  <2>1. caller' \in [Calls -> Whereabouts]
    BY <1>4, Zenon DEF Timeout, TypeOK, Whereabouts
  <2> QED  BY <1>4, <2>1, KillType, Zenon DEF Timeout, TypeOK, guest
<1>5. ASSUME CloseBridge, UNCHANGED <<guest, restore, opening, windows>>
      PROVE  TypeOK'
  BY <1>5, KillType, Zenon DEF CloseBridge, TypeOK, guest
<1>6. ASSUME Write, UNCHANGED <<guest, restore, opening, windows>>
      PROVE  TypeOK'
  <2>1. sender \in Senders /\ OnTheWire \in Requests
    BY <1>6, OnTheWireType, Zenon DEF Write
  <2>2. CASE /\ Up(conn) /\ toGuest' = [toGuest EXCEPT ![conn] = Append(@, OnTheWire)]
             /\ sender' = Idle /\ buf' = <<>>
    <3>1. toGuest[conn] \in Seq(Requests)
      BY ZenonT(40) DEF TypeOK
    <3>2. Append(toGuest[conn], OnTheWire) \in Seq(Requests)
      BY <2>1, <3>1, UnderAppend, Zenon
    <3>3. toGuest' \in [Conns -> Seq(Requests)]
      BY <2>2, <3>2, Zenon DEF TypeOK
    <3>4. buf' \in Seq(Leftovers)
      BY <2>2
    <3> QED  BY <1>6, <2>2, <3>3, <3>4, Zenon DEF Write, TypeOK, guest
  <2>3. CASE /\ sender' = [sender EXCEPT !.pc = "failing"] /\ UNCHANGED toGuest
             /\ buf' = Append(buf, [id |-> sender.id, call |-> sender.call])
    <3>1. sender' \in Senders
      BY <2>1, <2>3, Zenon DEF Senders
    <3>2. [id |-> sender.id, call |-> sender.call] \in Leftovers
      BY <2>1, Zenon DEF Senders, Leftovers
    <3>3. buf' \in Seq(Leftovers)
      BY <2>3, <3>2, UnderAppend, Zenon DEF TypeOK
    <3> QED  BY <1>6, <2>3, <3>1, <3>3, Zenon DEF Write, TypeOK, guest
  <2> QED  BY <1>6, <2>2, <2>3, Zenon DEF Write
<1>7. ASSUME WriteFails, UNCHANGED <<guest, restore, opening, windows>>
      PROVE  TypeOK'
  <2>1. outcome' \in [Calls -> Outcomes]
    BY <1>7, CompleteType, FailedType, Zenon DEF WriteFails, TypeOK
  <2>2. DOMAIN rpcs' \subseteq Nat /\ rpcs' \in [DOMAIN rpcs' -> Calls]
    BY <1>7, WithoutType, Zenon DEF WriteFails, TypeOK
  <2>3. sender' \in {Idle, Stopped}
    BY <1>7, Zenon DEF WriteFails, Stopped
  <2>4. /\ link' \in [Conns -> {"none", "up", "down"}]
        /\ toGuest' \in [Conns -> Seq(Requests)] /\ toHost' \in [Conns -> Seq(Messages)]
    BY <1>7, KillType, Zenon DEF WriteFails, TypeOK, wire
  <2> QED  BY <1>7, <2>1, <2>2, <2>3, <2>4, Zenon DEF WriteFails, TypeOK, guest
<1>8. ASSUME SendStops, UNCHANGED <<guest, restore, opening, windows>>
      PROVE  TypeOK'
  BY <1>8, Zenon DEF SendStops, TypeOK, wire, guest, Stopped
<1>9. ASSUME ReadFails, UNCHANGED <<guest, restore, opening, windows>>
      PROVE  TypeOK'
  BY <1>9, LoopEndsType, Zenon DEF ReadFails, TypeOK, guest
<1>10. ASSUME ReceiveResponse, UNCHANGED <<guest, restore, opening, windows>>
       PROVE  TypeOK'
  <2>1. toHost' \in [Conns -> Seq(Messages)] /\ Incoming \in Responses
    BY <1>10, ReceiveType, Zenon DEF ReceiveResponse, Messages, Notifications
  <2>2. CASE /\ Registered(Incoming.id) /\ rpcs' = Without(Incoming.id)
             /\ Complete({rpcs[Incoming.id]}, Answered(Incoming))
             /\ UNCHANGED <<closed, link, toGuest, receiver>>
    <3>1. Answered(Incoming) \in Outcomes
      BY <2>1, Zenon DEF Answered, Outcomes, Responses
    <3>2. outcome' \in [Calls -> Outcomes]
      BY <2>2, <3>1, CompleteType, Zenon
    <3>3. DOMAIN rpcs' \subseteq Nat /\ rpcs' \in [DOMAIN rpcs' -> Calls]
      BY <2>2, WithoutType, Zenon
    <3> QED  BY <1>10, <2>1, <2>2, <3>2, <3>3, Zenon DEF ReceiveResponse, TypeOK, guest
  <2>3. CASE LoopEnds /\ UNCHANGED <<rpcs, outcome, panicked>>
    BY <1>10, <2>1, <2>3, LoopEndsType, Zenon DEF ReceiveResponse, TypeOK, guest
  <2>4. CASE /\ Registered(Incoming.id) /\ rpcs' = Without(Incoming.id)
             /\ Complete({rpcs[Incoming.id]}, Failed) /\ LoopEnds
    <3>1. outcome' \in [Calls -> Outcomes]
      BY <2>4, FailedType, CompleteType, Zenon
    <3>2. DOMAIN rpcs' \subseteq Nat /\ rpcs' \in [DOMAIN rpcs' -> Calls]
      BY <2>4, WithoutType, Zenon
    <3> QED  BY <1>10, <2>1, <2>4, <3>1, <3>2, LoopEndsType, Zenon
             DEF ReceiveResponse, TypeOK, guest
  <2> QED  BY <1>10, <2>2, <2>3, <2>4, Zenon DEF ReceiveResponse
<1>11. ASSUME ReceiveNotification, UNCHANGED <<guest, restore, opening, windows>>
       PROVE  TypeOK'
  <2>1. toHost' \in [Conns -> Seq(Messages)]
    BY <1>11, ReceiveType, Zenon DEF ReceiveNotification
  <2>2. CASE UNCHANGED <<closed, link, toGuest, receiver>>
    BY <1>11, <2>1, <2>2, Zenon DEF ReceiveNotification, TypeOK, guest
  <2>3. CASE LoopEnds
    BY <1>11, <2>1, <2>3, LoopEndsType, Zenon DEF ReceiveNotification, TypeOK, guest
  <2> QED  BY <1>11, <2>2, <2>3, Zenon DEF ReceiveNotification
<1>12. ASSUME Wake, UNCHANGED <<guest, restore, opening, windows>>
       PROVE  TypeOK'
  <2>1. receiver' \in Receivers
    <3>1. CASE receiver' = [pc |-> "reading", conn |-> conn]
      BY <3>1, Zenon DEF TypeOK, Receivers
    <3>2. CASE receiver' = [receiver EXCEPT !.pc = "draining"]
      BY <3>2, Zenon DEF TypeOK, Receivers
    <3> QED  BY <1>12, <3>1, <3>2, Zenon DEF Wake
  <2> QED  BY <1>12, <2>1, Zenon DEF Wake, TypeOK, wire, guest
<1>13. ASSUME Drain, UNCHANGED <<guest, restore, opening, windows>>
       PROVE  TypeOK'
  <2>1. outcome' \in [Calls -> Outcomes]
    BY <1>13, CompleteType, FailedType, Zenon DEF Drain
  <2>2. DOMAIN rpcs' \subseteq Nat /\ rpcs' \in [DOMAIN rpcs' -> Calls]
    BY <1>13, NoCallsType, Zenon DEF Drain
  <2>3. receiver' \in Receivers
    BY <1>13, Zenon DEF Drain, TypeOK, Receivers
  <2> QED  BY <1>13, <2>1, <2>2, <2>3, Zenon DEF Drain, TypeOK, wire, guest
<1>14. ASSUME ClearNotifies, UNCHANGED <<guest, restore, opening, windows>>
       PROVE  TypeOK'
  BY <1>14, Zenon DEF ClearNotifies, TypeOK, wire, guest
<1>15. ASSUME NEW g \in Conns, ResumeOnConn(g), UNCHANGED <<guest, restore, opening, windows>>
       PROVE  TypeOK'
  <2>1. conn' \in Conns
    BY <1>15, Zenon DEF ResumeOnConn, TypeOK
  <2>2. /\ link' \in [Conns -> {"none", "up", "down"}]
        /\ toGuest' \in [Conns -> Seq(Requests)] /\ toHost' \in [Conns -> Seq(Messages)]
    BY <1>15, ShutType, Zenon DEF ResumeOnConn, ClosesOld
  <2> QED  BY <1>15, <2>1, <2>2, Zenon DEF ResumeOnConn, TypeOK, guest
<1>16. CASE HostStep
  BY <1>16, <1>1, <1>2, <1>3, <1>4, <1>5, <1>6, <1>7, <1>8, <1>9, <1>10, <1>11, <1>12, <1>13,
     <1>14, <1>15, Zenon DEF HostStep
<1>17. ASSUME Dial, UNCHANGED <<host, restore, opening, windows>>
       PROVE  TypeOK'
  <2>1. served' \in Conns
    <3>1. served \in Conns /\ served < MaxConns /\ served' = served + 1
      BY <1>17, Zenon DEF Dial, TypeOK
    <3> QED  BY <3>1 DEF Conns
  <2>2. queue' \in Seq(Containers) /\ draining' \in Seq(Containers)
    BY <1>17 DEF Dial, TypeOK
  <2>3. /\ link' \in [Conns -> {"none", "up", "down"}]
        /\ reader' \in [Conns -> {"none", "reading", "failed"}]
        /\ writer' \in [Conns -> {"none", "ready", "failed"}]
    BY <1>17, Zenon DEF Dial, TypeOK
  <2> QED  BY <1>17, <2>1, <2>2, <2>3, Zenon DEF Dial, TypeOK, host
<1>18. ASSUME DrainOne, UNCHANGED <<host, restore, opening, windows>>
       PROVE  TypeOK'
  <2>1. CASE /\ draining # <<>> /\ WriterTakes(served, Notification(Head(draining)))
             /\ draining' = Tail(draining) /\ UNCHANGED main
    <3>1. Head(draining) \in Containers /\ draining' \in Seq(Containers)
      BY <2>1, UnderTail, Zenon DEF TypeOK
    <3>2. Notification(Head(draining)) \in Messages
      BY <3>1, MessageTypes, Zenon DEF Messages
    <3>3. served \in Conns
      BY Zenon DEF TypeOK
    <3>4. /\ toHost' \in [Conns -> Seq(Messages)]
          /\ writer' \in [Conns -> {"none", "ready", "failed"}]
      BY <2>1, <3>2, <3>3, WriterType, Zenon
    <3> QED  BY <1>18, <2>1, <3>1, <3>4, Zenon DEF DrainOne, WriterTakes, TypeOK, host
  <2>2. CASE UNCHANGED <<draining, wire, writer>>
    BY <1>18, <2>2, Zenon DEF DrainOne, TypeOK, wire, host
  <2> QED  BY <1>18, <2>1, <2>2, Zenon DEF DrainOne
<1>19. ASSUME ServeReturns, UNCHANGED <<host, restore, opening, windows>>
       PROVE  TypeOK'
  <2>1. /\ link' \in [Conns -> {"none", "up", "down"}]
        /\ toGuest' \in [Conns -> Seq(Requests)] /\ toHost' \in [Conns -> Seq(Messages)]
    BY <1>19, ShutType, Zenon DEF ServeReturns
  <2>2. reader' \in [Conns -> {"none", "reading", "failed"}]
    BY <1>19, Zenon DEF ServeReturns, TypeOK
  <2> QED  BY <1>19, <2>1, <2>2, Zenon DEF ServeReturns, TypeOK, host
<1>20. ASSUME NEW g \in Conns, WriterReports(g), UNCHANGED <<host, restore, opening, windows>>
       PROVE  TypeOK'
  BY <1>20, ShutType, ZenonT(40) DEF WriterReports, Crash, TypeOK, host
<1>21. ASSUME NEW g \in Conns, Read(g), UNCHANGED <<host, restore, opening, windows>>
       PROVE  TypeOK'
  <2> DEFINE r == Head(toGuest[g])
  <2>1. CASE /\ Up(g) /\ toGuest[g] # <<>> /\ toGuest' = [toGuest EXCEPT ![g] = Tail(@)]
             /\ handler' = [handler EXCEPT ![r.call] = [pc |-> "running", id |-> r.id,
                                                        ok |-> Understood(r)]]
             /\ UNCHANGED reader
    <3>1. Tail(toGuest[g]) \in Seq(Requests) /\ r \in Requests
      BY <2>1, UnderTail, Zenon DEF TypeOK
    <3>2. toGuest' \in [Conns -> Seq(Requests)]
      BY <2>1, <3>1, Zenon DEF TypeOK
    <3>3. Understood(r) \in BOOLEAN
      BY Zenon DEF Understood
    <3>4. [pc |-> "running", id |-> r.id, ok |-> Understood(r)] \in Handlers
      BY <3>1, <3>3, Zenon DEF Handlers, Requests
    <3>5. handler' \in [Calls -> Handlers]
      BY <2>1, <3>4, Zenon DEF TypeOK
    <3> QED  BY <1>21, <2>1, <3>2, <3>5, Zenon DEF Read, TypeOK, host
  <2>2. CASE /\ reader' = [reader EXCEPT ![g] = "failed"] /\ UNCHANGED <<toGuest, handler>>
    BY <1>21, <2>2, Zenon DEF Read, TypeOK, host
  <2> QED  BY <1>21, <2>1, <2>2, Zenon DEF Read
<1>22. ASSUME NEW c \in Calls, Serve(c), UNCHANGED <<host, restore, opening, windows>>
       PROVE  TypeOK'
  <2>1. handler[c] \in Handlers /\ served \in Conns
    BY Zenon DEF TypeOK
  <2>2. Response(handler[c].id, c, handler[c].ok) \in Messages
    BY <2>1, MessageTypes, Zenon DEF Messages, Handlers
  <2>3. /\ toHost' \in [Conns -> Seq(Messages)]
        /\ writer' \in [Conns -> {"none", "ready", "failed"}]
    BY <1>22, <2>1, <2>2, WriterType, Zenon DEF Serve, ResponseChan
  <2>4. handler' \in [Calls -> Handlers]
    BY <1>22, Zenon DEF Serve, TypeOK, NoHandler, Handlers
  <2> QED  BY <1>22, <2>3, <2>4, Zenon DEF Serve, WriterTakes, TypeOK, host
<1>23. ASSUME NEW c \in Calls, ProcessExits(c), UNCHANGED <<host, restore, opening, windows>>
       PROVE  TypeOK'
  BY <1>23, Zenon DEF ProcessExits, TypeOK, wire, host
<1>24. ASSUME NEW k \in Containers, ContainerExits(k), UNCHANGED <<host, restore, opening, windows>>
       PROVE  TypeOK'
  <2>1. queue' \in Seq(Containers)
    <3>1. queue \in Seq(Containers) /\ queue' \in {queue, Append(queue, k)}
      BY <1>24, Zenon DEF ContainerExits, TypeOK
    <3>2. Append(queue, k) \in Seq(Containers)
      BY <1>24, <3>1
    <3> QED  BY <3>1, <3>2, Zenon
  <2>2. publisher' \in [Containers -> {"none", "publishing"}]
    BY <1>24, Zenon DEF ContainerExits, TypeOK
  <2> QED  BY <1>24, <2>1, <2>2, Zenon DEF ContainerExits, TypeOK, wire, host
<1>25. ASSUME NEW k \in Containers, Publish(k), UNCHANGED <<host, restore, opening, windows>>
       PROVE  TypeOK'
  <2>1. Notification(k) \in Messages /\ served \in Conns
    BY MessageTypes, Zenon DEF Messages, TypeOK
  <2>2. /\ toHost' \in [Conns -> Seq(Messages)]
        /\ writer' \in [Conns -> {"none", "ready", "failed"}]
    BY <1>25, <2>1, WriterType, Zenon DEF Publish
  <2> QED  BY <1>25, <2>2, Zenon DEF Publish, WriterTakes, TypeOK, host
<1>26. CASE GuestStep
  BY <1>26, <1>17, <1>18, <1>19, <1>20, <1>21, <1>22, <1>23, <1>24, <1>25, Zenon DEF GuestStep
<1>27. CASE RestoreConnect
  <2>1. PICK g \in Conns : Connect(g)
    BY <1>27, Zenon DEF RestoreConnect
  <2>2. conn' \in Conns /\ receiver' \in Receivers
    BY <2>1, Zenon DEF Connect, Receivers
  <2> QED  BY <1>27, <2>1, <2>2, Zenon DEF RestoreConnect, Connect, TypeOK, wire, guest
<1>28. CASE Negotiate
  BY <1>28, Zenon DEF Negotiate, TypeOK, wire, host, guest
<1>29. CASE Seed
  BY <1>29, Zenon DEF Seed, SeedNextID, TypeOK, wire, guest
<1>30. CASE OpenContainer
  <2>1. opening' \in Seq(Containers \cup Waits)
    BY <1>30, UnderTail, Zenon DEF OpenContainer, Opens, TypeOK
  <2> QED  BY <1>30, <2>1, Zenon DEF OpenContainer, TypeOK, wire, guest
<1>31. CASE OpenProcess
  <2> DEFINE c == Head(opening)
  <2>1. opening' \in Seq(Containers \cup Waits)
    BY <1>31, UnderTail, Zenon DEF OpenProcess, Opens, TypeOK
  <2>2. c \in Calls /\ WaitID[c] \in Nat /\ PreregisterRPC(WaitID[c], c)
    BY <1>31 DEF OpenProcess
  <2> HIDE DEF c
  <2>3. caller' \in [Calls -> Whereabouts]
    BY <2>2, Zenon DEF PreregisterRPC, TypeOK, Whereabouts
  <2>4. DOMAIN rpcs' \subseteq Nat /\ rpcs' \in [DOMAIN rpcs' -> Calls]
    <3>1. CASE UNCHANGED rpcs
      BY <3>1, Zenon DEF TypeOK
    <3>2. CASE rpcs' = Enter(WaitID[c], c)
      BY <2>2, <3>2, EnterType, Zenon
    <3> QED  BY <2>2, <3>1, <3>2, Zenon DEF PreregisterRPC
  <2> QED  BY <1>31, <2>1, <2>3, <2>4, Zenon DEF OpenProcess, TypeOK, wire, guest
<1>32. CASE Migrate
  BY <1>32, ZenonT(40) DEF Migrate, SetMigrating, TypeOK, wire, guest
<1>33. CASE Lost
  BY <1>33, ShutType, Zenon DEF Lost, Drop, TypeOK, host, guest
<1> QED
  BY <1>16, <1>26, <1>27, <1>28, <1>29, <1>30, <1>31, <1>32, <1>33, Zenon DEF Next, Restore

-----------------------------------------------------------------------------
(* The ids on their way.                                                    *)

\* Nothing is added to what is under way to the guest, or to the host.
LessToGuest == \A g \in Conns : Under(toGuest[g])' \subseteq Under(toGuest[g])
LessToHost == \A g \in Conns : Under(toHost[g])' \subseteq Under(toHost[g])

\* Closing connections only loses what is under way.
LEMMA ShutLess ==
    ASSUME TypeOK, NEW gs, Shut(gs)
    PROVE  LessToGuest /\ LessToHost
BY UnderEmpty, Zenon DEF Shut, LessToGuest, LessToHost

LEMMA SameLess ==
    /\ UNCHANGED toGuest => LessToGuest
    /\ UNCHANGED toHost => LessToHost
BY Zenon DEF LessToGuest, LessToHost

LEMMA KillLess ==
    ASSUME TypeOK, Kill
    PROVE  LessToGuest /\ LessToHost
BY ShutLess, SameLess, Zenon DEF Kill, wire

LEMMA LoopEndsLess ==
    ASSUME TypeOK, LoopEnds
    PROVE  LessToGuest
<1>1. CASE UNCHANGED toGuest
  BY <1>1, SameLess, Zenon
<1>2. CASE toGuest' = [toGuest EXCEPT ![conn] = <<>>]
  BY <1>2, UnderEmpty, Zenon DEF LessToGuest, TypeOK
<1> QED  BY <1>1, <1>2, Zenon DEF LoopEnds

LEMMA ReceiveLess ==
    ASSUME TypeOK, Receive
    PROVE  LessToHost
<1> DEFINE g == receiver.conn
<1>1. g \in Conns /\ toHost[g] \in Seq(Messages) /\ toHost[g] # <<>>
      /\ toHost' = [toHost EXCEPT ![g] = Tail(toHost[g])]
  BY ReceiveType, Zenon DEF Receive, TypeOK
<1>2. Under(Tail(toHost[g])) \subseteq Under(toHost[g])
  BY <1>1, UnderTail, Zenon
<1> HIDE DEF g
<1> QED  BY <1>1, <1>2, Zenon DEF LessToHost, TypeOK

\* What the table and the wire lose, no id gains.
LEMMA RequestedLess ==
    ASSUME LessToGuest, NEW i, NEW c
    PROVE  Requested(i, c)' => Requested(i, c)
BY Zenon DEF LessToGuest, Requested, Conns

LEMMA RespondedLess ==
    ASSUME LessToHost, NEW i, NEW c
    PROVE  Responded(i, c)' => Responded(i, c)
BY Zenon DEF LessToHost, Responded, Conns

\* The table of calls when a call is entered, and when one is taken out.
LEMMA TableEnter ==
    ASSUME NEW j, NEW d, rpcs' = Enter(j, d), NEW i, NEW c
    PROVE  InTable(i, c)' => InTable(i, c) \/ (i = j /\ c = d)
BY Zenon DEF InTable, Enter

LEMMA TableWithout ==
    ASSUME NEW j, rpcs' = Without(j), NEW i, NEW c
    PROVE  InTable(i, c)' => InTable(i, c) /\ i # j
BY Zenon DEF InTable, Without

\* The guest's writer adds at most the message it was given.
LEMMA WriterAdds ==
    ASSUME TypeOK, NEW g \in Conns, NEW m \in Messages, WriterTakes(g, m), NEW i, NEW c
    PROVE  Responded(i, c)' => Responded(i, c) \/ (m.type = "response" /\ m.id = i /\ m.of = c)
<1>1. CASE UNCHANGED toHost
  BY <1>1, SameLess, RespondedLess, Zenon
<1>2. CASE toHost' = [toHost EXCEPT ![g] = Append(@, m)]
  <2>1. toHost[g] \in Seq(Messages)
    BY Zenon DEF TypeOK
  <2>2. Under(Append(toHost[g], m)) = Under(toHost[g]) \cup {m}
    BY <2>1, UnderAppend
  <2>3. \A h \in Conns : Under(toHost[h])' \subseteq Under(toHost[h]) \cup {m}
    BY <1>2, <2>2, Zenon DEF TypeOK
  <2> QED  BY <2>3, Zenon DEF Responded, Conns
<1> QED  BY <1>1, <1>2, Zenon DEF WriterTakes

\* A call that sendLoop takes is given the next id.
GivenOut(i, c) ==
    /\ i = nextID /\ nextID' = nextID + 1 /\ rpcs'[nextID] = c
    /\ caller[c] = "offering" /\ Admitted(c)

\* A step moves ids: none is with a call it was not with before, except the id
\* given to a call that sendLoop takes, and a wait's own.
LEMMA IdsMove ==
    ASSUME TypeOK, Next, NEW i \in Nat, NEW c \in Calls, Uses(i, c)'
    PROVE  Uses(i, c) \/ GivenOut(i, c) \/ (c \in Waits /\ i = WaitID[c])
<1> DEFINE Goal == Uses(i, c) \/ GivenOut(i, c) \/ (c \in Waits /\ i = WaitID[c])
           Hosted == UNCHANGED <<guest, restore, opening, windows>>
           Guested == UNCHANGED <<host, restore, opening, windows>>
           Same == UNCHANGED <<rpcs, sender, buf, handler>>
<1> USE GcsAssumption, SourceAssumption
\* The steps that move nothing, and may lose what is under way.
<1>1. ASSUME Same, LessToGuest, LessToHost
      PROVE  Uses(i, c)
  BY <1>1, RequestedLess, RespondedLess, Zenon
     DEF Uses, InTable, InSender, InBuffer, InHandler
<1>2. ASSUME Hosted, \E d \in Calls : Refused(d) \/ Return(d)
      PROVE  Goal
  <2>1. Same /\ UNCHANGED <<toGuest, toHost>>
    BY <1>2, Zenon DEF Refused, Return, wire, guest
  <2> QED  BY <2>1, <1>1, SameLess, Zenon
<1>3. ASSUME NEW d \in Calls, Hosted, Take(d), Admitted(d)
      PROVE  Goal
  <2>1. UNCHANGED <<buf, handler, toGuest, toHost>>
    BY <1>3, Zenon DEF Take, wire, guest
  <2>2. CASE UNCHANGED <<rpcs, sender>>
    BY <2>1, <2>2, <1>1, SameLess, Zenon
  <2>3. CASE /\ rpcs' = Enter(nextID, d) /\ nextID' = nextID + 1
             /\ sender' = [pc |-> "writing", call |-> d, id |-> nextID]
    <3>1. nextID \in Nat /\ rpcs'[nextID] = d
      BY <1>3, <2>3, EnterType, Zenon DEF TypeOK
    <3>2. InTable(i, c)' => InTable(i, c) \/ (i = nextID /\ c = d)
      BY <2>3, TableEnter
    <3>3. InSender(i, c)' => i = nextID /\ c = d
      BY <2>3, Zenon DEF InSender
    <3>4. caller[d] = "offering"
      BY <1>3, Zenon DEF Take
    <3>5. LessToGuest /\ LessToHost
      BY <2>1, SameLess, Zenon
    <3>6. InBuffer(i, c)' \/ InHandler(i, c)' => Uses(i, c)
      BY <2>1, Zenon DEF Uses, InBuffer, InHandler
    <3>7. Requested(i, c)' \/ Responded(i, c)' => Uses(i, c)
      BY <3>5, RequestedLess, RespondedLess, Zenon DEF Uses
    <3>8. Uses(i, c) \/ (i = nextID /\ c = d)
      BY <3>2, <3>3, <3>6, <3>7, Zenon DEF Uses
    <3> QED  BY <1>3, <2>3, <3>1, <3>4, <3>8, Zenon DEF GivenOut
  <2> QED  BY <1>3, <2>2, <2>3, Zenon DEF Take
<1>4. ASSUME Hosted, (\E d \in Calls : Timeout(d)) \/ CloseBridge
      PROVE  Goal
  <2>1. Same /\ Kill
    BY <1>4, Zenon DEF Timeout, CloseBridge, guest
  <2> QED  BY <2>1, <1>1, KillLess, Zenon
<1>5. ASSUME Hosted, Write
      PROVE  Goal
  <2>1. UNCHANGED <<rpcs, handler, toHost>>
    BY <1>5, Zenon DEF Write, guest
  <2>2. InTable(i, c)' \/ InHandler(i, c)' \/ Responded(i, c)' => Uses(i, c)
    BY <2>1, SameLess, RespondedLess, Zenon DEF Uses, InTable, InHandler
  <2>3. /\ sender \in Senders /\ OnTheWire \in Requests
        /\ \/ OnTheWire.id = sender.id /\ OnTheWire.call = sender.call
           \/ \E e \in Under(buf) : OnTheWire.id = e.id /\ OnTheWire.call = e.call
    BY <1>5, OnTheWireType, Zenon DEF Write
  <2>4. CASE /\ toGuest' = [toGuest EXCEPT ![conn] = Append(@, OnTheWire)]
             /\ sender' = Idle /\ buf' = <<>>
    <3>1. ~InSender(i, c)'
      BY <2>4, Zenon DEF InSender, Idle
    <3>2. ~InBuffer(i, c)'
      BY <2>4, UnderEmpty, Zenon DEF InBuffer
    <3>3. conn \in Conns /\ toGuest[conn] \in Seq(Requests)
      BY Zenon DEF TypeOK
    <3>4. Under(Append(toGuest[conn], OnTheWire)) = Under(toGuest[conn]) \cup {OnTheWire}
      BY <2>3, <3>3, UnderAppend, SMTT(30)
    <3>5. \A g \in Conns : Under(toGuest[g])' \subseteq Under(toGuest[g]) \cup {OnTheWire}
      BY <2>4, <3>3, <3>4, ZenonT(40) DEF TypeOK
    <3>6. OnTheWire.id = i /\ OnTheWire.call = c => InSender(i, c) \/ InBuffer(i, c)
      BY <1>5, <2>3, Zenon DEF InSender, InBuffer, Write
    <3>7. Requested(i, c)' => Requested(i, c) \/ (OnTheWire.id = i /\ OnTheWire.call = c)
      BY <3>5, Zenon DEF Requested, Conns
    <3> QED  BY <2>2, <3>1, <3>2, <3>6, <3>7, Zenon DEF Uses
  <2>5. CASE /\ sender' = [sender EXCEPT !.pc = "failing"] /\ UNCHANGED toGuest
             /\ buf' = Append(buf, [id |-> sender.id, call |-> sender.call])
    <3> DEFINE e == [id |-> sender.id, call |-> sender.call]
    <3>1. InSender(i, c)' => InSender(i, c)
      BY <1>5, <2>3, <2>5, Zenon DEF InSender, Write, Senders
    <3>2. e \in Leftovers
      BY <2>3, Zenon DEF Senders, Leftovers
    <3>3. Under(buf)' = Under(buf) \cup {e}
      BY <2>5, <3>2, UnderAppend, SMTT(30) DEF TypeOK
    <3>4. InBuffer(i, c)' => InBuffer(i, c) \/ InSender(i, c)
      BY <1>5, <3>3 DEF InBuffer, InSender, Write
    <3>5. Requested(i, c)' => Requested(i, c)
      BY <2>5, SameLess, RequestedLess, Zenon
    <3> QED  BY <2>2, <3>1, <3>4, <3>5, Zenon DEF Uses
  <2> QED  BY <1>5, <2>4, <2>5, Zenon DEF Write
<1>6. ASSUME Hosted, WriteFails
      PROVE  Goal
  <2>1. LessToGuest /\ LessToHost
    BY <1>6, KillLess, SameLess, Zenon DEF WriteFails, wire
  <2>2. InTable(i, c)' => InTable(i, c)
    BY <1>6, TableWithout, Zenon DEF WriteFails, InTable
  <2>3. ~InSender(i, c)'
    BY <1>6 DEF WriteFails, InSender, Idle
  <2>4. UNCHANGED <<buf, handler>>
    BY <1>6, Zenon DEF WriteFails, guest
  <2>5. InBuffer(i, c)' \/ InHandler(i, c)' => Uses(i, c)
    BY <2>4, Zenon DEF Uses, InBuffer, InHandler
  <2> QED  BY <2>1, <2>2, <2>3, <2>5, RequestedLess, RespondedLess, Zenon DEF Uses
<1>7. ASSUME Hosted, SendStops
      PROVE  Goal
  <2>1. UNCHANGED <<rpcs, buf, handler, toGuest, toHost>> /\ ~InSender(i, c)'
    BY <1>7, Zenon DEF SendStops, InSender, Idle, guest, wire
  <2>2. LessToGuest /\ LessToHost
    BY <2>1, SameLess, Zenon
  <2> QED  BY <2>1, <2>2, RequestedLess, RespondedLess, Zenon
              DEF Uses, InTable, InBuffer, InHandler
<1>8. ASSUME Hosted, ReadFails \/ ReceiveNotification
      PROVE  Goal
  <2>1. Same
    BY <1>8, Zenon DEF ReadFails, ReceiveNotification, guest
  <2>2. LessToGuest
    BY <1>8, LoopEndsLess, SameLess, Zenon DEF ReadFails, ReceiveNotification
  <2>3. LessToHost
    BY <1>8, ReceiveLess, SameLess, Zenon DEF ReadFails, ReceiveNotification
  <2> QED  BY <2>1, <2>2, <2>3, <1>1, Zenon
<1>9. ASSUME Hosted, ReceiveResponse
      PROVE  Goal
  <2>1. LessToGuest /\ LessToHost
    BY <1>9, ReceiveLess, LoopEndsLess, SameLess, Zenon DEF ReceiveResponse
  <2>2. InTable(i, c)' => InTable(i, c)
    BY <1>9, TableWithout, Zenon DEF ReceiveResponse, InTable
  <2>3. UNCHANGED <<sender, buf, handler>>
    BY <1>9, Zenon DEF ReceiveResponse, guest
  <2> QED  BY <2>1, <2>2, <2>3, RequestedLess, RespondedLess, ZenonT(40)
           DEF Uses, InSender, InBuffer, InHandler
<1>10. ASSUME Hosted, Wake \/ ClearNotifies
       PROVE  Goal
  <2>1. Same /\ UNCHANGED <<toGuest, toHost>>
    BY <1>10, Zenon DEF Wake, ClearNotifies, wire, guest
  <2> QED  BY <2>1, <1>1, SameLess, Zenon
<1>11. ASSUME Hosted, Drain
       PROVE  Goal
  <2>1. UNCHANGED <<sender, buf, handler, toGuest, toHost>>
    BY <1>11, Zenon DEF Drain, guest, wire
  <2>2. ~InTable(i, c)'
    BY <1>11, NoCallsType, Zenon DEF Drain, InTable
  <2>3. LessToGuest /\ LessToHost
    BY <2>1, SameLess, Zenon
  <2> QED  BY <2>1, <2>2, <2>3, RequestedLess, RespondedLess, Zenon
           DEF Uses, InSender, InBuffer, InHandler
<1>12. ASSUME Hosted, \E g \in Conns : ResumeOnConn(g)
       PROVE  Goal
  <2>1. Same
    BY <1>12, Zenon DEF ResumeOnConn, guest
  <2> QED  BY <2>1, <1>12, <1>1, ShutLess, Zenon DEF ResumeOnConn, ClosesOld
<1>13. CASE HostStep
  BY <1>13, <1>2, <1>3, <1>4, <1>5, <1>6, <1>7, <1>8, <1>9, <1>10, <1>11, <1>12, Zenon
     DEF HostStep
<1>14. ASSUME Guested, Dial \/ (\E d \in Calls : ProcessExits(d))
                       \/ (\E k \in Containers : ContainerExits(k))
       PROVE  Goal
  <2>1. Same /\ UNCHANGED <<toGuest, toHost>>
    BY <1>14, Zenon DEF Dial, ProcessExits, ContainerExits, host, wire
  <2> QED  BY <2>1, <1>1, SameLess, Zenon
<1>15. ASSUME Guested, NEW k \in Containers, WriterTakes(served, Notification(k)),
              UNCHANGED handler
       PROVE  Goal
  <2>1. Notification(k) \in Messages /\ served \in Conns
    BY <1>15, MessageTypes, Zenon DEF Messages, TypeOK
  <2>2. Responded(i, c)' => Responded(i, c)
    BY <1>15, <2>1, WriterAdds, SMTT(30) DEF Notification
  <2>3. Same /\ UNCHANGED toGuest
    BY <1>15, Zenon DEF WriterTakes, host
  <2>4. Requested(i, c)' => Requested(i, c)
    BY <2>3, SameLess, RequestedLess, Zenon
  <2> QED  BY <2>2, <2>3, <2>4, Zenon DEF Uses, InTable, InSender, InBuffer, InHandler
<1>16. ASSUME Guested, DrainOne
       PROVE  Goal
  <2>1. CASE draining # <<>> /\ WriterTakes(served, Notification(Head(draining)))
    <3>1. Head(draining) \in Containers
      BY <2>1, UnderTail, Zenon DEF TypeOK
    <3> QED  BY <1>16, <2>1, <3>1, <1>15, Zenon DEF DrainOne
  <2>2. CASE UNCHANGED wire
    <3>1. Same /\ UNCHANGED <<toGuest, toHost>>
      BY <1>16, <2>2, Zenon DEF DrainOne, host, wire
    <3> QED  BY <3>1, <1>1, SameLess, Zenon
  <2> QED  BY <1>16, <2>1, <2>2, Zenon DEF DrainOne
<1>17. ASSUME Guested, \E k \in Containers : Publish(k)
       PROVE  Goal
  BY <1>17, <1>15, Zenon DEF Publish
<1>18. ASSUME Guested, ServeReturns \/ (\E g \in Conns : WriterReports(g))
       PROVE  Goal
  <2>1. Same
    BY <1>18, Zenon DEF ServeReturns, WriterReports, host
  <2> QED  BY <2>1, <1>18, <1>1, ShutLess, Zenon DEF ServeReturns, WriterReports, Crash
<1>19. ASSUME Guested, NEW g \in Conns, Read(g)
       PROVE  Goal
  <2> DEFINE r == Head(toGuest[g])
  <2>1. UNCHANGED <<rpcs, sender, buf, toHost>>
    BY <1>19, Zenon DEF Read, host
  <2>2. CASE UNCHANGED <<toGuest, handler>>
    BY <2>1, <2>2, <1>1, SameLess, Zenon
  <2>3. CASE /\ toGuest[g] # <<>> /\ toGuest' = [toGuest EXCEPT ![g] = Tail(@)]
             /\ handler' = [handler EXCEPT ![r.call] = [pc |-> "running", id |-> r.id,
                                                        ok |-> Understood(r)]]
    <3>1. toGuest[g] \in Seq(Requests)
      BY <1>19, ZenonT(40) DEF TypeOK
    <3>2. r \in Under(toGuest[g]) /\ Under(Tail(toGuest[g])) \subseteq Under(toGuest[g])
      BY <2>3, <3>1, UnderTail, Zenon
    <3>3. LessToGuest
      BY <1>19, <2>3, <3>2, ZenonT(40) DEF LessToGuest, TypeOK
    <3> HIDE DEF r
    <3>4. InHandler(i, c)' => InHandler(i, c) \/ (r.id = i /\ r.call = c)
      BY <2>3, SMTT(30) DEF InHandler, TypeOK
    <3>5. r.id = i /\ r.call = c => Requested(i, c)
      BY <1>19, <3>2, Zenon DEF Requested
    <3>6. Responded(i, c)' => Responded(i, c)
      BY <2>1, SameLess, RespondedLess, Zenon
    <3> QED  BY <2>1, <3>3, <3>4, <3>5, <3>6, RequestedLess, Zenon
                DEF Uses, InTable, InSender, InBuffer
  <2> QED  BY <1>19, <2>2, <2>3, ZenonT(40) DEF Read
<1>20. ASSUME Guested, NEW d \in Calls, Serve(d)
       PROVE  Goal
  <2> DEFINE m == Response(handler[d].id, d, handler[d].ok)
  <2>1. UNCHANGED <<rpcs, sender, buf, toGuest>>
    BY <1>20, Zenon DEF Serve, WriterTakes, host
  <2>2. handler[d] \in Handlers /\ served \in Conns
    BY <1>20, Zenon DEF TypeOK
  <2>3. m \in Messages
    BY <1>20, <2>2, MessageTypes, Zenon DEF Messages, Handlers
  <2>4. m.id = handler[d].id /\ m.of = d
    BY Zenon DEF Response
  <2>5. WriterTakes(served, m)
    BY <1>20, Zenon DEF Serve, ResponseChan
  <2> HIDE DEF m
  <2>6. Responded(i, c)' => Responded(i, c) \/ (m.id = i /\ m.of = c)
    BY <2>2, <2>3, <2>5, WriterAdds, Zenon
  <2>7. m.id = i /\ m.of = c => InHandler(i, c)
    BY <1>20, <2>4, ZenonT(40) DEF InHandler, Serve
  <2>8. InHandler(i, c)' => InHandler(i, c)
    BY <1>20, ZenonT(40) DEF InHandler, Serve, NoHandler, TypeOK
  <2>9. Requested(i, c)' => Requested(i, c)
    BY <2>1, SameLess, RequestedLess, Zenon
  <2> QED  BY <2>1, <2>6, <2>7, <2>8, <2>9, ZenonT(40) DEF Uses, InTable, InSender, InBuffer
<1>21. CASE GuestStep
  BY <1>21, <1>14, <1>16, <1>17, <1>18, <1>19, <1>20, Zenon DEF GuestStep
<1>22. CASE RestoreConnect \/ Negotiate \/ Seed \/ OpenContainer \/ Migrate
  <2>1. Same /\ UNCHANGED <<toGuest, toHost>>
    BY <1>22, Zenon
       DEF RestoreConnect, Connect, Negotiate, Seed, OpenContainer, Migrate, SetMigrating,
                 wire, host, guest
  <2> QED  BY <2>1, <1>1, SameLess, Zenon
<1>23. CASE OpenProcess
  <2> DEFINE d == Head(opening)
  <2>1. d \in Waits /\ WaitID[d] \in Nat /\ PreregisterRPC(WaitID[d], d)
    BY <1>23, SMTT(30) DEF OpenProcess
  <2> HIDE DEF d
  <2>2. UNCHANGED <<sender, buf, handler, toGuest, toHost>>
    BY <1>23, Zenon DEF OpenProcess, wire, guest
  <2>3. CASE UNCHANGED rpcs
    BY <2>2, <2>3, <1>1, SameLess, Zenon
  <2>4. CASE rpcs' = Enter(WaitID[d], d)
    <3>1. InTable(i, c)' => InTable(i, c) \/ (i = WaitID[d] /\ c = d)
      BY <2>4, TableEnter
    <3>2. LessToGuest /\ LessToHost
      BY <2>2, SameLess, Zenon
    <3> QED  BY <2>1, <2>2, <3>1, <3>2, RequestedLess, RespondedLess, Zenon
             DEF Uses, InSender, InBuffer, InHandler
  <2> QED  BY <2>1, <2>3, <2>4, Zenon DEF PreregisterRPC
<1>24. CASE Lost
  <2>1. Same
    BY <1>24, Zenon DEF Lost, host, guest
  <2> QED  BY <2>1, <1>24, <1>1, ShutLess, Zenon DEF Lost, Drop
<1> QED  BY <1>13, <1>21, <1>22, <1>23, <1>24, Zenon DEF Next, Restore

-----------------------------------------------------------------------------
-----------------------------------------------------------------------------
(* The steps that matter to the calls, the containers and the ids.          *)

calls == <<rpcs, nextID, caller, outcome, notifyChs, notified, panicked, opening>>

LEMMA Steps ==
    ASSUME TypeOK, Next
    PROVE  \/ UNCHANGED calls /\ UNCHANGED restore
           \/ UNCHANGED calls /\ (RestoreConnect \/ Negotiate)
           \/ /\ UNCHANGED <<opening, restore>>
              /\ \/ \E c \in Calls : \/ Refused(c) \/ (Take(c) /\ Admitted(c))
                                     \/ Return(c) \/ Timeout(c)
                 \/ WriteFails \/ ReceiveResponse \/ ReceiveNotification \/ Drain
                 \/ ClearNotifies
           \/ Seed \/ OpenContainer \/ OpenProcess
<1>1. CASE HostStep
  <2>1. UNCHANGED <<opening, restore>>
    BY <1>1, Zenon DEF HostStep
  <2>2. ASSUME CloseBridge \/ Write \/ SendStops \/ ReadFails \/ Wake
               \/ (\E g \in Conns : ResumeOnConn(g))
        PROVE  UNCHANGED calls
    BY <2>1, <2>2, Zenon DEF CloseBridge, Write, SendStops, ReadFails, Wake, ResumeOnConn, calls
  <2> QED  BY <1>1, <2>1, <2>2, Zenon DEF HostStep
<1>2. CASE GuestStep
  BY <1>2, Zenon DEF GuestStep, host, calls
<1>3. CASE RestoreConnect \/ Negotiate
  BY <1>3, Zenon DEF RestoreConnect, Connect, Negotiate, host, calls
<1>4. CASE Migrate
  BY <1>4, Zenon DEF Migrate, SetMigrating, calls
<1>5. CASE Lost
  BY <1>5, Zenon DEF Lost, host, calls
<1> QED  BY <1>1, <1>2, <1>3, <1>4, <1>5, Zenon DEF Next, Restore

\* Ids are only raised, and are seeded before a request may follow them.
LEMMA NumberedStep ==
    ASSUME TypeOK, Numbered, Next
    PROVE  Numbered' /\ nextID' >= nextID
<1> USE GcsAssumption, SourceAssumption
<1>1. nextID \in Nat
  BY Zenon DEF TypeOK
<1>2. CASE UNCHANGED calls /\ UNCHANGED restore
  BY <1>1, <1>2 DEF calls, Numbered
<1>3. CASE UNCHANGED calls /\ (RestoreConnect \/ Negotiate)
  <2>1. UNCHANGED <<nextID, caller>> /\ nextID' >= nextID
    BY <1>1, <1>3 DEF calls
  <2>2. \/ restore = "connect" /\ restore' = "negotiate"
        \/ restore' \in {"seed", "failed"}
    BY <1>3, Zenon DEF RestoreConnect, Negotiate
  <2> QED  BY <2>1, <2>2 DEF Numbered
<1>4. ASSUME NEW c \in Calls, Refused(c) \/ Return(c) \/ Timeout(c), UNCHANGED restore
      PROVE  Numbered' /\ nextID' >= nextID
  <2>1. UNCHANGED nextID /\ \A d \in Calls : caller'[d] = "offering" => caller[d] = "offering"
    BY <1>4, ZenonT(40) DEF Refused, Return, Timeout, TypeOK
  <2> QED  BY <1>1, <1>4, <2>1 DEF Numbered
<1>5. ASSUME NEW c \in Calls, Take(c), Admitted(c), UNCHANGED restore
      PROVE  Numbered' /\ nextID' >= nextID
  <2>1. nextID' \in {nextID, nextID + 1} /\ caller' = [caller EXCEPT ![c] = "waiting"]
    BY <1>5, Zenon DEF Take
  <2>2. CASE restore = "open"
    BY <1>1, <1>5, <2>1, <2>2 DEF Numbered
  <2>3. CASE c \in Negotiates /\ restore = "negotiate"
    <3>1. \A d \in Negotiates : caller'[d] # "offering"
      BY <1>5, <2>1, <2>3, Zenon DEF TypeOK
    <3> QED  BY <1>1, <1>5, <2>1, <2>3, <3>1 DEF Numbered
  <2> QED  BY <1>5, <2>2, <2>3, Zenon DEF Admitted, Restored
<1>6. ASSUME UNCHANGED restore,
             WriteFails \/ ReceiveResponse \/ ReceiveNotification \/ Drain \/ ClearNotifies
      PROVE  Numbered' /\ nextID' >= nextID
  <2>1. UNCHANGED <<nextID, caller>>
    BY <1>6, Zenon DEF WriteFails, ReceiveResponse, ReceiveNotification, Drain, ClearNotifies
  <2> QED  BY <1>1, <1>6, <2>1 DEF Numbered
<1>7. CASE Seed
  BY <1>1, <1>7 DEF Seed, SeedNextID, Numbered
<1>8. CASE OpenContainer \/ OpenProcess
  <2>1. UNCHANGED nextID /\ restore = "open" /\ restore' \in {"open", "failed"}
    BY <1>8, Zenon DEF OpenContainer, OpenProcess, Opens
  <2> QED  BY <1>1, <2>1 DEF Numbered
<1> QED  BY Steps, <1>2, <1>3, <1>4, <1>5, <1>6, <1>7, <1>8, Zenon

\* An id that is given out is nobody's: not a wait's, and not used.
LEMMA GivenOutFresh ==
    ASSUME TypeOK, Numbered, Owned, NEW i \in Nat, NEW c \in Calls, GivenOut(i, c)
    PROVE  /\ \A w \in Waits : i # WaitID[w]
           /\ \A d \in Calls : ~Uses(i, d)
<1> USE GcsAssumption, SourceAssumption
<1>1. i = nextID /\ nextID \in Nat
  BY Zenon DEF GivenOut, TypeOK
<1>2. nextID = 0 \/ nextID >= SourceNextID
  BY Zenon DEF GivenOut, Admitted, Restored, Numbered
<1>3. \A w \in Waits : WaitID[w] # 0 /\ WaitID[w] < SourceNextID /\ WaitID[w] \in Nat
  OBVIOUS
<1>4. \A w \in Waits : i # WaitID[w]
  BY <1>1, <1>2, <1>3
<1> QED  BY <1>1, <1>4 DEF Owned

\* An id stays with its call.
LEMMA OwnedStep ==
    ASSUME TypeOK, Numbered, Owned, OneCall, Next
    PROVE  Owned' /\ OneCall'
<1> USE GcsAssumption, SourceAssumption
<1>1. nextID \in Nat /\ nextID' \in Nat /\ nextID' >= nextID
  BY TypeStep, NumberedStep, Zenon DEF TypeOK
<1>2. ASSUME NEW i \in Nat, NEW c \in Calls, Uses(i, c)'
      PROVE  \/ c \in Waits /\ i = WaitID[c]
             \/ i < nextID' /\ \A w \in Waits : i # WaitID[w]
  <2>1. CASE Uses(i, c)
    BY <1>1, <1>2, <2>1, SMTT(30) DEF Owned
  <2>2. CASE GivenOut(i, c)
    BY <1>1, <1>2, <2>2, GivenOutFresh DEF GivenOut
  <2> QED  BY <1>2, <2>1, <2>2, IdsMove, Zenon
<1>3. Owned'
  BY <1>2, Zenon DEF Owned
<1>4. ASSUME NEW i \in Nat, NEW c \in Calls, NEW d \in Calls, Uses(i, c)', Uses(i, d)'
      PROVE  c = d
  <2>1. \/ Uses(i, c) \/ GivenOut(i, c) \/ (c \in Waits /\ i = WaitID[c])
    BY <1>4, IdsMove, Zenon
  <2>2. \/ Uses(i, d) \/ GivenOut(i, d) \/ (d \in Waits /\ i = WaitID[d])
    BY <1>4, IdsMove, Zenon
  <2>3. CASE Uses(i, c) /\ Uses(i, d)
    BY <1>4, <2>3, Zenon DEF OneCall
  <2>4. CASE GivenOut(i, c)
    <3>1. ~Uses(i, d) /\ ~(d \in Waits /\ i = WaitID[d])
      BY <1>4, <2>4, GivenOutFresh, Zenon
    <3> QED  BY <2>2, <2>4, <3>1, Zenon DEF GivenOut
  <2>5. CASE GivenOut(i, d)
    <3>1. ~Uses(i, c) /\ ~(c \in Waits /\ i = WaitID[c])
      BY <1>4, <2>5, GivenOutFresh, Zenon
    <3> QED  BY <2>1, <2>5, <3>1, Zenon DEF GivenOut
  <2>6. CASE c \in Waits /\ i = WaitID[c]
    <3>1. Uses(i, d) => d \in Waits /\ i = WaitID[d]
      BY <1>4, <2>6, Zenon DEF Owned
    <3> QED  BY <2>2, <2>5, <2>6, <3>1, Zenon
  <2>7. CASE d \in Waits /\ i = WaitID[d]
    <3>1. Uses(i, c) => c \in Waits /\ i = WaitID[c]
      BY <1>4, <2>7, Zenon DEF Owned
    <3> QED  BY <2>1, <2>4, <2>7, <3>1, Zenon
  <2> QED  BY <2>1, <2>2, <2>3, <2>4, <2>5, <2>6, <2>7, Zenon
<1> QED  BY <1>3, <1>4, Zenon DEF OneCall

-----------------------------------------------------------------------------
(* The calls.                                                               *)

CallsInv == Tabled /\ Untaken /\ AnswerOwn /\ NoCallLost /\ NeverPanics

LEMMA Completes ==
    ASSUME TypeOK, NEW cs \in SUBSET Calls, NEW how \in Outcomes, Complete(cs, how)
    PROVE  \A c \in Calls : outcome'[c] = IF c \in cs THEN how ELSE outcome[c]
BY Zenon DEF Complete

LEMMA CompletesOne ==
    ASSUME TypeOK, NEW d \in Calls, NEW how, Complete({d}, how)
    PROVE  \A c \in Calls : outcome'[c] = IF c = d THEN how ELSE outcome[c]
<1>1. outcome' = [c \in Calls |-> IF c \in {d} THEN how ELSE outcome[c]]
  BY Zenon DEF Complete
<1> QED  BY <1>1, Zenon

LEMMA HowCompleted ==
    /\ Failed.done /\ Failed.of = None /\ ~Failed.ok
    /\ \A m \in Responses : Answered(m).done /\ Answered(m).of = m.of /\ Answered(m).ok = m.ok
BY Zenon DEF Failed, Answered

\* A step that completes a call takes it out of the table, if it was in it: what
\* remains there is incomplete, and nobody's call is forgotten.
LEMMA CompletedStep ==
    ASSUME TypeOK, CallsInv, UNCHANGED caller,
           NEW j \in DOMAIN rpcs, NEW how \in Outcomes, how.done,
           how.of \in {rpcs[j], None}, how.ok => how.of = rpcs[j],
           rpcs' = Without(j), Complete({rpcs[j]}, how)
    PROVE  CallsInv'
<1>1. PICK d : d = rpcs[j]
  BY Zenon
<1>2. d \in Calls /\ ~outcome[d].done
      /\ caller[d] \in {"waiting", "timed out", "returned", "gave up"}
  BY <1>1, Zenon DEF TypeOK, CallsInv, Tabled
<1>3. \A c \in Calls : outcome'[c] = IF c = d THEN how ELSE outcome[c]
  BY <1>1, <1>2, CompletesOne, Zenon
<1>4. DOMAIN rpcs' = DOMAIN rpcs \ {j} /\ \A i \in DOMAIN rpcs \ {j} : rpcs'[i] = rpcs[i]
  BY WithoutType, Zenon
<1>5. \A i \in DOMAIN rpcs : rpcs[i] \in Calls /\ (rpcs[i] = d => i = j)
  BY <1>1, Zenon DEF CallsInv, Tabled, TypeOK
<1>6. Tabled'
  <2>1. \A i, k \in DOMAIN rpcs \ {j} : rpcs'[i] = rpcs'[k] => i = k
    BY <1>4, Zenon DEF CallsInv, Tabled
  <2>2. ASSUME NEW i \in DOMAIN rpcs \ {j}
        PROVE  /\ ~outcome'[rpcs'[i]].done
               /\ caller'[rpcs'[i]] \in {"waiting", "timed out", "returned", "gave up"}
    <3>1. rpcs'[i] = rpcs[i] /\ outcome'[rpcs[i]] = outcome[rpcs[i]]
      BY <1>3, <1>4, <1>5, <2>2, Zenon
    <3> QED  BY <2>2, <3>1, Zenon DEF CallsInv, Tabled
  <2> QED  BY <1>4, <2>1, <2>2, Zenon DEF Tabled
<1>7. Untaken'
  BY <1>2, <1>3, Zenon DEF CallsInv, Untaken
<1>8. AnswerOwn'
  BY <1>1, <1>3, Zenon DEF CallsInv, AnswerOwn
<1>9. NoCallLost'
  <2> SUFFICES ASSUME NEW c \in Calls, caller[c] \in {"waiting", "timed out"}, ~outcome'[c].done
               PROVE  \E i \in DOMAIN rpcs' : rpcs'[i] = c
    BY Zenon DEF NoCallLost
  <2>1. c # d /\ outcome'[c] = outcome[c]
    BY <1>3, Zenon
  <2>2. PICK i \in DOMAIN rpcs : rpcs[i] = c
    BY <2>1, Zenon DEF CallsInv, NoCallLost
  <2> QED  BY <1>1, <1>4, <2>1, <2>2, Zenon
<1>10. NeverPanics'
  BY <1>1, <1>2, Zenon DEF CallsInv, NeverPanics, Complete
<1> QED  BY <1>6, <1>7, <1>8, <1>9, <1>10, Zenon DEF CallsInv

\* A call that is entered in the table was not complete, and was in no other entry.
LEMMA EnteredStep ==
    ASSUME TypeOK, CallsInv, NEW j \in Nat, NEW d \in Calls, j \notin DOMAIN rpcs,
           caller[d] \in {"none", "offering"}, UNCHANGED <<outcome, panicked>>,
           rpcs' = Enter(j, d), caller' = [caller EXCEPT ![d] = "waiting"]
    PROVE  CallsInv'
<1>1. ~outcome[d].done /\ \A i \in DOMAIN rpcs : rpcs[i] # d /\ rpcs[i] \in Calls
  BY ZenonT(40) DEF CallsInv, Untaken, Tabled, TypeOK
<1>2. DOMAIN rpcs' = DOMAIN rpcs \cup {j} /\ rpcs'[j] = d
  BY EnterType, Zenon
<1>3. ASSUME NEW i \in DOMAIN rpcs
      PROVE  i # j /\ rpcs'[i] = rpcs[i]
  BY <1>3, Zenon DEF Enter
<1>4. \A c \in Calls : caller'[c] = IF c = d THEN "waiting" ELSE caller[c]
  BY Zenon DEF TypeOK
<1>5. Tabled'
  <2>1. \A i, k \in DOMAIN rpcs \cup {j} : rpcs'[i] = rpcs'[k] => i = k
    BY <1>1, <1>2, <1>3, ZenonT(40) DEF CallsInv, Tabled
  <2>2. ASSUME NEW i \in DOMAIN rpcs
        PROVE  /\ ~outcome'[rpcs'[i]].done
               /\ caller'[rpcs'[i]] \in {"waiting", "timed out", "returned", "gave up"}
    <3>1. rpcs'[i] = rpcs[i] /\ caller'[rpcs[i]] = caller[rpcs[i]]
      BY <1>1, <1>3, <1>4, <2>2, Zenon
    <3> QED  BY <2>2, <3>1, Zenon DEF CallsInv, Tabled
  <2>3. ~outcome'[d].done /\ caller'[d] = "waiting"
    BY <1>1, <1>4, Zenon
  <2> QED  BY <1>2, <2>1, <2>2, <2>3, Zenon DEF Tabled
<1>6. Untaken' /\ AnswerOwn'
  BY <1>4, Zenon DEF CallsInv, Untaken, AnswerOwn
<1>7. NoCallLost'
  <2> SUFFICES ASSUME NEW c \in Calls, caller'[c] \in {"waiting", "timed out"}, ~outcome[c].done
               PROVE  \E i \in DOMAIN rpcs' : rpcs'[i] = c
    BY Zenon DEF NoCallLost
  <2>1. CASE c = d
    BY <1>2, <2>1, Zenon
  <2>2. CASE c # d
    <3>1. PICK i \in DOMAIN rpcs : rpcs[i] = c
      BY <1>4, <2>2, Zenon DEF CallsInv, NoCallLost
    <3> QED  BY <1>2, <1>3, <3>1, Zenon
  <2> QED  BY <2>1, <2>2, Zenon
<1>8. NeverPanics'
  BY Zenon DEF CallsInv, NeverPanics
<1> QED  BY <1>5, <1>6, <1>7, <1>8, Zenon DEF CallsInv

\* No step completes a call twice, forgets one, or gives it another's answer.
LEMMA CallsStep ==
    ASSUME TypeOK, Numbered, Owned, OneCall, Unopened, NotifiedOnce, CallsInv, Next
    PROVE  CallsInv'
<1> USE GcsAssumption, SourceAssumption
<1>1. ASSUME UNCHANGED <<rpcs, caller, outcome, panicked>>
      PROVE  CallsInv'
  BY <1>1, Zenon DEF CallsInv, Tabled, Untaken, AnswerOwn, NoCallLost, NeverPanics
<1>2. CASE UNCHANGED calls
  BY <1>1, <1>2, Zenon DEF calls
<1>3. ASSUME NEW c \in Calls, Refused(c) \/ Return(c) \/ Timeout(c)
      PROVE  CallsInv'
  <2>1. /\ UNCHANGED <<rpcs, outcome, panicked>>
        /\ \A d \in Calls : d # c => caller'[d] = caller[d]
        /\ \/ caller[c] = "offering" /\ caller'[c] = "refused"
           \/ caller[c] \in {"waiting", "timed out"} /\ caller'[c] \in {"returned", "gave up"}
           \/ caller[c] = "waiting" /\ caller'[c] = "timed out"
    BY <1>3, ZenonT(40) DEF Refused, Return, Timeout, TypeOK
  <2>2. \A i \in DOMAIN rpcs : rpcs[i] \in Calls
    BY Zenon DEF TypeOK
  <2>3. Tabled'
    BY <2>1, <2>2, Zenon DEF CallsInv, Tabled
  <2>4. Untaken' /\ AnswerOwn'
    BY <2>1, Zenon DEF CallsInv, Untaken, AnswerOwn
  <2>5. NoCallLost'
    BY <2>1, Zenon DEF CallsInv, NoCallLost
  <2> QED  BY <2>1, <2>3, <2>4, <2>5, Zenon DEF CallsInv, NeverPanics
<1>4. ASSUME NEW c \in Calls, Take(c), Admitted(c)
      PROVE  CallsInv'
  <2>1. caller[c] = "offering" /\ caller' = [caller EXCEPT ![c] = "waiting"]
    BY <1>4, Zenon DEF Take
  <2>2. \A d \in Calls : caller'[d] = IF d = c THEN "waiting" ELSE caller[d]
    BY <2>1, Zenon DEF TypeOK
  <2>3. CASE Complete({c}, Failed) /\ UNCHANGED <<rpcs, nextID, sender>>
    <3>1. \A d \in Calls : outcome'[d] = IF d = c THEN Failed ELSE outcome[d]
      BY <1>4, <2>3, CompletesOne, ZenonT(40)
    <3>2. ~outcome[c].done /\ \A i \in DOMAIN rpcs : rpcs[i] # c /\ rpcs[i] \in Calls
      BY <1>4, <2>1, Zenon DEF CallsInv, Untaken, Tabled, TypeOK
    <3>3. Tabled'
      BY <2>2, <2>3, <3>1, <3>2, ZenonT(40) DEF CallsInv, Tabled
    <3>4. Untaken'
      BY <2>2, <3>1, Zenon DEF CallsInv, Untaken
    <3>6. AnswerOwn'
      BY <3>1, HowCompleted, Zenon DEF CallsInv, AnswerOwn
    <3>7. NoCallLost'
      BY <2>2, <2>3, <3>1, HowCompleted, ZenonT(40) DEF CallsInv, NoCallLost
    <3>5. NeverPanics'
      BY <2>3, <3>2, Zenon DEF CallsInv, NeverPanics, Complete
    <3> QED  BY <3>3, <3>4, <3>5, <3>6, <3>7, Zenon DEF CallsInv
  <2>4. CASE rpcs' = Enter(nextID, c) /\ nextID' = nextID + 1 /\ UNCHANGED <<outcome, panicked>>
    <3>1. nextID \in Nat /\ rpcs'[nextID] = c
      BY <1>4, <2>4, EnterType, Zenon DEF TypeOK
    <3>2. GivenOut(nextID, c)
      BY <1>4, <2>1, <2>4, <3>1, Zenon DEF GivenOut
    <3>3. nextID \notin DOMAIN rpcs
      BY <1>4, <3>1, <3>2, GivenOutFresh, Zenon DEF Uses, InTable, TypeOK
    <3> QED  BY <1>4, <2>1, <2>4, <3>1, <3>3, EnteredStep, Zenon
  <2> QED  BY <1>4, <2>3, <2>4, Zenon DEF Take
<1>5. CASE WriteFails
  <2>1. sender \in Senders /\ UNCHANGED caller
    BY <1>5, SMTT(30) DEF WriteFails, TypeOK, Idle, Stopped
  <2>2. sender.id \in Nat /\ sender.call \in Calls
    BY <2>1, Zenon DEF Senders
  <2>3. CASE Registered(sender.id)
    <3>1. sender.id \in DOMAIN rpcs /\ rpcs[sender.id] \in Calls
      BY <2>3, Zenon DEF Registered, TypeOK
    <3>2. Uses(sender.id, sender.call) /\ Uses(sender.id, rpcs[sender.id])
      BY <1>5, <3>1, Zenon DEF Uses, InSender, InTable, WriteFails
    <3>3. sender.call = rpcs[sender.id]
      BY <2>2, <3>1, <3>2, Zenon DEF OneCall
    <3>4. rpcs' = Without(sender.id) /\ Complete({rpcs[sender.id]}, Failed)
      BY <1>5, <2>3, <3>3, Zenon DEF WriteFails, Reclaims
    <3> QED  BY <2>1, <3>1, <3>4, FailedType, HowCompleted, CompletedStep, Zenon
  <2>4. CASE ~Registered(sender.id)
    BY <1>1, <1>5, <2>1, <2>4, Zenon DEF WriteFails, Reclaims
  <2> QED  BY <2>3, <2>4, Zenon
<1>6. CASE ReceiveResponse
  <2> DEFINE m == Incoming
  <2>1. m \in Responses /\ m \in Under(toHost[receiver.conn]) /\ receiver.conn \in Conns
        /\ UNCHANGED caller
    BY <1>6, ReceiveType, Zenon DEF ReceiveResponse, Messages, Notifications
  <2> HIDE DEF m
  <2>2. m.id \in Nat /\ m.of \in Calls /\ m.type = "response" /\ m.ok \in BOOLEAN
    BY <2>1, Zenon DEF Responses
  <2>3. CASE Registered(m.id) /\ rpcs' = Without(m.id) /\ Complete({rpcs[m.id]}, Answered(m))
    <3>1. m.id \in DOMAIN rpcs /\ rpcs[m.id] \in Calls
      BY <2>3, Zenon DEF Registered, TypeOK
    <3>2. Uses(m.id, m.of) /\ Uses(m.id, rpcs[m.id])
      BY <2>1, <2>2, <3>1, ZenonT(40) DEF Uses, Responded, InTable
    <3>3. m.of = rpcs[m.id]
      BY <2>2, <3>1, <3>2, Zenon DEF OneCall
    <3>4. Answered(m) \in Outcomes
      BY <2>2, Zenon DEF Answered, Outcomes
    <3> QED  BY <2>1, <2>3, <3>1, <3>3, <3>4, HowCompleted, CompletedStep, Zenon
  <2>4. CASE UNCHANGED <<rpcs, outcome, panicked>>
    BY <1>1, <2>1, <2>4, Zenon
  <2>5. CASE Registered(m.id) /\ rpcs' = Without(m.id) /\ Complete({rpcs[m.id]}, Failed)
    <3>1. m.id \in DOMAIN rpcs /\ rpcs[m.id] \in Calls
      BY <2>5, Zenon DEF Registered, TypeOK
    <3> QED  BY <2>1, <2>2, <2>5, <3>1, FailedType, HowCompleted, CompletedStep, Zenon
  <2> QED  BY <1>6, <2>3, <2>4, <2>5, Zenon DEF ReceiveResponse, m
<1>7. CASE Drain
  <2>1. /\ \A c \in Outstanding : c \in Calls /\ ~outcome[c].done
        /\ \A i \in DOMAIN rpcs : rpcs[i] \in Outstanding
    <3>1. \A i \in DOMAIN rpcs : rpcs[i] \in Calls /\ ~outcome[rpcs[i]].done
      BY Zenon DEF TypeOK, CallsInv, Tabled
    <3> QED  BY <3>1, ZenonT(40) DEF Outstanding
  <2>2. \A c \in Outstanding : caller[c] \in {"waiting", "timed out", "returned", "gave up"}
    BY Zenon DEF Outstanding, CallsInv, Tabled
  <2>3. \A c \in Calls : outcome'[c] = IF c \in Outstanding THEN Failed ELSE outcome[c]
    BY <1>7, <2>1, FailedType, Completes, ZenonT(40) DEF Drain
  <2>4. DOMAIN rpcs' = {} /\ UNCHANGED caller
    BY <1>7, NoCallsType, Zenon DEF Drain
  <2>5. Tabled' /\ Untaken'
    BY <2>2, <2>3, <2>4, Zenon DEF CallsInv, Tabled, Untaken
  <2>6. AnswerOwn'
    BY <2>3, HowCompleted, Zenon DEF CallsInv, AnswerOwn
  <2>7. NoCallLost'
    <3> SUFFICES ASSUME NEW c \in Calls, caller[c] \in {"waiting", "timed out"}, ~outcome'[c].done
                 PROVE  FALSE
      BY <2>4, ZenonT(40) DEF NoCallLost
    <3>1. c \notin Outstanding /\ ~outcome[c].done
      BY <2>3, HowCompleted, Zenon
    <3>2. PICK i \in DOMAIN rpcs : rpcs[i] = c
      BY <3>1, Zenon DEF CallsInv, NoCallLost
    <3> QED  BY <2>1, <3>1, <3>2, Zenon
  <2>8. NeverPanics'
    BY <1>7, <2>1, ZenonT(40) DEF CallsInv, NeverPanics, Complete, Drain
  <2> QED  BY <2>5, <2>6, <2>7, <2>8, Zenon DEF CallsInv
<1>8. ASSUME UNCHANGED <<rpcs, caller, outcome>>, NeverPanics'
      PROVE  CallsInv'
  BY <1>8, Zenon DEF CallsInv, Tabled, Untaken, AnswerOwn, NoCallLost
<1>9. CASE ReceiveNotification
  <2>1. ~panicked'
    BY <1>9, Zenon DEF ReceiveNotification, NotifiedOnce, CallsInv, NeverPanics
  <2> QED  BY <1>8, <1>9, <2>1, Zenon DEF ReceiveNotification, NeverPanics
<1>10. CASE ClearNotifies
  <2>1. ~panicked'
    BY <1>10, Zenon DEF ClearNotifies, NotifiedOnce, CallsInv, NeverPanics
  <2> QED  BY <1>8, <1>10, <2>1, Zenon DEF ClearNotifies, NeverPanics
<1>11. CASE Seed \/ OpenContainer
  BY <1>1, <1>11, Zenon DEF Seed, OpenContainer
<1>12. CASE OpenProcess
  <2> DEFINE d == Head(opening)
  <2>1. d \in Waits /\ WaitID[d] \in Nat /\ PreregisterRPC(WaitID[d], d)
        /\ UNCHANGED <<outcome, panicked>>
    BY <1>12, SMTT(30) DEF OpenProcess
  <2>2. caller[d] = "none"
    BY <1>12, <2>1, SMTT(30) DEF OpenProcess, Opens, Unopened, TypeOK
  <2> HIDE DEF d
  <2>3. CASE caller' = [caller EXCEPT ![d] = "refused"] /\ UNCHANGED rpcs
    <3>1. \A c \in Calls : caller'[c] = IF c = d THEN "refused" ELSE caller[c]
      BY <2>3 DEF TypeOK
    <3>2. \A i \in DOMAIN rpcs : rpcs[i] \in Calls
      BY Zenon DEF TypeOK
    <3>3. Tabled'
      BY <2>1, <2>2, <2>3, <3>1, <3>2, ZenonT(40) DEF CallsInv, Tabled
    <3>4. Untaken' /\ AnswerOwn'
      BY <2>1, <3>1, Zenon DEF CallsInv, Untaken, AnswerOwn
    <3>5. NoCallLost'
      <4> SUFFICES ASSUME NEW c \in Calls, caller'[c] \in {"waiting", "timed out"},
                          ~outcome[c].done
                   PROVE  \E i \in DOMAIN rpcs : rpcs[i] = c
        BY <2>1, <2>3, Zenon DEF NoCallLost
      <4> QED  BY <3>1, ZenonT(40) DEF CallsInv, NoCallLost
    <3> QED  BY <2>1, <3>3, <3>4, <3>5, Zenon DEF CallsInv, NeverPanics
  <2>4. CASE /\ ~Registered(WaitID[d]) /\ rpcs' = Enter(WaitID[d], d)
             /\ caller' = [caller EXCEPT ![d] = "waiting"]
    BY <2>1, <2>2, <2>4, EnteredStep, Zenon DEF Registered
  <2> QED  BY <2>1, <2>3, <2>4, Zenon DEF PreregisterRPC
<1> QED  BY Steps, <1>2, <1>3, <1>4, <1>5, <1>6, <1>7, <1>9, <1>10, <1>11, <1>12, Zenon

-----------------------------------------------------------------------------
(* The containers.                                                          *)

\* No step registers a container again, or one whose channel is closed.
LEMMA OpeningStep ==
    ASSUME TypeOK, Unopened, NotifiedOnce, Next
    PROVE  Unopened' /\ NotifiedOnce'
<1> USE GcsAssumption, SourceAssumption
<1>1. ASSUME UNCHANGED <<notifyChs, notified, opening>>,
             \A c \in Waits : caller[c] = "none" => caller'[c] = "none"
      PROVE  Unopened' /\ NotifiedOnce'
  BY <1>1, Zenon DEF Unopened, NotifiedOnce
<1>2. CASE UNCHANGED calls
  BY <1>1, <1>2, Zenon DEF calls
<1>3. ASSUME NEW c \in Calls, Refused(c) \/ Take(c) \/ Return(c) \/ Timeout(c), UNCHANGED opening
      PROVE  Unopened' /\ NotifiedOnce'
  <2>1. UNCHANGED <<notifyChs, notified>> /\ caller[c] # "none"
        /\ \A d \in Calls : d # c => caller'[d] = caller[d]
    BY <1>3, ZenonT(40) DEF Refused, Take, Return, Timeout, TypeOK
  <2> QED  BY <1>1, <1>3, <2>1, Zenon
<1>4. ASSUME WriteFails \/ ReceiveResponse \/ Drain, UNCHANGED opening
      PROVE  Unopened' /\ NotifiedOnce'
  BY <1>1, <1>4, Zenon DEF WriteFails, ReceiveResponse, Drain
<1>5. ASSUME ReceiveNotification, UNCHANGED opening
      PROVE  Unopened' /\ NotifiedOnce'
  <2>1. UNCHANGED caller
    BY <1>5, Zenon DEF ReceiveNotification
  <2>2. CASE UNCHANGED <<notifyChs, notified>>
    BY <1>1, <1>5, <2>1, <2>2, Zenon
  <2>3. CASE /\ notifyChs # None /\ Incoming.of \in notifyChs
             /\ notifyChs' = notifyChs \ {Incoming.of} /\ notified' = notified \cup {Incoming.of}
    <3>1. Unopened'
      BY <1>5, <2>1, <2>3, Zenon DEF Unopened
    <3> QED  BY <2>3, <3>1, Zenon DEF NotifiedOnce
  <2> QED  BY <1>5, <2>2, <2>3, Zenon DEF ReceiveNotification
<1>6. ASSUME ClearNotifies, UNCHANGED opening
      PROVE  Unopened' /\ NotifiedOnce'
  BY <1>6, Zenon DEF ClearNotifies, Unopened, NotifiedOnce
<1>7. CASE Seed
  BY <1>1, <1>7, Zenon DEF Seed
<1>8. CASE OpenContainer \/ OpenProcess
  <2> DEFINE h == Head(opening)
  <2>1. /\ opening # <<>> /\ opening' = Tail(opening) /\ UNCHANGED notified
        /\ notifyChs' = notifyChs \/ (notifyChs # None /\ notifyChs' = notifyChs \cup {h})
        /\ \A c \in Calls : c # h => caller'[c] = caller[c]
    BY <1>8, ZenonT(40)
       DEF OpenContainer, OpenProcess, Opens, RequestNotify, PreregisterRPC, TypeOK
  <2>2. /\ \A n \in DOMAIN opening' : n + 1 \in DOMAIN opening /\ opening'[n] = opening[n + 1]
        /\ 1 \in DOMAIN opening /\ h = opening[1] /\ DOMAIN opening' \subseteq Nat \ {0}
    BY <2>1, SMTT(30) DEF TypeOK
  <2> HIDE DEF h
  <2>3. \A n \in DOMAIN opening' : opening'[n] # h
    BY <2>2 DEF Unopened
  <2>4. \A m, n \in DOMAIN opening' : opening'[m] = opening'[n] => m = n
    <3> SUFFICES ASSUME NEW m \in DOMAIN opening', NEW n \in DOMAIN opening',
                        opening'[m] = opening'[n]
                 PROVE  m = n
      BY Zenon
    <3>1. m + 1 = n + 1
      BY <2>2, SMTT(30) DEF Unopened
    <3> QED  BY <2>2, <3>1
  <2>5. Unopened'
    BY <2>1, <2>2, <2>3, <2>4, SMTT(30) DEF Unopened
  <2>6. h \notin notified
    BY <2>2, Zenon DEF Unopened
  <2> QED  BY <2>1, <2>5, <2>6, SMTT(30) DEF NotifiedOnce
<1> QED  BY Steps, <1>2, <1>3, <1>4, <1>5, <1>6, <1>7, <1>8, Zenon

-----------------------------------------------------------------------------
(* The theorems.                                                            *)

\* On the source each outstanding wait is in the table under its id.
LEMMA WaitCallsTable ==
    /\ DOMAIN WaitCalls = {WaitID[c] : c \in Waits}
    /\ \A c \in Waits : WaitCalls[WaitID[c]] = c
<1>1. DOMAIN WaitCalls = {WaitID[c] : c \in Waits}
  BY Zenon DEF WaitCalls
<1>2. ASSUME NEW c \in Waits
      PROVE  WaitCalls[WaitID[c]] = c
  <2> DEFINE d == CHOOSE x \in Waits : WaitID[x] = WaitID[c]
  <2>1. WaitCalls[WaitID[c]] = d
    BY <1>2, Zenon DEF WaitCalls
  <2>2. d \in Waits /\ WaitID[d] = WaitID[c]
    BY <1>2, Zenon
  <2> QED  BY <1>2, <2>1, <2>2, SourceAssumption, Zenon
<1> QED  BY <1>1, <1>2, Zenon

LEMMA InitInv == Init => Inv
<1> SUFFICES ASSUME Init
             PROVE  Inv
  BY Zenon
<1> USE GcsAssumption, SourceAssumption
<1>1. PICK source \in BOOLEAN : Established(source)
  BY Zenon DEF Init
<1>2. \A w \in Waits : WaitID[w] \in Nat /\ WaitID[w] < SourceNextID /\ w \in Calls
  OBVIOUS
<1>3. 0 \in Conns /\ 1 \in Conns
  BY DEF Conns
<1>4. rpcs = IF source THEN WaitCalls ELSE NoCalls
  BY <1>1, Zenon DEF Established
<1>5. \A i \in DOMAIN rpcs : rpcs[i] \in Waits /\ WaitID[rpcs[i]] = i /\ source
  BY <1>1, <1>4, WaitCallsTable, NoCallsType
<1>6. DOMAIN rpcs \subseteq Nat /\ rpcs \in [DOMAIN rpcs -> Calls]
  <2>1. \A i \in DOMAIN rpcs : i \in Nat /\ rpcs[i] \in Calls
    BY <1>2, <1>5, SMTT(30)
  <2>2. CASE source
    BY <1>4, <2>1, <2>2, Zenon DEF WaitCalls
  <2>3. CASE ~source
    BY <1>4, <2>3, NoCallsType, Zenon
  <2> QED  BY <2>2, <2>3, Zenon
<1>7. \A c \in Calls : caller[c] = IF source /\ c \in Waits THEN "waiting"
                                   ELSE IF c \in (IF source THEN Negotiates ELSE Waits) THEN "none"
                                   ELSE "offering"
  BY <1>1, Zenon DEF Established
<1>8. \A c \in Calls : outcome[c] = Pending
  BY Zenon DEF Init
<1>9. ~Pending.done /\ ~Pending.ok /\ Pending.of = None
  BY Zenon DEF Pending
<1>10. TypeOK
  <2>1. /\ link \in [Conns -> {"none", "up", "down"}]
        /\ reader \in [Conns -> {"none", "reading", "failed"}]
        /\ writer \in [Conns -> {"none", "ready", "failed"}]
    BY <1>1, Zenon DEF Established
  <2>2. toGuest \in [Conns -> Seq(Requests)] /\ toHost \in [Conns -> Seq(Messages)]
    BY SMTT(30) DEF Init
  <2>3. conn \in Conns /\ served \in Conns
    BY <1>1, <1>3, Zenon DEF Established
  <2>4. nextID \in Nat /\ restore \in {"connect", "negotiate", "seed", "open", "failed"}
    BY <1>1, Zenon DEF Established
  <2>5. caller \in [Calls -> Whereabouts]
    BY <1>1, Zenon DEF Established, Whereabouts
  <2>6. outcome \in [Calls -> Outcomes]
    BY FailedType, Zenon DEF Init
  <2>7. sender \in Senders \cup {Idle, Stopped} /\ buf \in Seq(Leftovers)
    BY SMTT(30) DEF Init
  <2>8. receiver \in Receivers
    BY <1>1, <2>3, Zenon DEF Established, Receivers
  <2>9. handler \in [Calls -> Handlers]
    BY <1>2, Zenon DEF Init, Handlers, NoHandler
  <2>10. /\ queue \in Seq(Containers) /\ draining \in Seq(Containers)
         /\ publisher \in [Containers -> {"none", "publishing"}]
    BY SMTT(30) DEF Init
  <2>11. opening \in Seq(Containers \cup Waits)
    BY <1>1, SMTT(30) DEF Established
  <2> QED  BY <1>6, <2>1, <2>2, <2>3, <2>4, <2>5, <2>6, <2>7, <2>8, <2>9, <2>10, <2>11,
              Zenon DEF TypeOK
<1>11. \A i \in Nat, c \in Calls : Uses(i, c) => c \in Waits /\ i = WaitID[c]
  <2> SUFFICES ASSUME NEW i \in Nat, NEW c \in Calls, Uses(i, c)
               PROVE  c \in Waits /\ i = WaitID[c]
    BY Zenon
  <2>1. ~InSender(i, c)
    BY Zenon DEF Init, InSender, Idle
  <2>2. ~InBuffer(i, c) /\ ~Requested(i, c) /\ ~Responded(i, c)
    BY UnderEmpty, Zenon DEF Init, InBuffer, Requested, Responded
  <2>3. CASE InTable(i, c)
    BY <1>5, <2>3, Zenon DEF InTable
  <2>4. CASE InHandler(i, c)
    BY <2>4, Zenon DEF InHandler, Init, NoHandler
  <2> QED  BY <2>1, <2>2, <2>3, <2>4, Zenon DEF Uses
<1>12. Owned /\ OneCall
  BY <1>11, Zenon DEF Owned, OneCall
<1>13. Numbered
  BY <1>1, SMTT(30) DEF Established, Numbered
<1>14. Tabled
  <2>1. \A i, j \in DOMAIN rpcs : rpcs[i] = rpcs[j] => i = j
    BY <1>5, Zenon
  <2>2. ASSUME NEW i \in DOMAIN rpcs
        PROVE  ~outcome[rpcs[i]].done /\ caller[rpcs[i]] = "waiting"
    <3>1. rpcs[i] \in Calls /\ rpcs[i] \in Waits /\ source
      BY <1>2, <1>5, <2>2, Zenon
    <3> QED  BY <1>7, <1>8, <1>9, <3>1, Zenon
  <2> QED  BY <2>1, <2>2, Zenon DEF Tabled
<1>15. Untaken /\ AnswerOwn
  BY <1>8, <1>9, ZenonT(40) DEF Untaken, AnswerOwn
<1>16. Unopened /\ NotifiedOnce
  BY <1>1, <1>7, SMTT(30) DEF Established, Init, Unopened, NotifiedOnce
<1>17. NeverPanics
  BY Zenon DEF Init, NeverPanics
<1>18. NoCallLost
  <2> SUFFICES ASSUME NEW c \in Calls, caller[c] \in {"waiting", "timed out"}
               PROVE  \E i \in DOMAIN rpcs : rpcs[i] = c
    BY Zenon DEF NoCallLost
  <2>1. source /\ c \in Waits
    BY <1>7, Zenon
  <2> QED  BY <1>4, <2>1, WaitCallsTable, ZenonT(40)
<1> QED  BY <1>10, <1>12, <1>13, <1>14, <1>15, <1>16, <1>17, <1>18, Zenon DEF Inv

\* The invariant is inductive.
LEMMA InvStep == Inv /\ [Next]_vars => Inv'
<1> SUFFICES ASSUME Inv, [Next]_vars
             PROVE  Inv'
  BY Zenon
<1>1. CASE Next
  <2>1. TypeOK' /\ Numbered' /\ Owned' /\ OneCall'
    BY <1>1, TypeStep, NumberedStep, OwnedStep, Zenon DEF Inv
  <2>2. CallsInv'
    BY <1>1, CallsStep, Zenon DEF Inv, CallsInv
  <2>3. Unopened' /\ NotifiedOnce'
    BY <1>1, OpeningStep, Zenon DEF Inv
  <2> QED  BY <2>1, <2>2, <2>3, Zenon DEF Inv, CallsInv
<1>2. CASE UNCHANGED vars
  <2> USE <1>2 DEF vars, wire, host, guest, Inv
  <2>1. TypeOK'
    BY Zenon DEF TypeOK
  <2>2. \A i, c : Uses(i, c)' <=> Uses(i, c)
    BY ZenonT(40) DEF Uses, InTable, InSender, InBuffer, Requested, InHandler, Responded, Conns
  <2>3. Owned' /\ OneCall'
    BY <2>2, Zenon DEF Owned, OneCall
  <2>4. Numbered' /\ Untaken' /\ Unopened' /\ NotifiedOnce'
    BY Zenon DEF Numbered, Untaken, Unopened, NotifiedOnce
  <2>5. Tabled' /\ AnswerOwn' /\ NeverPanics' /\ NoCallLost'
    BY Zenon DEF Tabled, AnswerOwn, NeverPanics, NoCallLost
  <2> QED  BY <2>1, <2>3, <2>4, <2>5, Zenon
<1> QED  BY <1>1, <1>2, Zenon

LEMMA InvAlways == Spec => []Inv
BY InitInv, InvStep, PTL DEF Spec

\* The bridges keep to their types, whatever the connections do.
THEOREM BridgeTypeCorrect == Spec => []TypeOK
<1>1. Inv => TypeOK
  BY Zenon DEF Inv
<1> QED  BY InvAlways, <1>1, PTL

\* rpc.complete runs at most once for a call and a container's channel is closed
\* at most once, whichever of sendLoop's failed write, the receiver's answer, its
\* drain and clearNotifies comes first.
THEOREM BridgeNeverPanics == Spec => []NeverPanics
<1>1. Inv => NeverPanics
  BY Zenon DEF Inv
<1> QED  BY InvAlways, <1>1, PTL

\* A call that sendLoop has taken, or that PreregisterRPC has entered, is complete
\* or in the table, over any number of lost connections and migration windows.
THEOREM BridgeLosesNoCall == Spec => []NoCallLost
<1>1. Inv => NoCallLost
  BY Zenon DEF Inv
<1> QED  BY InvAlways, <1>1, PTL

\* The answer to a call is the guest's answer to that call: ids that were seeded,
\* waits entered under their source's ids, stale headers in sendLoop's buffer and
\* late responses included.
THEOREM BridgeAnswersOwn == Spec => []AnsweredByOwn
<1>1. Inv => AnsweredByOwn
  BY Zenon DEF Inv, AnswerOwn, AnsweredByOwn
<1> QED  BY InvAlways, <1>1, PTL
=============================================================================

-------------------------- MODULE MigrationProofs --------------------------
(***************************************************************************)
(* The migration controller for any number of pods, goroutines, cancelling *)
(* threads and sessions, whichever calls fail: who owns a transfer, what   *)
(* is streamed, how a session settles, and that it implements the life     *)
(* cycle of MigrationSession; and the streams of Notifications, for any    *)
(* number of subscribers and events.                                       *)
(***************************************************************************)
EXTENDS MigrationWatched, TLAPS

-----------------------------------------------------------------------------
(* The streams of a session.                                                 *)

NotifierStates ==
    [messageID : Nat, done : BOOLEAN, forwarder : {"none", "waiting", "holding", "ended"}]

Streams ==
    [of : Nat, channel : Seq(Nat \ {0}), read : Nat, closes : 0 .. 1, dropped : BOOLEAN]

\* The messages of a stream are in order, and none is missing unless one was dropped.
InOrder(stream) ==
    \A i \in 1 .. Len(Shown(stream)) - 1 :
        IF stream.dropped THEN Shown(stream)[i] < Shown(stream)[i + 1]
        ELSE Shown(stream)[i + 1] = Shown(stream)[i] + 1

\* They are messages of the notifier, whose latest is id.
UpTo(stream, id) == \A i \in 1 .. Len(Shown(stream)) : Shown(stream)[i] <= id

\* The latest one is among them unless one was dropped.
Current(stream, id) ==
    ~stream.dropped /\ id > 0 =>
        Shown(stream) # <<>> /\ Shown(stream)[Len(Shown(stream))] = id

\* A stream is that of a session that has begun, and it is open only while the
\* session is the active one and has its notifier.
SoundStream(stream) ==
    /\ stream.of = 0 => stream = NoStream
    /\ stream.of # 0 =>
          /\ stream.of \in 1 .. begun
          /\ InOrder(stream) /\ UpTo(stream, notifiers[stream.of].messageID)
          /\ stream.closes = 0 =>
                /\ sessPhase # "Idle" /\ stream.of = begun
                /\ notifiers[begun].forwarder # "none"
                /\ Current(stream, notifiers[begun].messageID)

StreamInv ==
    /\ notifiers \in [1 .. MaxNotifiers -> NotifierStates]
    /\ streams \in [Subscribers -> Streams]
    /\ begun \in 0 .. MaxNotifiers /\ driver \in BOOLEAN
    /\ sessPhase # "Idle" => begun # 0
    /\ driver => sessPhase # "Idle"
    /\ \A s \in Subscribers : SoundStream(streams[s])

\* What the client was sent last stands before what waits.
LEMMA ShownIs ==
    ASSUME NEW st \in Streams
    PROVE  /\ Shown(st) \in Seq(Nat \ {0})
           /\ st.read = 0 => Shown(st) = st.channel
           /\ st.read # 0 => /\ Len(Shown(st)) = Len(st.channel) + 1
                             /\ Shown(st)[1] = st.read
                             /\ \A i \in 1 .. Len(st.channel) : Shown(st)[i + 1] = st.channel[i]
<1>1. st.channel \in Seq(Nat \ {0}) /\ st.read \in Nat
  BY Zenon DEF Streams
<1>2. CASE st.read = 0
  BY <1>1, <1>2, Zenon DEF Shown
<1>3. CASE st.read # 0
  <2>1. <<st.read>> \in Seq(Nat \ {0}) /\ Len(<<st.read>>) = 1 /\ <<st.read>>[1] = st.read
    BY <1>1, <1>3
  <2>2. Shown(st) = <<st.read>> \o st.channel
    BY <1>3, Zenon DEF Shown
  <2> QED  BY <1>1, <1>3, <2>1, <2>2, SMTT(30)
<1> QED  BY <1>2, <1>3, Zenon

\* A message that is sent keeps a stream in order.
LEMMA SentInOrder ==
    ASSUME NEW st \in Streams, NEW id \in Nat, InOrder(st), UpTo(st, id), Current(st, id)
    PROVE  LET t == Sent(st, id + 1)
           IN /\ t \in Streams /\ t.of = st.of /\ t.closes = st.closes
              /\ InOrder(t) /\ UpTo(t, id + 1) /\ Current(t, id + 1)
<1> DEFINE t == Sent(st, id + 1)
<1>1. st.channel \in Seq(Nat \ {0}) /\ Len(st.channel) \in Nat /\ st.read \in Nat
  BY SMTT(30) DEF Streams
<1>2. CASE Len(st.channel) < subscriberBuffer
  <2>1. t = [st EXCEPT !.channel = Append(@, id + 1)]
    BY <1>2, Zenon DEF Sent
  <2>2. /\ t \in Streams /\ t.of = st.of /\ t.closes = st.closes /\ t.read = st.read
        /\ t.dropped = st.dropped /\ t.channel = Append(st.channel, id + 1)
    <3>1. Append(st.channel, id + 1) \in Seq(Nat \ {0})
      <4>1. id + 1 \in Nat \ {0}
        OBVIOUS
      <4> QED  BY <1>1, <4>1
    <3>2. /\ t.of = st.of /\ t.closes = st.closes /\ t.read = st.read
          /\ t.dropped = st.dropped /\ t.channel = Append(st.channel, id + 1)
      BY <2>1, Zenon DEF Streams
    <3>3. t \in Streams
      BY <2>1, <3>1, Zenon DEF Streams
    <3> QED  BY <3>2, <3>3, Zenon
  <2> HIDE DEF t
  <2>3. /\ Len(t.channel) = Len(st.channel) + 1 /\ t.channel[Len(st.channel) + 1] = id + 1
        /\ \A i \in 1 .. Len(st.channel) : t.channel[i] = st.channel[i]
    BY <1>1, <2>2
  <2>4. /\ Len(Shown(t)) = Len(Shown(st)) + 1 /\ Shown(t)[Len(Shown(st)) + 1] = id + 1
        /\ \A i \in 1 .. Len(Shown(st)) : Shown(t)[i] = Shown(st)[i]
    <3>1. CASE st.read = 0
      BY <1>1, <2>2, <2>3, <3>1, ShownIs, ZenonT(40)
    <3>2. CASE st.read # 0
      <4>1. /\ Len(Shown(t)) = Len(st.channel) + 2 /\ Len(Shown(st)) = Len(st.channel) + 1
            /\ Shown(t)[1] = st.read /\ Shown(st)[1] = st.read
        <5>1. /\ Len(Shown(t)) = Len(t.channel) + 1 /\ Shown(t)[1] = t.read
          BY <2>2, <3>2, ShownIs, Zenon
        <5>2. /\ Len(Shown(st)) = Len(st.channel) + 1 /\ Shown(st)[1] = st.read
          BY <3>2, ShownIs, Zenon
        <5> QED  BY <1>1, <2>2, <2>3, <5>1, <5>2
      <4>2. \A i \in 1 .. Len(st.channel) + 1 : Shown(t)[i + 1] = t.channel[i]
        BY <1>1, <2>2, <2>3, <3>2, ShownIs, Zenon
      <4>3. \A i \in 1 .. Len(st.channel) : Shown(st)[i + 1] = st.channel[i]
        BY <3>2, ShownIs, Zenon
      <4>4. ASSUME NEW i \in 1 .. Len(Shown(st)) PROVE Shown(t)[i] = Shown(st)[i]
        <5>1. CASE i = 1
          BY <4>1, <5>1, Zenon
        <5>2. CASE i # 1
          <6>1. i - 1 \in 1 .. Len(st.channel) /\ (i - 1) + 1 = i
            BY <1>1, <4>1, <5>2
          <6>2. i - 1 \in 1 .. Len(st.channel) + 1
            BY <1>1, <6>1, SMTT(30)
          <6>3. Shown(t)[i] = t.channel[i - 1]
            BY <4>2, <6>1, <6>2, Zenon
          <6>4. Shown(st)[i] = st.channel[i - 1]
            BY <4>3, <6>1, Zenon
          <6> QED  BY <2>3, <6>1, <6>3, <6>4, Zenon
        <5> QED  BY <5>1, <5>2, Zenon
      <4>5. Shown(t)[(Len(st.channel) + 1) + 1] = t.channel[Len(st.channel) + 1]
        BY <1>1, <4>2, SMTT(30)
      <4>6. Len(Shown(t)) = Len(Shown(st)) + 1 /\ Len(Shown(st)) + 1 = (Len(st.channel) + 1) + 1
        BY <1>1, <4>1
      <4>7. Shown(t)[Len(Shown(st)) + 1] = id + 1
        BY <2>3, <4>5, <4>6, Zenon
      <4> QED  BY <4>4, <4>6, <4>7, Zenon
    <3> QED  BY <3>1, <3>2, Zenon
  <2>5. Len(Shown(st)) \in Nat /\ \A i \in 1 .. Len(Shown(st)) : Shown(st)[i] \in Nat \ {0}
    BY ShownIs
  <2>6. UpTo(t, id + 1)
    BY <2>4, <2>5, SMTT(30) DEF UpTo
  <2>7. Current(t, id + 1)
    BY <2>4, <2>5, SMTT(30) DEF Current
  <2>8. InOrder(t)
    <3> SUFFICES ASSUME NEW i \in 1 .. Len(Shown(st))
                 PROVE  IF st.dropped THEN Shown(t)[i] < Shown(t)[i + 1]
                        ELSE Shown(t)[i + 1] = Shown(t)[i] + 1
      BY <2>2, <2>4, <2>5, SMTT(30) DEF InOrder
    <3>1. CASE i = Len(Shown(st))
      <4>1. Shown(t)[i] = Shown(st)[i] /\ Shown(t)[i + 1] = id + 1 /\ Shown(st)[i] <= id /\ id > 0
        BY <2>4, <2>5, <3>1, SMTT(30) DEF UpTo
      <4> QED  BY <2>5, <3>1, <4>1, SMTT(30) DEF Current
    <3>2. CASE i # Len(Shown(st))
      <4>1. i \in 1 .. Len(Shown(st)) - 1 /\ i + 1 \in 1 .. Len(Shown(st))
        BY <2>5, <3>2, SMTT(30)
      <4> QED  BY <2>4, <4>1, Zenon DEF InOrder
    <3> QED  BY <3>1, <3>2, Zenon
  <2> QED  BY <2>2, <2>6, <2>7, <2>8, Zenon DEF t
<1>3. CASE ~(Len(st.channel) < subscriberBuffer)
  <2>1. t = [st EXCEPT !.dropped = TRUE]
    BY <1>3, Zenon DEF Sent
  <2>2. /\ t \in Streams /\ t.of = st.of /\ t.closes = st.closes /\ t.read = st.read
        /\ t.dropped = TRUE /\ t.channel = st.channel
    BY <1>1, <2>1, Zenon DEF Streams
  <2> HIDE DEF t
  <2>3. Shown(t) = Shown(st)
    BY <2>2, Zenon DEF Shown
  <2>4. Len(Shown(st)) \in Nat /\ \A i \in 1 .. Len(Shown(st)) : Shown(st)[i] \in Nat \ {0}
    BY ShownIs
  <2>5. InOrder(t)
    BY <2>2, <2>3, <2>4, SMTT(30) DEF InOrder
  <2>6. UpTo(t, id + 1) /\ Current(t, id + 1)
    BY <2>2, <2>3, <2>4, SMTT(30) DEF UpTo, Current
  <2> QED  BY <2>2, <2>5, <2>6, Zenon DEF t
<1> QED  BY <1>2, <1>3, Zenon

\* The stream after its next message was read.
Advanced(st) == [st EXCEPT !.read = Head(st.channel), !.channel = Tail(@)]

\* Reading the next message leaves the rest in order.
LEMMA ReadInOrder ==
    ASSUME NEW st \in Streams, st.channel # <<>>
    PROVE  /\ Advanced(st) \in Streams
           /\ Advanced(st).of = st.of /\ Advanced(st).closes = st.closes
           /\ InOrder(st) => InOrder(Advanced(st))
           /\ \A id \in Nat : UpTo(st, id) => UpTo(Advanced(st), id)
           /\ \A id \in Nat : Current(st, id) => Current(Advanced(st), id)
<1> DEFINE t == Advanced(st)
           k == IF st.read = 0 THEN 0 ELSE 1
<1>1. st.channel \in Seq(Nat \ {0}) /\ st.read \in Nat
  BY Zenon DEF Streams
<1>2. Len(st.channel) \in Nat \ {0} /\ Head(st.channel) = st.channel[1]
  BY <1>1
<1>3. /\ Tail(st.channel) \in Seq(Nat \ {0}) /\ Len(Tail(st.channel)) = Len(st.channel) - 1
      /\ \A i \in 1 .. Len(st.channel) - 1 : Tail(st.channel)[i] = st.channel[i + 1]
  BY <1>1, <1>2
<1>4. Head(st.channel) \in Nat \ {0}
  BY <1>1, <1>2
<1>5. /\ t.of = st.of /\ t.closes = st.closes /\ t.dropped = st.dropped
      /\ t.read = Head(st.channel) /\ t.channel = Tail(st.channel)
  BY Zenon DEF Streams, Advanced
<1>6. t \in Streams
  BY <1>3, <1>4, Zenon DEF Streams, Advanced
<1> HIDE DEF t
<1>7. Len(Shown(t)) = Len(st.channel) /\ \A i \in 1 .. Len(st.channel) : Shown(t)[i] = st.channel[i]
  <2>1. /\ Len(Shown(t)) = Len(t.channel) + 1 /\ Shown(t)[1] = t.read
        /\ \A i \in 1 .. Len(t.channel) : Shown(t)[i + 1] = t.channel[i]
    BY <1>4, <1>5, <1>6, ShownIs, Zenon
  <2>2. Len(Shown(t)) = Len(st.channel)
    BY <1>2, <1>3, <1>5, <2>1, SMTT(30)
  <2>3. ASSUME NEW i \in 1 .. Len(st.channel) PROVE Shown(t)[i] = st.channel[i]
    <3>1. CASE i = 1
      BY <1>2, <1>5, <2>1, <3>1, Zenon
    <3>2. CASE i # 1
      <4>1. i - 1 \in 1 .. Len(st.channel) - 1 /\ (i - 1) + 1 = i
        BY <1>2, <3>2
      <4>2. Shown(t)[(i - 1) + 1] = t.channel[i - 1]
        BY <1>3, <1>5, <2>1, <4>1, Zenon
      <4>3. t.channel[i - 1] = st.channel[(i - 1) + 1]
        BY <1>3, <1>5, <4>1, Zenon
      <4> QED  BY <4>1, <4>2, <4>3, Zenon
    <3> QED  BY <3>1, <3>2, Zenon
  <2> QED  BY <2>2, <2>3, Zenon
<1>8. /\ k \in 0 .. 1 /\ Len(Shown(st)) = Len(st.channel) + k
      /\ \A i \in 1 .. Len(st.channel) : Shown(st)[i + k] = st.channel[i]
  <2>1. CASE st.read = 0
    BY <1>1, <1>2, <2>1, ShownIs, SMTT(30)
  <2>2. CASE st.read # 0
    BY <1>1, <1>2, <2>2, ShownIs, SMTT(30)
  <2> QED  BY <2>1, <2>2, Zenon
<1> HIDE DEF k
<1>9. \A i \in 1 .. Len(Shown(t)) : i + k \in 1 .. Len(Shown(st)) /\ Shown(t)[i] = Shown(st)[i + k]
  BY <1>2, <1>7, <1>8, SMTT(30)
<1>10. ASSUME NEW id \in Nat, UpTo(st, id) PROVE UpTo(t, id)
  BY <1>9, <1>10, Zenon DEF UpTo
<1>11. ASSUME NEW id \in Nat, Current(st, id) PROVE Current(t, id)
  <2>1. Shown(t)[Len(Shown(t))] = Shown(st)[Len(Shown(st))] /\ Shown(t) # <<>>
    <3>1. Len(Shown(t)) \in 1 .. Len(Shown(t)) /\ Len(Shown(t)) + k = Len(Shown(st))
      BY <1>2, <1>7, <1>8
    <3>2. Len(Shown(t)) # 0
      BY <1>2, <1>7, Zenon
    <3> QED  BY <1>9, <3>1, <3>2, SMTT(30)
  <2> QED  BY <1>5, <1>11, <2>1, Zenon DEF Current
<1>12. ASSUME InOrder(st) PROVE InOrder(t)
  <2> SUFFICES ASSUME NEW i \in 1 .. Len(Shown(t)) - 1
               PROVE  IF st.dropped THEN Shown(t)[i] < Shown(t)[i + 1]
                      ELSE Shown(t)[i + 1] = Shown(t)[i] + 1
    BY <1>5, Zenon DEF InOrder
  <2>1. /\ i \in 1 .. Len(Shown(t)) /\ i + 1 \in 1 .. Len(Shown(t))
        /\ i + k \in 1 .. Len(Shown(st)) - 1 /\ (i + k) + 1 = (i + 1) + k
    BY <1>2, <1>7, <1>8, SMTT(30)
  <2>2. Shown(t)[i] = Shown(st)[i + k] /\ Shown(t)[i + 1] = Shown(st)[(i + k) + 1]
    BY <1>9, <2>1, Zenon
  <2> QED  BY <1>12, <2>1, <2>2, Zenon DEF InOrder
<1> QED  BY <1>5, <1>6, <1>10, <1>11, <1>12, Zenon DEF t

\* A new stream has the latest message.
LEMMA ReplayedInOrder ==
    ASSUME NEW n \in NotifierStates, NEW b \in Nat
    PROVE  LET t == [NoStream EXCEPT !.of = b, !.channel = Replayed(n)]
           IN /\ t \in Streams /\ t.of = b /\ t.closes = 0
              /\ InOrder(t) /\ UpTo(t, n.messageID) /\ Current(t, n.messageID)
<1> DEFINE t == [NoStream EXCEPT !.of = b, !.channel = Replayed(n)]
<1>1. n.messageID \in Nat
  BY Zenon DEF NotifierStates
<1>2. Replayed(n) \in Seq(Nat \ {0})
  <2>1. CASE n.messageID = 0
    BY <2>1 DEF Replayed
  <2>2. CASE n.messageID # 0
    BY <1>1, <2>2 DEF Replayed
  <2> QED  BY <2>1, <2>2, Zenon
<1>3. /\ t \in Streams /\ t.of = b /\ t.closes = 0 /\ t.read = 0 /\ t.channel = Replayed(n)
      /\ t.dropped = FALSE
  <2>1. NoStream \in Streams /\ NoStream.closes = 0 /\ NoStream.read = 0 /\ NoStream.dropped = FALSE
    BY DEF NoStream, Streams
  <2> QED  BY <1>2, <2>1, Zenon DEF Streams
<1> HIDE DEF t
<1>4. Shown(t) = Replayed(n)
  BY <1>3, Zenon DEF Shown
<1>5. CASE n.messageID = 0
  <2>1. Shown(t) = <<>> /\ Len(<<>>) = 0
    BY <1>4, <1>5, Zenon DEF Replayed
  <2> QED  BY <1>3, <1>5, <2>1 DEF InOrder, UpTo, Current, t
<1>6. CASE n.messageID # 0
  <2>1. Shown(t) = <<n.messageID>> /\ Len(Shown(t)) = 1 /\ Shown(t)[1] = n.messageID
    BY <1>4, <1>6, SMTT(30) DEF Replayed
  <2>2. InOrder(t)
    BY <2>1 DEF InOrder
  <2>3. UpTo(t, n.messageID)
    BY <1>1, <2>1, SMTT(30) DEF UpTo
  <2>4. Current(t, n.messageID)
    BY <2>1 DEF Current
  <2> QED  BY <1>3, <2>2, <2>3, <2>4, Zenon DEF t
<1> QED  BY <1>5, <1>6, Zenon

\* Streams with the same messages are in order alike.
LEMMA SameMessages ==
    ASSUME NEW st, NEW t, t.channel = st.channel, t.read = st.read, t.dropped = st.dropped
    PROVE  (InOrder(st) => InOrder(t)) /\ (\A id : UpTo(st, id) => UpTo(t, id))
<1>1. Shown(t) = Shown(st)
  BY Zenon DEF Shown
<1> QED  BY <1>1, Zenon DEF InOrder, UpTo

\* A session begins with nothing to tell.
LEMMA StreamInit == NotifyInit => StreamInv
<1> SUFFICES ASSUME NotifyInit PROVE StreamInv
  BY Zenon
<1>1. sessPhase = "Idle" /\ driver = FALSE /\ begun = 0
  BY Zenon DEF NotifyInit, MS!Init
<1>2. notifiers \in [1 .. MaxNotifiers -> NotifierStates]
  BY Zenon DEF NotifyInit, NoNotifier, NotifierStates
<1>3. NoStream \in Streams /\ NoStream.of = 0
  BY SMTT(30) DEF NoStream, Streams
<1>4. streams \in [Subscribers -> Streams] /\ \A s \in Subscribers : SoundStream(streams[s])
  BY <1>3, Zenon DEF NotifyInit, SoundStream
<1>5. begun \in 0 .. MaxNotifiers
  BY <1>1, NotificationsAssumption, SMTT(30)
<1> QED  BY <1>1, <1>2, <1>4, <1>5, Zenon DEF StreamInv

\* The session goes on and the streams stay.
LEMMA StreamsKept ==
    ASSUME StreamInv, UNCHANGED <<streams, begun>>, driver' \in BOOLEAN,
           notifiers' \in [1 .. MaxNotifiers -> NotifierStates],
           \A n \in 1 .. MaxNotifiers :
              /\ notifiers'[n].messageID = notifiers[n].messageID
              /\ notifiers[n].forwarder # "none" => notifiers'[n].forwarder # "none",
           sessPhase # "Idle" => sessPhase' # "Idle", driver' => sessPhase' # "Idle",
           sessPhase' # "Idle" => begun # 0
    PROVE  StreamInv'
<1>1. ASSUME NEW s \in Subscribers PROVE SoundStream(streams[s])'
  <2>1. SoundStream(streams[s]) /\ streams'[s] = streams[s] /\ begun \in 0 .. MaxNotifiers
    BY Zenon DEF StreamInv
  <2>2. streams[s] \in Streams /\ streams[s].of \in Nat
    BY Zenon DEF StreamInv, Streams
  <2>3. CASE streams[s].of = 0
    BY <2>1, <2>3, Zenon DEF SoundStream
  <2>4. CASE streams[s].of # 0
    <3>1. /\ streams[s].of \in 1 .. begun
          /\ InOrder(streams[s]) /\ UpTo(streams[s], notifiers[streams[s].of].messageID)
          /\ streams[s].closes = 0 =>
                /\ sessPhase # "Idle" /\ streams[s].of = begun
                /\ notifiers[begun].forwarder # "none"
                /\ Current(streams[s], notifiers[begun].messageID)
      BY <2>1, <2>4, Zenon DEF SoundStream
    <3>2. streams[s].of \in 1 .. MaxNotifiers
      BY <2>1, <3>1, NotificationsAssumption, SMTT(30)
    <3>3. notifiers'[streams[s].of].messageID = notifiers[streams[s].of].messageID
      BY <3>2, Zenon
    <3>4. InOrder(streams[s])' /\ UpTo(streams[s], notifiers[streams[s].of].messageID)'
      BY <2>1, <3>1, <3>3, Zenon
    <3>5. ASSUME streams[s].closes = 0
          PROVE  /\ sessPhase' # "Idle" /\ streams[s].of = begun
                 /\ notifiers'[begun].forwarder # "none"
                 /\ Current(streams[s], notifiers[begun].messageID)'
      BY <2>1, <3>1, <3>2, <3>3, <3>5, Zenon
    <3> QED  BY <2>1, <2>4, <3>1, <3>4, <3>5, ZenonT(40) DEF SoundStream
  <2> QED  BY <2>3, <2>4, Zenon
<1> QED  BY <1>1, Zenon DEF StreamInv

\* A subscriber that changes is sound again.
LEMMA StreamChanged ==
    ASSUME StreamInv, NEW s \in Subscribers, NEW t \in Streams,
           streams' = [streams EXCEPT ![s] = t], SoundStream(t),
           UNCHANGED <<sessionVars, notifiers>>
    PROVE  StreamInv'
<1>1. ASSUME NEW r \in Subscribers PROVE SoundStream(streams[r])'
  <2>1. SoundStream(streams'[r])
    BY Zenon DEF StreamInv
  <2> QED  BY <2>1, Zenon DEF SoundStream, sessionVars
<1> QED  BY <1>1, Zenon DEF StreamInv, sessionVars

\* The subscribers of a notifier are those of the active session.
LEMMA SubscribedIs ==
    ASSUME StreamInv, NEW s \in Subscribers, NEW n \in 1 .. MaxNotifiers, s \in Subscribed(n)
    PROVE  /\ n = begun /\ streams[s].of = n /\ streams[s].closes = 0 /\ sessPhase # "Idle"
           /\ InOrder(streams[s]) /\ UpTo(streams[s], notifiers[n].messageID)
           /\ Current(streams[s], notifiers[n].messageID) /\ notifiers[n].forwarder # "none"
BY SMTT(30) DEF StreamInv, SoundStream, Subscribed

\* A broadcast reaches the streams of its session, in order.
LEMMA BroadcastKeeps ==
    ASSUME StreamInv, NEW n \in 1 .. MaxNotifiers, NEW next \in {"waiting", "holding", "ended"},
           Broadcast(n, next), begun' = begun, driver' \in BOOLEAN,
           sessPhase # "Idle" => sessPhase' # "Idle", driver' => sessPhase' # "Idle",
           sessPhase' # "Idle" => begun # 0
    PROVE  StreamInv'
<1> DEFINE id == notifiers[n].messageID
<1>1. id \in Nat /\ notifiers[n] \in NotifierStates
  BY Zenon DEF StreamInv, NotifierStates
<1>2. /\ notifiers' \in [1 .. MaxNotifiers -> NotifierStates]
      /\ notifiers'[n].messageID = id + 1 /\ notifiers'[n].forwarder = next
      /\ \A m \in 1 .. MaxNotifiers : m # n => notifiers'[m] = notifiers[m]
  <2> DEFINE N == [notifiers[n] EXCEPT !.messageID = id + 1, !.forwarder = next]
  <2>1. N \in NotifierStates /\ N.messageID = id + 1 /\ N.forwarder = next
    <3>1. PICK r \in NotifierStates : r = notifiers[n]
      BY <1>1, Zenon
    <3>2. id + 1 \in Nat
      BY <1>1
    <3>3. [r EXCEPT !.messageID = id + 1] \in NotifierStates
      BY <3>2, Zenon DEF NotifierStates
    <3>4. N \in NotifierStates
      BY <3>1, <3>3, Zenon DEF NotifierStates
    <3>5. N.messageID = id + 1 /\ N.forwarder = next
      BY <3>1, Zenon DEF NotifierStates
    <3> QED  BY <3>4, <3>5, Zenon
  <2>2. notifiers' = [notifiers EXCEPT ![n] = N]
    BY <1>1, Zenon DEF StreamInv, Broadcast, NotifierStates
  <2> HIDE DEF N
  <2> QED  BY <2>1, <2>2, Zenon DEF StreamInv
<1>3. ASSUME NEW s \in Subscribers PROVE streams'[s] \in Streams /\ SoundStream(streams[s])'
  <2>1. streams[s] \in Streams /\ SoundStream(streams[s]) /\ begun \in 0 .. MaxNotifiers
    BY Zenon DEF StreamInv
  <2>2. CASE s \in Subscribed(n)
    <3>1. /\ n = begun /\ streams[s].of = n /\ streams[s].closes = 0 /\ sessPhase # "Idle"
          /\ InOrder(streams[s]) /\ UpTo(streams[s], id) /\ Current(streams[s], id)
      BY <2>2, SubscribedIs, Zenon
    <3>2. streams'[s] = Sent(streams[s], id + 1)
      BY <2>2, Zenon DEF Broadcast
    <3>3. /\ streams'[s] \in Streams /\ streams'[s].of = n /\ streams'[s].closes = 0
          /\ InOrder(streams'[s]) /\ UpTo(streams'[s], id + 1) /\ Current(streams'[s], id + 1)
      BY <1>1, <2>1, <3>1, <3>2, SentInOrder, SMTT(30)
    <3>4. InOrder(streams[s])' /\ UpTo(streams[s], notifiers[n].messageID)'
          /\ Current(streams[s], notifiers[n].messageID)'
      BY <1>2, <3>3, Zenon
    <3> QED  BY <1>2, <2>1, <3>1, <3>3, <3>4, Zenon DEF SoundStream
  <2>3. CASE s \notin Subscribed(n)
    <3>1. streams'[s] = streams[s]
      BY <2>3, Zenon DEF Broadcast
    <3>2. CASE streams[s].of = 0
      BY <2>1, <3>1, <3>2, Zenon DEF SoundStream
    <3>3. CASE streams[s].of # 0
      <4>1. /\ streams[s].of \in 1 .. begun /\ streams[s].of \in 1 .. MaxNotifiers
            /\ InOrder(streams[s]) /\ UpTo(streams[s], notifiers[streams[s].of].messageID)
        BY <2>1, <3>3, NotificationsAssumption, SMTT(30) DEF SoundStream
      <4>2. notifiers'[streams[s].of].messageID \in
               {notifiers[streams[s].of].messageID, notifiers[streams[s].of].messageID + 1}
        BY <1>2, <4>1, Zenon
      <4>3. notifiers[streams[s].of].messageID \in Nat
        BY <4>1, Zenon DEF StreamInv, NotifierStates
      <4>4. Len(Shown(streams[s])) \in Nat /\
            \A i \in 1 .. Len(Shown(streams[s])) : Shown(streams[s])[i] \in Nat
        BY <2>1, ShownIs
      <4>5. InOrder(streams[s])'
        BY <3>1, <4>1, Zenon
      <4>6. UpTo(streams[s], notifiers'[streams[s].of].messageID)
        <5> DEFINE old == notifiers[streams[s].of].messageID
                   new == notifiers'[streams[s].of].messageID
        <5>1. old <= new /\ old \in Nat /\ new \in Nat
          BY <4>2, <4>3, SMTT(30)
        <5> HIDE DEF old, new
        <5>2. UpTo(streams[s], old)
          BY <4>1, Zenon DEF old
        <5>3. UpTo(streams[s], new)
          BY <4>4, <5>1, <5>2 DEF UpTo
        <5> QED  BY <5>3, Zenon DEF new
      <4>7. UpTo(streams[s], notifiers[streams[s].of].messageID)'
        BY <3>1, <4>6, Zenon
      <4>8. ASSUME streams[s].closes = 0
            PROVE  /\ sessPhase' # "Idle" /\ streams[s].of = begun
                   /\ notifiers'[begun].forwarder # "none"
                   /\ Current(streams[s], notifiers[begun].messageID)'
        <5>1. streams[s].of # n /\ streams[s].of = begun /\ notifiers'[begun] = notifiers[begun]
          BY <1>2, <2>1, <2>3, <3>3, <4>1, <4>8, Zenon DEF SoundStream, Subscribed
        <5> QED  BY <2>1, <3>1, <3>3, <4>8, <5>1, ZenonT(40) DEF SoundStream
      <4> QED  BY <2>1, <3>1, <3>3, <4>1, <4>5, <4>7, <4>8, ZenonT(40) DEF SoundStream
    <3> QED  BY <3>2, <3>3, Zenon
  <2> QED  BY <2>2, <2>3, Zenon
<1>4. streams' \in [Subscribers -> Streams]
  BY <1>3, Zenon DEF Broadcast
<1> QED  BY <1>2, <1>3, <1>4, Zenon DEF StreamInv

\* The forwarder takes an event, drops it or ends.
LEMMA ForwarderMoves ==
    ASSUME StreamInv, NEW n \in 1 .. MaxNotifiers, NEW next \in {"holding", "ended"},
           notifiers[n].forwarder # "none", notifiers' = [notifiers EXCEPT ![n].forwarder = next],
           UNCHANGED <<sessionVars, streams>>
    PROVE  StreamInv'
<1>1. notifiers \in [1 .. MaxNotifiers -> NotifierStates]
  BY Zenon DEF StreamInv
<1>2. notifiers' \in [1 .. MaxNotifiers -> NotifierStates]
  BY <1>1, Zenon DEF NotifierStates
<1>3. ASSUME NEW m \in 1 .. MaxNotifiers
      PROVE  /\ notifiers'[m].messageID = notifiers[m].messageID
             /\ notifiers[m].forwarder # "none" => notifiers'[m].forwarder # "none"
  BY <1>1, Zenon DEF NotifierStates
<1>4. UNCHANGED <<sessPhase, driver, begun>>
  BY Zenon DEF sessionVars
<1> QED  BY <1>2, <1>3, <1>4, StreamsKept, Zenon DEF StreamInv

\* Subscribe opens a stream on the active session.
LEMMA SubscribeKeeps ==
    ASSUME StreamInv, NEW s \in Subscribers, Subscribe(s)
    PROVE  StreamInv'
<1> DEFINE t == [NoStream EXCEPT !.of = begun, !.channel = Replayed(Notifier)]
<1>1. begun \in 1 .. MaxNotifiers /\ sessPhase # "Idle"
  BY SMTT(30) DEF StreamInv, Subscribe
<1>2. Notifier \in NotifierStates /\ notifiers \in [1 .. MaxNotifiers -> NotifierStates]
  BY <1>1, Zenon DEF StreamInv, Notifier
<1>3. /\ t \in Streams /\ t.of = begun /\ t.closes = 0
      /\ InOrder(t) /\ UpTo(t, Notifier.messageID) /\ Current(t, Notifier.messageID)
  <2>1. begun \in Nat
    BY <1>1
  <2> QED  BY <1>2, <2>1, ReplayedInOrder, Zenon
<1>4. streams' = [streams EXCEPT ![s] = t] /\ UNCHANGED <<sessPhase, driver, begun>>
  BY Zenon DEF Subscribe, sessionVars
<1> HIDE DEF t
<1> DEFINE f == IF notifiers[begun].forwarder = "none" THEN "waiting"
                ELSE notifiers[begun].forwarder
<1>5. /\ f \in {"waiting", "holding", "ended"}
      /\ notifiers' = [notifiers EXCEPT ![begun].forwarder = f]
  BY <1>1, <1>2, Zenon DEF Subscribe, NotifierStates, Notifier
<1> HIDE DEF f
<1>6. notifiers' \in [1 .. MaxNotifiers -> NotifierStates]
  BY <1>2, <1>5, Zenon DEF NotifierStates
<1>7. ASSUME NEW m \in 1 .. MaxNotifiers
      PROVE  /\ notifiers'[m].messageID = notifiers[m].messageID
             /\ notifiers[m].forwarder # "none" => notifiers'[m].forwarder # "none"
  BY <1>2, <1>5, ZenonT(40) DEF NotifierStates
<1>8. notifiers'[begun].forwarder # "none"
  BY <1>1, <1>2, <1>5, Zenon DEF NotifierStates
<1>9. ASSUME NEW r \in Subscribers PROVE SoundStream(streams[r])'
  <2>1. CASE r = s
    <3>1. streams'[r] = t
      BY <1>4, <2>1, Zenon DEF StreamInv
    <3>2. InOrder(streams[r])' /\ UpTo(streams[r], notifiers[begun].messageID)'
          /\ Current(streams[r], notifiers[begun].messageID)'
      BY <1>1, <1>3, <1>4, <1>7, <3>1, Zenon DEF Notifier
    <3> QED  BY <1>1, <1>3, <1>4, <1>8, <3>1, <3>2, SMTT(30) DEF SoundStream
  <2>2. CASE r # s
    <3>1. streams'[r] = streams[r] /\ SoundStream(streams[r]) /\ streams[r].of \in Nat
      BY <1>4, <2>2, Zenon DEF StreamInv, Streams
    <3>2. CASE streams[r].of = 0
      BY <3>1, <3>2, Zenon DEF SoundStream
    <3>3. CASE streams[r].of # 0
      <4>1. streams[r].of \in 1 .. MaxNotifiers
        BY <1>1, <3>1, <3>3, NotificationsAssumption, SMTT(30) DEF SoundStream
      <4>2. notifiers'[streams[r].of].messageID = notifiers[streams[r].of].messageID
        BY <1>7, <4>1, Zenon
      <4>3. InOrder(streams[r])' /\ UpTo(streams[r], notifiers[streams[r].of].messageID)'
        BY <3>1, <3>3, <4>2, Zenon DEF SoundStream
      <4>4. ASSUME streams[r].closes = 0
            PROVE  streams[r].of = begun /\ Current(streams[r], notifiers[begun].messageID)'
        BY <1>4, <3>1, <3>3, <4>2, <4>4, Zenon DEF SoundStream
      <4>5. streams[r].of \in 1 .. begun
        BY <3>1, <3>3, Zenon DEF SoundStream
      <4> QED  BY <1>1, <1>4, <1>8, <3>1, <3>3, <4>3, <4>4, <4>5, ZenonT(40) DEF SoundStream
    <3> QED  BY <3>2, <3>3, Zenon
  <2> QED  BY <2>1, <2>2, Zenon
<1>10. streams' \in [Subscribers -> Streams]
  BY <1>3, <1>4, Zenon DEF StreamInv
<1> QED  BY <1>1, <1>4, <1>6, <1>9, <1>10, Zenon DEF StreamInv

\* Read shows the client the next message.
LEMMA ReadKeeps ==
    ASSUME StreamInv, NEW s \in Subscribers, Read(s)
    PROVE  StreamInv'
<1> DEFINE st == streams[s]
           t == Advanced(st)
<1>1. st \in Streams /\ SoundStream(st) /\ st.channel # <<>>
  BY Zenon DEF StreamInv, Read
<1>2. /\ t \in Streams /\ t.of = st.of /\ t.closes = st.closes
      /\ InOrder(st) => InOrder(t)
      /\ \A id \in Nat : UpTo(st, id) => UpTo(t, id)
      /\ \A id \in Nat : Current(st, id) => Current(t, id)
  BY <1>1, ReadInOrder, Zenon
<1>3. streams' = [streams EXCEPT ![s] = t] /\ UNCHANGED <<sessionVars, notifiers>>
  BY <1>1, Zenon DEF Read, StreamInv, Streams, Advanced
<1> HIDE DEF t
<1>4. st.of # 0
  <2>1. NoStream.channel = <<>>
    BY Zenon DEF NoStream
  <2> QED  BY <1>1, <2>1, Zenon DEF SoundStream
<1>5. st.of \in 1 .. begun /\ begun \in 0 .. MaxNotifiers
  BY <1>1, <1>4, Zenon DEF SoundStream, StreamInv
<1>6. notifiers[st.of].messageID \in Nat
  BY <1>5, NotificationsAssumption, SMTT(30) DEF StreamInv, NotifierStates
<1>7. SoundStream(t)
  BY <1>1, <1>2, <1>4, <1>6, Zenon DEF SoundStream
<1> QED  BY <1>2, <1>3, <1>7, StreamChanged, Zenon

\* A client that goes away closes its stream.
LEMMA UnsubscribeKeeps ==
    ASSUME StreamInv, NEW s \in Subscribers, Unsubscribe(s)
    PROVE  StreamInv'
<1> DEFINE st == streams[s]
           t == [st EXCEPT !.closes = @ + 1]
<1>1. st \in Streams /\ SoundStream(st) /\ st.closes = 0 /\ st.of # 0
  BY Zenon DEF StreamInv, Unsubscribe, StillSubscribed, Subscribed
<1>2. /\ t \in Streams /\ t.of = st.of /\ t.closes = 1 /\ t.channel = st.channel
      /\ t.read = st.read /\ t.dropped = st.dropped
  BY <1>1, SMTT(30) DEF Streams
<1>3. streams' = [streams EXCEPT ![s] = t] /\ UNCHANGED <<sessionVars, notifiers>>
  BY Zenon DEF Unsubscribe, StreamInv
<1> HIDE DEF t
<1>4. SoundStream(t)
  <2>1. InOrder(t) /\ UpTo(t, notifiers[st.of].messageID)
    <3>1. InOrder(st) /\ UpTo(st, notifiers[st.of].messageID)
      BY <1>1, Zenon DEF SoundStream
    <3> QED  BY <1>2, <3>1, SameMessages
  <2> QED  BY <1>1, <1>2, <2>1, SMTT(30) DEF SoundStream
<1> QED  BY <1>2, <1>3, <1>4, StreamChanged, Zenon

\* Cleanup closes the notifier with every stream it has.
LEMMA SessionEndsKeeps ==
    ASSUME StreamInv, SessionEnds
    PROVE  StreamInv'
<1>1. /\ sessPhase # "Idle" /\ sessPhase' = "Idle" /\ driver = FALSE
      /\ UNCHANGED <<driver, begun>>
  BY Zenon DEF SessionEnds, MS!Cleanup, StreamInv
<1>2. begun \in 1 .. MaxNotifiers /\ notifiers \in [1 .. MaxNotifiers -> NotifierStates]
  BY <1>1 DEF StreamInv
<1>3. /\ notifiers' \in [1 .. MaxNotifiers -> NotifierStates]
      /\ \A n \in 1 .. MaxNotifiers : notifiers'[n].messageID = notifiers[n].messageID
  <2>1. CASE UNCHANGED notifiers
    BY <1>2, <2>1, Zenon
  <2>2. CASE notifiers' = [notifiers EXCEPT ![begun].done = TRUE]
    <3>1. notifiers' \in [1 .. MaxNotifiers -> NotifierStates]
      BY <1>2, <2>2, ZenonT(40) DEF NotifierStates
    <3>2. \A n \in 1 .. MaxNotifiers : notifiers'[n].messageID = notifiers[n].messageID
      BY <1>2, <2>2, Zenon DEF NotifierStates
    <3> QED  BY <3>1, <3>2, Zenon
  <2> QED  BY <2>1, <2>2, Zenon DEF SessionEnds, CloseNotifier
<1>4. ASSUME NEW s \in Subscribers
      PROVE  /\ streams'[s] \in Streams /\ streams'[s].of = streams[s].of
             /\ streams[s].of = 0 => streams'[s] = streams[s]
             /\ streams[s].of # 0 => streams'[s].closes # 0
             /\ streams'[s].channel = streams[s].channel /\ streams'[s].read = streams[s].read
             /\ streams'[s].dropped = streams[s].dropped
  <2>1. streams[s] \in Streams /\ SoundStream(streams[s])
    BY Zenon DEF StreamInv
  <2>2. streams[s].closes \in 0 .. 1
    BY <2>1, Zenon DEF Streams
  <2>3. CASE s \in Subscribed(begun) /\ Notifier.forwarder # "none"
    <3>1. streams'[s] = [streams[s] EXCEPT !.closes = @ + 1]
      BY <2>3, Zenon DEF SessionEnds, CloseNotifier
    <3>2. streams[s].of = begun /\ streams[s].closes = 0
      BY <2>3, Zenon DEF Subscribed
    <3>3. /\ streams'[s].of = streams[s].of /\ streams'[s].closes = 1
          /\ streams'[s].channel = streams[s].channel /\ streams'[s].read = streams[s].read
          /\ streams'[s].dropped = streams[s].dropped
      BY <2>1, <3>1, <3>2 DEF Streams
    <3>4. streams'[s] \in Streams
      BY <2>1, <3>1, <3>2, SMTT(30) DEF Streams
    <3> QED  BY <1>2, <3>2, <3>3, <3>4, SMTT(30)
  <2>4. CASE ~(s \in Subscribed(begun) /\ Notifier.forwarder # "none")
    <3>1. streams'[s] = streams[s]
      BY <2>4, Zenon DEF SessionEnds, CloseNotifier
    <3>2. streams[s].of # 0 => streams[s].closes # 0
      BY <2>1, <2>4, Zenon DEF SoundStream, Subscribed, Notifier
    <3> QED  BY <2>1, <3>1, <3>2, Zenon
  <2> QED  BY <2>3, <2>4, Zenon
<1>5. ASSUME NEW s \in Subscribers PROVE SoundStream(streams[s])'
  <2>1. SoundStream(streams[s])
    BY Zenon DEF StreamInv
  <2>2. CASE streams[s].of = 0
    BY <1>4, <2>1, <2>2, Zenon DEF SoundStream
  <2>3. CASE streams[s].of # 0
    <3>1. streams[s].of \in 1 .. begun /\ streams[s].of \in 1 .. MaxNotifiers
      BY <1>2, <2>1, <2>3, NotificationsAssumption DEF SoundStream
    <3>2. InOrder(streams[s])' /\ UpTo(streams[s], notifiers[streams[s].of].messageID)'
      <4>1. InOrder(streams[s]) /\ UpTo(streams[s], notifiers[streams[s].of].messageID)
        BY <2>1, <2>3, Zenon DEF SoundStream
      <4>2. InOrder(streams'[s]) /\ UpTo(streams'[s], notifiers[streams[s].of].messageID)
        <5>1. /\ streams'[s].channel = streams[s].channel /\ streams'[s].read = streams[s].read
              /\ streams'[s].dropped = streams[s].dropped
          BY <1>4, Zenon
        <5> QED  BY <4>1, <5>1, SameMessages, SMTT(30)
      <4> QED  BY <1>3, <1>4, <3>1, <4>2, ZenonT(40)
    <3> QED  BY <1>1, <1>4, <2>3, <3>1, <3>2, ZenonT(40) DEF SoundStream
  <2> QED  BY <2>2, <2>3, Zenon
<1>6. streams' \in [Subscribers -> Streams]
  BY <1>4, Zenon DEF SessionEnds, CloseNotifier, StreamInv
<1> QED  BY <1>1, <1>2, <1>3, <1>5, <1>6, Zenon DEF StreamInv

\* The session moves on or another begins.
LEMMA SessionMovesKeeps ==
    ASSUME StreamInv, SessionMoves
    PROVE  StreamInv'
<1>1. UNCHANGED <<notifiers, streams>> /\ driver \in BOOLEAN /\ begun \in 0 .. MaxNotifiers
  BY Zenon DEF SessionMoves, StreamInv
<1>2. CASE MS!Begin /\ begun < MaxNotifiers /\ begun' = begun + 1 /\ UNCHANGED driver
  <2>1. sessPhase = "Idle" /\ sessPhase' # "Idle" /\ driver = FALSE
    BY <1>2, Zenon DEF MS!Begin, StreamInv
  <2>2. begun' \in 1 .. MaxNotifiers
    BY <1>1, <1>2, NotificationsAssumption, SMTT(30)
  <2>3. ASSUME NEW s \in Subscribers PROVE SoundStream(streams[s])'
    <3>1. SoundStream(streams[s]) /\ streams'[s] = streams[s]
      BY <1>1, Zenon DEF StreamInv
    <3>2. CASE streams[s].of = 0
      BY <3>1, <3>2, Zenon DEF SoundStream
    <3>3. CASE streams[s].of # 0
      <4>1. streams[s].of \in 1 .. begun' /\ streams[s].closes # 0
        BY <1>1, <1>2, <2>1, <3>1, <3>3, SMTT(30) DEF SoundStream
      <4>2. InOrder(streams[s])' /\ UpTo(streams[s], notifiers[streams[s].of].messageID)'
        BY <1>1, <3>1, <3>3, Zenon DEF SoundStream
      <4> QED  BY <3>1, <3>3, <4>1, <4>2, Zenon DEF SoundStream
    <3> QED  BY <3>2, <3>3, Zenon
  <2>4. begun' \in 0 .. MaxNotifiers /\ begun' # 0
    BY <2>2, NotificationsAssumption
  <2> QED  BY <1>1, <1>2, <2>1, <2>3, <2>4, Zenon DEF StreamInv
<1>3. CASE MS!Advance /\ sessPhase # "Transferring" /\ UNCHANGED begun
           /\ driver' = (driver \/ sessPhase' \in {"SocketWaiting", "Transferring"})
  <2>1. sessPhase # "Idle" /\ sessPhase' # "Idle"
    BY <1>3 DEF MS!Advance, MS!Forward
  <2>2. driver' \in BOOLEAN
    BY <1>1, <1>3, Zenon
  <2> QED  BY <1>1, <1>3, <2>1, <2>2, StreamsKept, Zenon DEF StreamInv
<1>4. CASE (MS!Fail \/ MS!Cancel \/ MS!Finalize) /\ UNCHANGED <<driver, begun>>
  <2>1. sessPhase # "Idle" /\ sessPhase' # "Idle"
    BY <1>4, SMTT(30) DEF MS!Fail, MS!Cancel, MS!Finalize, MS!Open, MS!Forward
  <2> QED  BY <1>1, <1>4, <2>1, StreamsKept, Zenon DEF StreamInv
<1> QED  BY <1>2, <1>3, <1>4, Zenon DEF SessionMoves

\* A transfer that fails tells the subscribers.
LEMMA TransferFailsKeeps ==
    ASSUME StreamInv, TransferFails
    PROVE  StreamInv'
<1>1. /\ driver = TRUE /\ driver' = FALSE /\ sessPhase # "Idle" /\ sessPhase' # "Idle"
      /\ begun' = begun /\ begun # 0
  BY Zenon DEF TransferFails, StreamInv
<1>2. begun \in 1 .. MaxNotifiers
  BY <1>1 DEF StreamInv
<1>3. CASE UNCHANGED <<notifiers, streams>>
  BY <1>1, <1>3, StreamsKept, Zenon DEF StreamInv
<1>4. CASE Broadcast(begun, Notifier.forwarder) /\ Notifier.forwarder # "none"
  <2>1. Notifier.forwarder \in {"waiting", "holding", "ended"}
    BY <1>2, <1>4, Zenon DEF StreamInv, NotifierStates, Notifier
  <2> QED  BY <1>1, <1>2, <1>4, <2>1, BroadcastKeeps, Zenon
<1> QED  BY <1>3, <1>4, Zenon DEF TransferFails

\* Every step keeps StreamInv.
LEMMA StreamStep ==
    ASSUME StreamInv, [NotifyNext]_notifyVars
    PROVE  StreamInv'
<1>1. ASSUME EventRaised \/ UNCHANGED notifyVars PROVE StreamInv'
  <2>1. UNCHANGED <<sessPhase, driver, begun, notifiers, streams>>
    BY <1>1, Zenon DEF EventRaised, notifyVars, sessionVars
  <2> QED  BY <2>1, StreamsKept, Zenon DEF StreamInv
<1>2. CASE TransferSucceeds
  <2>1. /\ driver = TRUE /\ driver' = FALSE /\ UNCHANGED <<begun, notifiers, streams>>
        /\ sessPhase # "Idle" /\ sessPhase' # "Idle"
    BY <1>2, Zenon DEF TransferSucceeds, StreamInv
  <2> QED  BY <2>1, StreamsKept, Zenon DEF StreamInv
<1>3. ASSUME NEW n \in 1 .. MaxNotifiers, ForwarderTakes(n) \/ ForwarderEnds(n)
      PROVE  StreamInv'
  BY <1>3, ForwarderMoves, Zenon DEF ForwarderTakes, ForwarderEnds
<1>4. ASSUME NEW n \in 1 .. MaxNotifiers, ForwarderBroadcasts(n) PROVE StreamInv'
  <2>1. CASE notifiers[n].done
    BY <1>4, <2>1, ForwarderMoves, Zenon DEF ForwarderBroadcasts
  <2>2. CASE ~notifiers[n].done
    <3>1. Broadcast(n, "waiting") /\ UNCHANGED <<sessPhase, driver, begun>>
      BY <1>4, <2>2, Zenon DEF ForwarderBroadcasts, sessionVars
    <3> QED  BY <3>1, BroadcastKeeps, Zenon DEF StreamInv
  <2> QED  BY <2>1, <2>2, Zenon
<1>5. ASSUME NEW s \in Subscribers, Subscribe(s) \/ Read(s) \/ Unsubscribe(s) PROVE StreamInv'
  BY <1>5, SubscribeKeeps, ReadKeeps, UnsubscribeKeeps, Zenon
<1> QED  BY <1>1, <1>2, <1>3, <1>4, <1>5, TransferFailsKeeps, SessionEndsKeeps, SessionMovesKeeps,
            Zenon DEF NotifyNext

\* StreamsFaithful is part of the invariant.
LEMMA StreamsServe == StreamInv => StreamsFaithful
<1> SUFFICES ASSUME StreamInv, NEW s \in Subscribers
             PROVE  /\ streams[s].closes <= 1
                    /\ InOrder(streams[s])
                    /\ s \in Subscribed(streams[s].of) /\ streams[s].of # 0 =>
                          /\ sessPhase # "Idle" /\ streams[s].of = begun
                          /\ Current(streams[s], Notifier.messageID)
  BY Zenon DEF StreamsFaithful, InOrder, Current
<1>1. streams[s] \in Streams /\ SoundStream(streams[s])
  BY Zenon DEF StreamInv
<1>2. streams[s].closes <= 1
  BY <1>1, SMTT(30) DEF Streams
<1>3. CASE streams[s].of = 0
  <2>1. streams[s].channel = <<>> /\ streams[s].read = 0
    BY <1>1, <1>3, SMTT(30) DEF SoundStream, NoStream
  <2>2. Len(Shown(streams[s])) = 0
    BY <2>1, Zenon DEF Shown
  <2> QED  BY <1>2, <1>3, <2>2, SMTT(30) DEF InOrder
<1>4. CASE streams[s].of # 0
  BY <1>1, <1>2, <1>4, Zenon DEF SoundStream, Subscribed, Notifier
<1> QED  BY <1>3, <1>4, Zenon

\* A subscriber that keeps up is always shown every message from its
\* subscription on, in order and up to the latest one, and its channel is
\* closed once and with the session (notifications.subscribe, broadcast and
\* close), for any number of subscribers, sessions and events and any buffers.
THEOREM StreamsAlwaysFaithful == WatchedSpec => []StreamsFaithful
<1>1. WatchedInit => StreamInv
  BY StreamInit, Zenon DEF WatchedInit
<1>2. StreamInv /\ [WatchedNext]_<<watched, vars, notifyVars>> => StreamInv'
  <2>1. WatchedNext => [NotifyNext]_notifyVars
    BY Zenon DEF WatchedNext
  <2>2. UNCHANGED <<watched, vars, notifyVars>> => UNCHANGED notifyVars
    BY Zenon
  <2> QED  BY <2>1, <2>2, StreamStep, Zenon
<1>3. StreamInv => StreamsFaithful
  BY StreamsServe, Zenon
<1> QED  BY <1>1, <1>2, <1>3, PTL DEF WatchedSpec

-----------------------------------------------------------------------------
(* The controller and its sessions.                                        *)

States ==
    {"Idle", "SourcePrepared", "SourceExported", "DestinationImported", "DestinationPrepared",
     "SocketWaiting", "SocketReady", "Transferring", "TransferCompleted", "Cancelling",
     "Cancelled", "Failed", "Finalized"}

VmStates ==
    {"NotCreated", "Running", "SourceMigrationInitialized", "SourceMigrationStarted",
     "DestinationMigrationImported", "DestinationMigrationCreated",
     "DestinationMigrationPatched", "DestinationMigrationStarted",
     "MigrationTransferCompleted", "MigrationFinalized", "Terminated", "Invalid"}

VMs ==
    [state : VmStates, guestMigrating : BOOLEAN, frozen : BOOLEAN, watched : BOOLEAN,
     gc : BOOLEAN, listening : BOOLEAN]

Pod == [migrating : BOOLEAN, frozen : BOOLEAN]

PastClaim == {"claimed", "started", "transferring", "completing"}
Places == {"none", "waiting", "failing"} \cup PastClaim
Driver == [pc : Places, channel : Nat]

\* The types of the controller's fields, of the VM, and of the goroutines and
\* threads at work on a session.
TypeOK ==
    /\ state \in States /\ dupSocket \in BOOLEAN /\ socketReady \in Nat
    /\ panicked \in BOOLEAN /\ cancelled \in BOOLEAN /\ sessions \in Nat
    /\ pods \in [Pods -> Pod] /\ vm \in VMs
    /\ drivers \in [Drivers -> Driver]
    /\ cancels \in [Cancellers -> {"none", "aborting", "aborted", "failed"}]

-----------------------------------------------------------------------------
(* What the operations of the VM controller can do to a VM.                 *)

\* A VM the controller can hold: a running one takes ordinary calls, and a guest
\* manager with a connection has no listener left to make another.
Sound(v) ==
    /\ v \in VMs
    /\ v.state = "Running" => ~v.frozen /\ ~v.guestMigrating
    /\ ~(v.gc /\ v.listening)

\* A method returns with an error or without.
LEMMA OkErr ==
    ASSUME NEW r, NEW w
    PROVE  /\ r \in Ok(w) => r.vm = w /\ r.err = FALSE
           /\ r \in Err(w) => r.vm = w /\ r.err = TRUE
  BY DEF Ok, Err

\* A method around one call moves the VM as it says, or leaves it alone.
LEMMA StepOutcome ==
    ASSUME NEW v, Sound(v), NEW from, NEW call, NEW to \in VmStates \ {"Running"},
           NEW r \in Step(v, from, call, to)
    PROVE  /\ Sound(r.vm) /\ r.err \in BOOLEAN
           /\ r.vm.frozen = v.frozen
           /\ r.err => r.vm = v
           /\ ~r.err => v.state \in from /\ r.vm.state = to
<1> DEFINE w == [v EXCEPT !.state = to]
<1>1. Sound(w) /\ w.state = to /\ w.frozen = v.frozen
  BY Zenon DEF VMs, Sound
<1>2. \/ r \in Err(v)
      \/ v.state \in from /\ r \in Ok(w)
  BY Zenon DEF Step, MayFail, To
<1> HIDE DEF w
<1>. QED
  BY <1>1, <1>2, OkErr, Zenon

\* Saving the VM freezes it, or fails.
LEMMA SaveOutcome ==
    ASSUME NEW v, Sound(v), NEW r \in SaveVM(v)
    PROVE  /\ Sound(r.vm) /\ r.err \in BOOLEAN
           /\ r.vm.state = v.state
           /\ v.state # "SourceMigrationInitialized" => r.err /\ r.vm = v
           /\ ~r.err => r.vm.frozen
<1> DEFINE w == [v EXCEPT !.frozen = TRUE]
<1>1. /\ w \in VMs /\ w.state = v.state /\ w.frozen
      /\ v.state # "Running" => Sound(w)
  BY Zenon DEF VMs, Sound
<1>2. \/ r \in Err(v)
      \/ v.state = "SourceMigrationInitialized" /\ r \in Err(w) \cup Ok(w)
  BY Zenon DEF SaveVM, MayFail
<1> HIDE DEF w
<1>. QED
  BY <1>1, <1>2, OkErr, Zenon

\* The host starts the migration of an initialized source, which stays as
\* frozen as it was.
LEMMA StartOnSourceOutcome ==
    ASSUME NEW v, Sound(v), NEW r \in StartLiveMigrationOnSource(v)
    PROVE  /\ Sound(r.vm) /\ r.err \in BOOLEAN
           /\ r.vm.frozen = v.frozen
           /\ v.state # "SourceMigrationInitialized" => r.err /\ r.vm = v
           /\ v.state = "SourceMigrationInitialized"
                => r.vm.state \in {"SourceMigrationInitialized", "SourceMigrationStarted"}
<1> DEFINE w == [v EXCEPT !.guestMigrating = FALSE]
           x == [v EXCEPT !.state = "SourceMigrationStarted", !.guestMigrating = TRUE]
<1>1. Sound(w) /\ w.state = v.state /\ w.frozen = v.frozen
  BY Zenon DEF VMs, Sound
<1>2. Sound(x) /\ x.state = "SourceMigrationStarted" /\ x.frozen = v.frozen
  BY Zenon DEF VMs, VmStates, Sound
<1>3. \/ v.state # "SourceMigrationInitialized" /\ r \in Err(v)
      \/ v.state = "SourceMigrationInitialized" /\ r \in Err(w) \cup Ok(x)
  BY Zenon DEF StartLiveMigrationOnSource, MayFail
<1> HIDE DEF w, x
<1>. QED
  BY <1>1, <1>2, <1>3, OkErr, Zenon

\* A destination imports a frozen VM, or refuses.
LEMMA ImportOutcome ==
    ASSUME NEW v, Sound(v), NEW r \in ImportVM(v)
    PROVE  /\ Sound(r.vm) /\ r.err \in BOOLEAN
           /\ ~r.err => r.vm.state = "DestinationMigrationImported"
<1> DEFINE w == [v EXCEPT !.state = "DestinationMigrationImported", !.frozen = TRUE]
<1>1. Sound(w) /\ w.state = "DestinationMigrationImported"
  BY Zenon DEF VMs, VmStates, Sound
<1>2. r \in Err(v) \cup Ok(w)
  BY Zenon DEF ImportVM
<1> HIDE DEF w
<1>. QED
  BY <1>1, <1>2, OkErr, Zenon

\* A patched destination starts; the listener is armed only where no connection
\* exists.
LEMMA StartDestinationOutcome ==
    ASSUME NEW v, Sound(v), NEW r \in StartWithMigrationOptions(v)
    PROVE  /\ Sound(r.vm) /\ r.err \in BOOLEAN
           /\ v.state # "DestinationMigrationPatched" => r.err /\ r.vm = v
           /\ v.state = "DestinationMigrationPatched"
                => r.vm.state \in {"DestinationMigrationPatched", "DestinationMigrationStarted"}
<1> DEFINE w == PrepareConnection(v)
           x == [w EXCEPT !.state = "DestinationMigrationStarted", !.watched = TRUE]
<1>1. Sound(w) /\ w.state = v.state
  BY Zenon DEF VMs, Sound, PrepareConnection
<1>2. Sound(x) /\ x.state = "DestinationMigrationStarted"
  <2> HIDE DEF w
  <2>. QED
    BY <1>1, Zenon DEF VMs, VmStates, Sound
<1>3. \/ v.state # "DestinationMigrationPatched" /\ r \in Err(v)
      \/ v.state = "DestinationMigrationPatched" /\ r \in Err(v) \cup Err(w) \cup Ok(x)
  BY Zenon DEF StartWithMigrationOptions, MayFail
<1> HIDE DEF w, x
<1>. QED
  BY <1>1, <1>2, <1>3, OkErr, Zenon

\* A final Stop terminates the VM, a final Resume prepares it for ResumeVM, and
\* neither leaves anything in between.
LEMMA FinalizeOutcome ==
    ASSUME NEW v, Sound(v), NEW side, NEW op, NEW r \in FinalizeLiveMigration(v, side, op)
    PROVE  /\ Sound(r.vm) /\ r.err \in BOOLEAN
           /\ r.err => r.vm = v
           /\ ~r.err => r.vm.state = IF op = "Stop" THEN "Terminated" ELSE "MigrationFinalized"
<1> DEFINE w == [v EXCEPT !.state = "Terminated", !.guestMigrating = FALSE,
                          !.frozen = @ /\ side # "Source"]
           x == [v EXCEPT !.state = "MigrationFinalized"]
<1>1. Sound(w) /\ w.state = "Terminated"
  BY Zenon DEF VMs, VmStates, Sound
<1>2. Sound(x) /\ x.state = "MigrationFinalized"
  BY Zenon DEF VMs, VmStates, Sound
<1>3. \/ r \in Err(v)
      \/ op = "Stop" /\ r \in Ok(w)
      \/ op # "Stop" /\ r \in Ok(x)
  BY Zenon DEF FinalizeLiveMigration, Stop, MayFail, To
<1> HIDE DEF w, x
<1>. QED
  BY <1>1, <1>2, <1>3, OkErr, Zenon

\* Terminating releases the guest connection, whatever becomes of the handle.
LEMMA TerminateOutcome ==
    ASSUME NEW v, Sound(v), NEW r \in TerminateVM(v)
    PROVE  /\ Sound(r.vm) /\ r.err \in BOOLEAN
           /\ v.state \in {"Terminated", "NotCreated"} => ~r.err /\ r.vm = v
           /\ v.state \notin {"Terminated", "NotCreated"}
                => r.vm.state = IF r.err THEN "Invalid" ELSE "Terminated"
           /\ r.err => "close" \in Faults
<1> DEFINE w == [v EXCEPT !.state = "Terminated"]
           released == [v EXCEPT !.guestMigrating = FALSE, !.gc = FALSE, !.listening = FALSE]
           x == [released EXCEPT !.state = "Terminated"]
           y == [released EXCEPT !.state = "Invalid"]
<1>1. Sound(w) /\ w.state = "Terminated"
  BY Zenon DEF VMs, VmStates, Sound
<1>2. released \in VMs /\ ~released.gc
  BY Zenon DEF VMs, VmStates, Sound
<1>3. Sound(x) /\ x.state = "Terminated" /\ Sound(y) /\ y.state = "Invalid"
  <2> HIDE DEF released
  <2>. QED
    BY <1>2, Zenon DEF VMs, VmStates, Sound
<1>4. \/ v.state \in {"Terminated", "NotCreated"} /\ r \in Ok(v)
      \/ v.state = "DestinationMigrationImported" /\ r \in Ok(w)
      \/ v.state \notin {"Terminated", "NotCreated"} /\ r \in Ok(x)
      \/ v.state \notin {"Terminated", "NotCreated"} /\ "close" \in Faults /\ r \in Err(y)
  BY Zenon DEF TerminateVM, MayFail, To
<1> HIDE DEF w, x, y
<1>. QED
  BY <1>1, <1>3, <1>4, OkErr, Zenon

\* A VM that exited is terminated.
LEMMA ExitOutcome ==
    ASSUME NEW v, Sound(v)
    PROVE  Sound(Exited(v)) /\ Exited(v).state = "Terminated"
  BY Zenon DEF VMs, VmStates, Sound, Exited, To

\* The guest's agent connects over the listener, which is spent either way.
LEMMA AcceptOutcome ==
    ASSUME NEW v, v \in VMs, v.state = "MigrationFinalized", NEW r \in Accept(v)
    PROVE  Sound(r.vm) /\ r.err \in BOOLEAN /\ r.vm.state = "MigrationFinalized"
<1> DEFINE w == [v EXCEPT !.listening = FALSE]
           x == [w EXCEPT !.gc = TRUE]
<1>1. Sound(w) /\ w.state = v.state /\ ~w.listening
  BY Zenon DEF VMs, Sound
<1>2. Sound(x) /\ x.state = v.state
  <2> HIDE DEF w
  <2>. QED
    BY <1>1, Zenon DEF VMs, Sound
<1>3. r \in Err(w) \cup Ok(x)
  BY Zenon DEF Accept, MayFail
<1> HIDE DEF w, x
<1>. QED
  BY <1>1, <1>2, <1>3, OkErr, Zenon

\* A finalized VM runs again, thawed, or is left for another attempt.  On a
\* source it never does: PrepareConnection arms no listener for a guest manager
\* that has a connection, and a connection resumes over a listener only.
LEMMA ResumeOutcome ==
    ASSUME NEW v, Sound(v), v.state = "MigrationFinalized", NEW side,
           NEW r \in ResumeVM(v, side)
    PROVE  /\ Sound(r.vm) /\ r.err \in BOOLEAN
           /\ r.err => r.vm.state = "MigrationFinalized"
           /\ ~r.err => r.vm.state = "Running" /\ side # "Source"
<1> DEFINE made == IF side = "Source" THEN ResumeConnection(PrepareConnection(v))
                   ELSE CreateConnection(v)
<1>1. ASSUME NEW q \in made
      PROVE  /\ Sound(q.vm) /\ q.err \in BOOLEAN /\ q.vm.state = "MigrationFinalized"
             /\ side = "Source" => q.err
  <2>1. CASE side = "Source"
    <3> DEFINE w == PrepareConnection(v)
    <3>1. Sound(w) /\ w.state = v.state
      BY Zenon DEF VMs, Sound, PrepareConnection
    <3>2. q \in ResumeConnection(w)
      BY <2>1, Zenon
    <3> HIDE DEF w
    <3>3. q \in Err(w)
      BY <3>1, <3>2, Zenon DEF ResumeConnection, Sound
    <3>. QED
      BY <3>1, <3>3, OkErr, Zenon
  <2>2. CASE side # "Source"
    <3>1. q \in Ok(v) \cup Err(v) \cup Accept(v)
      BY <2>2, Zenon DEF CreateConnection
    <3>. QED
      BY <2>2, <3>1, OkErr, AcceptOutcome, Zenon DEF Sound
  <2>. QED
    BY <2>1, <2>2, Zenon
<1>2. ASSUME NEW w, Sound(w), w.state = "MigrationFinalized", NEW q \in Thaw(w)
      PROVE  /\ Sound(q.vm) /\ q.err \in BOOLEAN
             /\ q.vm.state = IF q.err THEN "MigrationFinalized" ELSE "Running"
  <2> DEFINE x == [w EXCEPT !.guestMigrating = FALSE]
             y == [x EXCEPT !.frozen = FALSE, !.state = "Running"]
  <2>1. Sound(x) /\ x.state = w.state /\ ~x.guestMigrating
    BY <1>2, Zenon DEF VMs, Sound
  <2>2. Sound(y) /\ y.state = "Running"
    <3> HIDE DEF x
    <3>. QED
      BY <2>1, Zenon DEF VMs, VmStates, Sound
  <2>3. q \in Err(x) \cup Ok(y)
    BY <1>2, Zenon DEF Thaw
  <2> HIDE DEF x, y
  <2>. QED
    BY <1>2, <2>1, <2>2, <2>3, OkErr, Zenon
<1>3. \/ r \in Err(v)
      \/ \E q \in made : \/ q.err /\ r = q
                         \/ ~q.err /\ r \in Err(q.vm) \cup Thaw(q.vm)
  BY Zenon DEF ResumeVM, MayFail
<1> HIDE DEF made
<1>4. CASE r \in Err(v)
  BY <1>4, OkErr, Zenon
<1>5. ASSUME NEW q \in made, q.err, r = q
      PROVE  Sound(r.vm) /\ r.err = TRUE /\ r.vm.state = "MigrationFinalized"
  BY <1>1, <1>5, Zenon
<1>6. ASSUME NEW q \in made, ~q.err, r \in Err(q.vm) \cup Thaw(q.vm)
      PROVE  /\ Sound(r.vm) /\ r.err \in BOOLEAN /\ side # "Source"
             /\ r.vm.state = IF r.err THEN "MigrationFinalized" ELSE "Running"
  <2>1. Sound(q.vm) /\ q.vm.state = "MigrationFinalized" /\ side # "Source"
    BY <1>1, <1>6, Zenon
  <2>. QED
    BY <1>2, <1>6, <2>1, OkErr, Zenon
<1>. QED
  BY <1>3, <1>4, <1>5, <1>6, Zenon

-----------------------------------------------------------------------------
(* The inductive invariants.                                                *)

Base == TypeOK /\ Sound(vm)

\* Nothing undoes a Cancel but the Cleanup of the session.
CancelKept == cancelled => state \in {"Cancelling", "Cancelled", "Failed", "Finalized"}

\* Before the first session nobody works on one.
Unstarted ==
    sessions = 0 => /\ state = "Idle"
                    /\ \A t \in Drivers : drivers[t].pc = "none"
                    /\ \A k \in Cancellers : cancels[k] = "none"

\* While a goroutine is past its claim no socket is ready to be claimed again,
\* and none will be: the session is past that point, or it was the last one.
ClaimKept ==
    \A t \in Drivers :
        drivers[t].pc \in PastClaim
            => \/ state \in {"Transferring", "TransferCompleted", "Cancelling", "Cancelled",
                             "Failed", "Finalized"}
               \/ state = "Idle" /\ MaxSessions <= sessions

\* The VM and all of its pods are frozen.
Held == vm.frozen /\ \A p \in Pods : pods[p].migrating /\ pods[p].frozen

\* A source whose export succeeded is held until it is finalized: while a driver
\* can still come to claim it, and after the claim.
ExportHeld ==
    /\ vm.state = "SourceMigrationInitialized"
    /\ \/ state \in {"SourceExported", "DestinationPrepared", "SocketWaiting", "SocketReady"}
       \/ \E t \in Drivers : drivers[t].pc = "claimed"
    => Held

OwnInv == CancelKept /\ Unstarted /\ ClaimKept /\ SingleDriver /\ ExportHeld /\ StreamsOnlyExported

\* A session has a side, and on the destination a pod is migrating or thawed.
Sided ==
    /\ state = "SourcePrepared" => origin = "Source"
    /\ session # None => origin \in {"Source", "Destination"}
    /\ session # None /\ origin = "Destination"
          => \A p \in Pods : pods[p].migrating \/ pods[p] = Thawed

SettleInv == Sided /\ FinalizedIsSettled

-----------------------------------------------------------------------------
(* Types, and soundness of the VM.                                          *)

\* A goroutine moves on, and the others stay where they are.
LEMMA Moves ==
    ASSUME TypeOK, NEW t \in Drivers, NEW pc \in Places, Goes(t, pc)
    PROVE  /\ drivers' \in [Drivers -> Driver]
           /\ drivers'[t].pc = pc
           /\ \A u \in Drivers : u # t => drivers'[u] = drivers[u]
<1>1. drivers[t] \in Driver /\ [drivers[t] EXCEPT !.pc = pc] \in Driver
      /\ [drivers[t] EXCEPT !.pc = pc].pc = pc
  BY Zenon DEF TypeOK, Driver
<1>2. Idling \in Driver /\ Idling.pc = "none"
  BY Zenon DEF Idling, Driver, Places
<1>. QED
  BY <1>1, <1>2, Zenon DEF TypeOK, Goes

\* Pods as an export and a resume leave them; one that came through has frozen,
\* and thawed, every pod.
LEMMA PodsOutcome ==
    ASSUME pods \in [Pods -> Pod]
    PROVE  /\ \A s \in SavePods :
                 /\ s.pods \in [Pods -> Pod] /\ s.err \in BOOLEAN
                 /\ ~s.err => \A p \in Pods : s.pods[p] = Frozen
           /\ \A s \in ResumePods :
                 /\ s.pods \in [Pods -> Pod] /\ s.err \in BOOLEAN
                 /\ ~s.err => \A p \in Pods : s.pods[p] = Resumed(p)
                 /\ \A p \in Pods : \/ s.pods[p] \in {Resumed(p), pods[p]}
                                    \/ s.pods[p].migrating
<1>1. Frozen \in Pod /\ Thawed \in Pod /\ \A some \in BOOLEAN : BadlySaved(some) \in Pod
  BY Zenon DEF Frozen, Thawed, BadlySaved, Pod
<1>2. \A p \in Pods : Resumed(p) \in Pod
  BY <1>1, Zenon DEF Resumed
<1>3. ASSUME NEW done \in SUBSET Pods, NEW bad \in Pods, NEW some \in BOOLEAN
      PROVE  HalfSaved(done, bad, some) \in [Pods -> Pod]
  BY <1>1, Zenon DEF HalfSaved
<1>4. ASSUME NEW done \in SUBSET Pods, NEW some \in BOOLEAN,
             NEW bad \in Pods, pods[bad].migrating
      PROVE  /\ HalfResumed(done, bad, some) \in [Pods -> Pod]
             /\ \A p \in Pods : \/ HalfResumed(done, bad, some)[p] \in {Resumed(p), pods[p]}
                                \/ HalfResumed(done, bad, some)[p].migrating
  <2> DEFINE half == [pods[bad] EXCEPT !.frozen = @ /\ some]
  <2>1. half \in Pod /\ half.migrating
    BY <1>4, Zenon DEF Pod
  <2>2. HalfResumed(done, bad, some) =
            [p \in Pods |-> IF p = bad THEN half ELSE IF p \in done THEN Resumed(p) ELSE pods[p]]
    BY Zenon DEF HalfResumed
  <2> HIDE DEF half
  <2>. QED
    BY <1>2, <2>1, <2>2, Zenon
<1>5. ASSUME NEW s \in SavePods
      PROVE  /\ s.pods \in [Pods -> Pod] /\ s.err \in BOOLEAN
             /\ ~s.err => \A p \in Pods : s.pods[p] = Frozen
  <2>1. \/ s = [pods |-> [p \in Pods |-> Frozen], err |-> FALSE]
        \/ \E done \in SUBSET Pods, bad \in Pods, some \in BOOLEAN :
              s = [pods |-> HalfSaved(done, bad, some), err |-> TRUE]
    BY DEF SavePods
  <2>2. CASE s = [pods |-> [p \in Pods |-> Frozen], err |-> FALSE]
    BY <1>1, <2>2, Zenon
  <2>3. ASSUME NEW f \in [Pods -> Pod], s = [pods |-> f, err |-> TRUE]
        PROVE  s.pods \in [Pods -> Pod] /\ s.err = TRUE
    BY <2>3, Zenon
  <2>. QED
    BY <1>3, <2>1, <2>2, <2>3, Zenon
<1>6. ASSUME NEW s \in ResumePods
      PROVE  /\ s.pods \in [Pods -> Pod] /\ s.err \in BOOLEAN
             /\ ~s.err => \A p \in Pods : s.pods[p] = Resumed(p)
             /\ \A p \in Pods : s.pods[p] \in {Resumed(p), pods[p]} \/ s.pods[p].migrating
  <2>1. \/ s = [pods |-> [p \in Pods |-> Resumed(p)], err |-> FALSE]
        \/ \E done \in SUBSET Pods, bad \in Pods, some \in BOOLEAN :
              /\ pods[bad].migrating
              /\ s = [pods |-> HalfResumed(done, bad, some), err |-> TRUE]
    BY DEF ResumePods
  <2>2. CASE s = [pods |-> [p \in Pods |-> Resumed(p)], err |-> FALSE]
    BY <1>2, <2>2, Zenon
  <2>3. ASSUME NEW f \in [Pods -> Pod], s = [pods |-> f, err |-> TRUE]
        PROVE  s.pods = f /\ s.err = TRUE
    BY <2>3, Zenon
  <2>4. ASSUME NEW done \in SUBSET Pods, NEW bad \in Pods, NEW some \in BOOLEAN,
               pods[bad].migrating, s = [pods |-> HalfResumed(done, bad, some), err |-> TRUE]
        PROVE  /\ s.pods \in [Pods -> Pod] /\ s.err = TRUE
               /\ \A p \in Pods : s.pods[p] \in {Resumed(p), pods[p]} \/ s.pods[p].migrating
    <3>1. s.pods = HalfResumed(done, bad, some) /\ s.err = TRUE
      BY <1>4, <2>3, <2>4, Zenon
    <3>. QED
      BY <1>4, <2>4, <3>1, Zenon
  <2>. QED
    BY <2>1, <2>2, <2>4, Zenon
<1>. QED
  BY <1>5, <1>6, Zenon

\* Every step of a goroutine keeps the types and the soundness of the VM.
LEMMA BaseDriving ==
    ASSUME Base, NEW t \in Drivers, Driving(t)
    PROVE  Base'
<1> USE DEF Base, Places, PastClaim
<1>1. CASE Transfer(t)
  <2>1. [pc |-> "waiting", channel |-> socketReady] \in Driver
    BY Zenon DEF TypeOK, Driver
  <2>2. drivers' \in [Drivers -> Driver]
    BY <1>1, <2>1, Zenon DEF Transfer, TypeOK
  <2>. QED
    BY <1>1, <2>2, Zenon DEF Transfer, TypeOK, States
<1>2. CASE TimeOut(t)
  BY <1>2, Moves, Zenon DEF TimeOut, TypeOK, control
<1>3. CASE Claim(t)
  BY <1>3, Moves, Zenon DEF Claim, TypeOK, States
<1>4. CASE RunStart(t)
  <2>1. CASE session # None
    <3>1. PICK r \in IF origin = "Source" THEN StartLiveMigrationOnSource(vm)
                     ELSE StartWithMigrationOptions(vm) :
              vm' = r.vm /\ Goes(t, IF r.err THEN "failing" ELSE "started")
      BY <1>4, <2>1, Zenon DEF RunStart
    <3>2. Sound(r.vm)
      BY StartOnSourceOutcome, StartDestinationOutcome, Zenon
    <3>. QED
      BY <1>4, <2>1, <3>1, <3>2, Moves, Zenon DEF RunStart, TypeOK, Sound, control
  <2>2. CASE session = None
    BY <1>4, <2>2, Moves, Zenon DEF RunStart, TypeOK, control
  <2>. QED
    BY <2>1, <2>2, Zenon
<1>5. CASE RunTransfer(t)
  BY <1>5, Moves, Zenon DEF RunTransfer, TypeOK, control
<1>6. CASE RunEnds(t)
  <2>1. PICK r \in StartLiveMigrationTransfer(vm) :
            vm' = r.vm /\ Goes(t, IF r.err THEN "failing" ELSE "completing")
    BY <1>6, Zenon DEF RunEnds
  <2>2. Sound(r.vm)
    BY StepOutcome, Zenon DEF StartLiveMigrationTransfer, VmStates
  <2>. QED
    BY <1>6, <2>1, <2>2, Moves, Zenon DEF RunEnds, TypeOK, Sound, control
<1>7. CASE Complete(t)
  BY <1>7, Moves, Zenon DEF Complete, TypeOK, States
<1>8. CASE FailTransfer(t)
  BY <1>8, Moves, Zenon DEF FailTransfer, TypeOK, States
<1>. QED
  BY <1>1, <1>2, <1>3, <1>4, <1>5, <1>6, <1>7, <1>8, Zenon DEF Driving

\* A final Stop that succeeds leaves a terminated VM, a final Resume one that is
\* ready to be resumed, wherever an earlier attempt left it.
LEMMA FinalOutcome ==
    ASSUME Sound(vm), NEW op \in {"Stop", "Resume"}, NEW r \in FinalOperation(op)
    PROVE  /\ Sound(r.vm) /\ r.err \in BOOLEAN
           /\ op = "Stop" => /\ ~r.err => r.vm.state = "Terminated"
                             /\ r.err => r.vm = vm \/ r.vm.state = "Invalid"
           /\ op = "Resume" => /\ ~r.err => r.vm.state = "MigrationFinalized"
                               /\ r.err => r.vm = vm
<1>1. CASE vm.state = "Terminated"
  <2>1. r \in IF op = "Resume" THEN Err(vm) ELSE Ok(vm)
    BY <1>1, Zenon DEF FinalOperation
  <2>. QED
    BY <1>1, <2>1, OkErr, Zenon
<1>2. CASE vm.state = "MigrationFinalized"
  <2>1. r \in IF op = "Stop" THEN TerminateVM(vm) ELSE Ok(vm)
    BY <1>2, Zenon DEF FinalOperation
  <2>. QED
    BY <1>2, <2>1, OkErr, TerminateOutcome, Zenon
<1>3. CASE vm.state \notin {"Terminated", "MigrationFinalized"}
  <2>1. r \in FinalizeLiveMigration(vm, origin, op)
    BY <1>3, Zenon DEF FinalOperation
  <2>. QED
    BY <2>1, FinalizeOutcome
<1>. QED
  BY <1>1, <1>2, <1>3, Zenon

\* Every step keeps the types and the soundness of the VM.
LEMMA BaseStep ==
    ASSUME Base, [Next]_vars
    PROVE  Base'
<1> USE DEF Base
<1>1. CASE PrepareSource
  <2>1. PICK r \in InitializeLiveMigrationOnSource(vm) : ~r.err /\ vm' = r.vm
    BY <1>1, Zenon DEF PrepareSource
  <2>2. Sound(r.vm)
    BY StepOutcome, Zenon DEF InitializeLiveMigrationOnSource, VmStates
  <2>. QED
    BY <1>1, <2>1, <2>2 DEF PrepareSource, NewSession, TypeOK, States, Sound
<1>2. CASE ExportState
  <2>1. PICK r \in SaveVM(vm), s \in SavePods :
            /\ vm' = r.vm
            /\ pods' = IF r.err THEN pods ELSE s.pods
            /\ state' = IF r.err \/ s.err THEN "Failed" ELSE "SourceExported"
    BY <1>2, Zenon DEF ExportState
  <2>2. Sound(r.vm) /\ s.pods \in [Pods -> Pod]
    BY SaveOutcome, PodsOutcome, Zenon DEF TypeOK
  <2>. QED
    BY <1>2, <2>1, <2>2, Zenon DEF ExportState, TypeOK, States, Sound
<1>3. CASE ImportState
  <2>1. PICK r \in ImportVM(vm) : ~r.err /\ vm' = r.vm
    BY <1>3, Zenon DEF ImportState
  <2>2. Sound(r.vm) /\ Frozen \in Pod
    BY ImportOutcome, Zenon DEF Frozen, Pod
  <2>. QED
    BY <1>3, <2>1, <2>2 DEF ImportState, NewSession, TypeOK, States, Sound
<1>4. ASSUME NEW p \in Pods, PatchResourcePaths(p)
      PROVE  Base'
  BY <1>4, Zenon DEF PatchResourcePaths, TypeOK
<1>5. CASE PrepareDestination
  <2>1. PICK r \in CreateVM(vm) :
            /\ ~r.err
            /\ \E q \in PatchVM(r.vm) :
                 vm' = q.vm /\ state' = IF q.err THEN "Failed" ELSE "DestinationPrepared"
    BY <1>5, Zenon DEF PrepareDestination
  <2>2. PICK q \in PatchVM(r.vm) :
            vm' = q.vm /\ state' = IF q.err THEN "Failed" ELSE "DestinationPrepared"
    BY <2>1, Zenon
  <2>3. Sound(r.vm)
    BY StepOutcome, Zenon DEF CreateVM, VmStates
  <2>4. Sound(q.vm)
    BY <2>3, StepOutcome, Zenon DEF PatchVM, VmStates
  <2>. QED
    BY <1>5, <2>2, <2>4, Zenon DEF PrepareDestination, TypeOK, States, Sound
<1>6. CASE RegisterDuplicateSocket
  <2>1. PICK ok \in BOOLEAN : dupSocket' = ok /\ state' = IF ok THEN "SocketReady" ELSE "Failed"
    BY <1>6, Zenon DEF RegisterDuplicateSocket
  <2>2. dupSocket' \in BOOLEAN /\ state' \in States
    BY <2>1, Zenon DEF States
  <2>3. panicked' \in BOOLEAN
    <3>1. panicked' = (socketReady \in closed)
      BY <1>6, Zenon DEF RegisterDuplicateSocket, Close
    <3>. QED
      BY <3>1
  <2>. QED
    BY <1>6, <2>2, <2>3, Zenon DEF RegisterDuplicateSocket, TypeOK
<1>7. ASSUME NEW t \in Drivers, Driving(t)
      PROVE  Base'
  BY <1>7, BaseDriving, Zenon
<1>8. CASE CancelImported
  BY <1>8, Zenon DEF CancelImported, TypeOK, States
<1>9. ASSUME NEW k \in Cancellers, Cancelling(k)
      PROVE  Base'
  <2>1. CASE CancelBegin(k)
    BY <2>1, Zenon DEF CancelBegin, CloseOnce, TypeOK, States
  <2>2. CASE CancelAborts(k)
    BY <2>2, Zenon DEF CancelAborts, TypeOK, control
  <2>3. CASE CancelEnds(k)
    BY <2>3, Zenon DEF CancelEnds, TypeOK, States
  <2>. QED
    BY <1>9, <2>1, <2>2, <2>3, Zenon DEF Cancelling
<1>10. CASE FinalizeStop
  <2>1. PICK r \in FinalOperation("Stop") :
            vm' = r.vm /\ state' = IF r.err THEN state ELSE "Finalized"
    BY <1>10, Zenon DEF FinalizeStop
  <2>2. Sound(r.vm)
    BY FinalOutcome, Zenon
  <2>. QED
    BY <1>10, <2>1, <2>2, Zenon DEF FinalizeStop, TypeOK, States, Sound
<1>11. CASE FinalizeResume
  <2>1. PICK r \in FinalOperation("Resume") :
         \/ r.err /\ vm' = r.vm /\ UNCHANGED <<pods, state>>
         \/ /\ ~r.err
            /\ \E q \in ResumeVM(r.vm, origin) :
                 \/ q.err /\ vm' = q.vm /\ UNCHANGED <<pods, state>>
                 \/ /\ ~q.err
                    /\ vm' = q.vm
                    /\ \E s \in ResumePods :
                         /\ pods' = s.pods
                         /\ state' = IF s.err THEN state ELSE "Finalized"
    BY <1>11, Zenon DEF FinalizeResume
  <2>2. Sound(r.vm) /\ (~r.err => r.vm.state = "MigrationFinalized")
    BY FinalOutcome, Zenon
  <2>3. CASE r.err
    BY <1>11, <2>1, <2>2, <2>3, Zenon DEF FinalizeResume, TypeOK, Sound
  <2>4. CASE ~r.err
    <3>1. PICK q \in ResumeVM(r.vm, origin) :
                 \/ q.err /\ vm' = q.vm /\ UNCHANGED <<pods, state>>
                 \/ /\ ~q.err
                    /\ vm' = q.vm
                    /\ \E s \in ResumePods :
                         /\ pods' = s.pods
                         /\ state' = IF s.err THEN state ELSE "Finalized"
      BY <2>1, <2>4, Zenon
    <3>2. Sound(q.vm)
      BY <2>2, <2>4, ResumeOutcome, Zenon
    <3>3. pods' \in [Pods -> Pod]
      BY <3>1, PodsOutcome DEF TypeOK
    <3>. QED
      BY <1>11, <3>1, <3>2, <3>3 DEF FinalizeResume, TypeOK, States, Sound
  <2>. QED
    BY <2>3, <2>4, Zenon
<1>12. CASE Cleanup
  <2>1. /\ dupSocket' = FALSE /\ cancelled' = FALSE /\ state' = "Idle"
        /\ socketReady' = socketReady + 1
        /\ UNCHANGED <<panicked, pods, vm, drivers, cancels, sessions>>
    BY <1>12, Zenon DEF Cleanup
  <2>2. socketReady' \in Nat
    BY <2>1 DEF TypeOK
  <2>. QED
    BY <2>1, <2>2, Zenon DEF TypeOK, States
<1>13. CASE VMExits
  BY <1>13, ExitOutcome, Zenon DEF VMExits, TypeOK, Sound, control
<1>14. CASE StopSandbox
  BY <1>14, TerminateOutcome DEF StopSandbox, TypeOK, Sound, control
<1>15. CASE UNCHANGED vars
  BY <1>15, Zenon DEF vars, control, TypeOK
<1>. QED
  BY <1>1, <1>2, <1>3, <1>4, <1>5, <1>6, <1>7, <1>8, <1>9, <1>10, <1>11, <1>12, <1>13, <1>14,
     <1>15, Zenon DEF Next

-----------------------------------------------------------------------------
(* Who owns a transfer.                                                     *)

\* No step but Cleanup takes back a Cancel, and none resumes the session.
LEMMA CancelKeptStep ==
    ASSUME TypeOK, CancelKept, [Next]_vars
    PROVE  CancelKept'
<1> USE DEF CancelKept
<1>1. CASE PrepareSource \/ ImportState
  BY <1>1, Zenon DEF PrepareSource, ImportState, NewSession
<1>2. CASE ExportState
  BY <1>2, Zenon DEF ExportState
<1>3. ASSUME NEW p \in Pods, PatchResourcePaths(p)
      PROVE  CancelKept'
  BY <1>3, Zenon DEF PatchResourcePaths
<1>4. CASE PrepareDestination
  BY <1>4, Zenon DEF PrepareDestination
<1>5. CASE RegisterDuplicateSocket
  BY <1>5, Zenon DEF RegisterDuplicateSocket, Registrable
<1>6. ASSUME NEW t \in Drivers, Driving(t)
      PROVE  CancelKept'
  BY <1>6, Zenon
     DEF Driving, Transfer, TimeOut, Claim, Claimable, RunStart, RunTransfer, RunEnds,
              Complete, StillTransferring, FailTransfer, control
<1>7. CASE CancelImported
  BY <1>7, Zenon DEF CancelImported
<1>8. ASSUME NEW k \in Cancellers, Cancelling(k)
      PROVE  CancelKept'
  BY <1>8, Zenon DEF Cancelling, CancelBegin, CancelAborts, CancelEnds, control
<1>9. CASE FinalizeStop \/ FinalizeResume
  <2>1. cancelled' = cancelled /\ state' \in {state, "Finalized"}
    BY <1>9, Zenon DEF FinalizeStop, FinalizeResume
  <2>. QED
    BY <2>1, Zenon
<1>10. CASE Cleanup
  BY <1>10, Zenon DEF Cleanup
<1>11. CASE VMExits \/ StopSandbox \/ UNCHANGED vars
  BY <1>11, ZenonT(40) DEF VMExits, StopSandbox, vars, control
<1>. QED
  BY <1>1, <1>2, <1>3, <1>4, <1>5, <1>6, <1>7, <1>8, <1>9, <1>10, <1>11, Zenon DEF Next

\* Work on a session starts with the session.
LEMMA UnstartedStep ==
    ASSUME TypeOK, Unstarted, [Next]_vars
    PROVE  Unstarted'
<1> USE DEF Unstarted
<1>1. CASE PrepareSource \/ ImportState
  BY <1>1 DEF PrepareSource, ImportState, NewSession, TypeOK
<1>2. CASE ExportState
  BY <1>2, Zenon DEF ExportState
<1>3. ASSUME NEW p \in Pods, PatchResourcePaths(p)
      PROVE  Unstarted'
  BY <1>3, Zenon DEF PatchResourcePaths
<1>4. CASE PrepareDestination
  BY <1>4, Zenon DEF PrepareDestination
<1>5. CASE RegisterDuplicateSocket
  BY <1>5, Zenon DEF RegisterDuplicateSocket, Registrable
<1>6. ASSUME NEW t \in Drivers, Driving(t)
      PROVE  Unstarted'
  <2>1. /\ sessions' = sessions
        /\ state \in {"SocketReady", "SourceExported", "DestinationPrepared"}
           \/ drivers[t].pc # "none"
    BY <1>6, Zenon DEF Driving, Transfer, TimeOut, Claim, RunStart, RunTransfer, RunEnds,
                Complete, FailTransfer, At
  <2>. QED
    BY <2>1, Zenon
<1>7. CASE CancelImported
  BY <1>7, Zenon DEF CancelImported
<1>8. ASSUME NEW k \in Cancellers, Cancelling(k)
      PROVE  Unstarted'
  BY <1>8, ZenonT(40) DEF Cancelling, CancelBegin, CancelAborts, CancelEnds
<1>9. CASE FinalizeStop \/ FinalizeResume
  BY <1>9, ZenonT(40) DEF FinalizeStop, FinalizeResume, Settled
<1>10. CASE Cleanup
  BY <1>10, Zenon DEF Cleanup
<1>11. CASE VMExits \/ StopSandbox \/ UNCHANGED vars
  BY <1>11, Zenon DEF VMExits, StopSandbox, vars, control
<1>. QED
  BY <1>1, <1>2, <1>3, <1>4, <1>5, <1>6, <1>7, <1>8, <1>9, <1>10, <1>11, ZenonT(40) DEF Next

\* Past its claim a goroutine keeps the session to itself.
LEMMA ClaimKeptStep ==
    ASSUME TypeOK, Unstarted, ClaimKept, SingleDriver, [Next]_vars,
           Quiesces \/ MaxSessions <= 1
    PROVE  ClaimKept' /\ SingleDriver'
<1>1. CASE PrepareSource \/ ImportState
  BY <1>1, MigrationAssumption, SMTT(30)
  DEF PrepareSource, ImportState, NewSession, ClaimKept, SingleDriver, PastClaim, TypeOK
<1>2. CASE ExportState
  BY <1>2, Zenon DEF ExportState, ClaimKept, SingleDriver, PastClaim
<1>3. ASSUME NEW p \in Pods, PatchResourcePaths(p)
      PROVE  ClaimKept' /\ SingleDriver'
  BY <1>3, Zenon DEF PatchResourcePaths, ClaimKept, SingleDriver, PastClaim
<1>4. CASE PrepareDestination
  BY <1>4, Zenon DEF PrepareDestination, ClaimKept, SingleDriver, PastClaim
<1>5. CASE RegisterDuplicateSocket
  BY <1>5, Zenon DEF RegisterDuplicateSocket, Registrable, ClaimKept, SingleDriver, PastClaim
<1>6. ASSUME NEW t \in Drivers, Driving(t)
      PROVE  ClaimKept' /\ SingleDriver'
  <2> USE DEF ClaimKept, SingleDriver, PastClaim
  <2>1. /\ sessions' = sessions
        /\ \A u \in Drivers : u # t => drivers'[u] = drivers[u]
    BY <1>6, Moves, Zenon DEF Driving, Transfer, TimeOut, Claim, RunStart, RunTransfer, RunEnds,
                       Complete, FailTransfer, Places, TypeOK
  <2>2. CASE Transfer(t)
    <3>1. /\ drivers'[t].pc = "waiting"
          /\ state \in {"SocketReady", "SourceExported", "DestinationPrepared"}
      BY <2>2, Zenon DEF Transfer, TypeOK
    <3>. QED
      BY <2>1, <3>1, Zenon
  <2>3. CASE Claim(t)
    <3>1. \/ /\ state = "SocketReady" /\ state' = "Transferring"
             /\ drivers'[t].pc = "claimed"
          \/ state' = state /\ drivers'[t].pc \in {"failing", "none"}
      BY <2>3, Moves, Zenon DEF Claim, Claimable, Places
    <3>. QED
      BY <2>1, <3>1
  <2>4. CASE Complete(t) \/ FailTransfer(t)
    <3>1. /\ drivers'[t].pc = "none"
          /\ \/ state' = state
             \/ state = "Transferring" /\ state' = "TransferCompleted"
             \/ state' = "Failed"
      BY <2>4, Moves, Zenon DEF Complete, FailTransfer, StillTransferring, Places
    <3>. QED
      BY <2>1, <3>1, SMTT(30)
  <2>5. CASE TimeOut(t)
    <3>1. drivers'[t].pc = "failing" /\ state' = state
      BY <2>5, Moves, Zenon DEF TimeOut, Places, control
    <3>. QED
      BY <2>1, <3>1
  <2>6. CASE RunStart(t) \/ RunTransfer(t) \/ RunEnds(t)
    <3>1. drivers[t].pc \in PastClaim /\ state' = state
      BY <2>6, Zenon DEF RunStart, RunTransfer, RunEnds, At, control
    <3>. QED
      BY <2>1, <3>1, SMTT(30)
  <2>. QED
    BY <1>6, <2>2, <2>3, <2>4, <2>5, <2>6, Zenon DEF Driving
<1>7. CASE CancelImported
  BY <1>7, Zenon DEF CancelImported, ClaimKept, SingleDriver, PastClaim
<1>8. ASSUME NEW k \in Cancellers, Cancelling(k)
      PROVE  ClaimKept' /\ SingleDriver'
  BY <1>8 DEF Cancelling, CancelBegin, CancelAborts, CancelEnds, control, ClaimKept,
              SingleDriver, PastClaim
<1>9. CASE FinalizeStop \/ FinalizeResume
  <2>1. drivers' = drivers /\ sessions' = sessions /\ state' \in {state, "Finalized"}
    BY <1>9, Zenon DEF FinalizeStop, FinalizeResume
  <2>. QED
    BY <2>1, Zenon DEF ClaimKept, SingleDriver, PastClaim
<1>10. CASE Cleanup
  <2>1. /\ drivers' = drivers /\ sessions' = sessions /\ state' = "Idle"
        /\ state \in {"Finalized", "Cancelled"}
        /\ Quiesces => \A t \in Drivers : drivers[t] = Idling
    BY <1>10, Zenon DEF Cleanup, CanCleanup, WindsDown
  <2>2. sessions >= 1
    BY <2>1 DEF Unstarted, TypeOK
  <2>3. MaxSessions <= sessions \/ \A t \in Drivers : drivers[t].pc = "none"
    BY <2>1, <2>2, MigrationAssumption, SMTT(30) DEF Idling, TypeOK
  <2>. QED
    BY <2>1, <2>3, Zenon DEF ClaimKept, SingleDriver, PastClaim
<1>11. CASE VMExits \/ StopSandbox \/ UNCHANGED vars
  BY <1>11, SMTT(30) DEF VMExits, StopSandbox, vars, control, ClaimKept, SingleDriver, PastClaim
<1>. QED
  BY <1>1, <1>2, <1>3, <1>4, <1>5, <1>6, <1>7, <1>8, <1>9, <1>10, <1>11, ZenonT(40) DEF Next

\* From the export to the end of the transfer nothing thaws.
LEMMA ExportHeldStep ==
    ASSUME Base, ClaimKept, ExportHeld, StreamsOnlyExported, [Next]_vars
    PROVE  ExportHeld' /\ StreamsOnlyExported'
<1> USE DEF ExportHeld, StreamsOnlyExported, Held
<1>1. CASE PrepareSource
  <2>1. /\ state' = "SourcePrepared" /\ drivers' = drivers
        /\ state = "Idle" /\ sessions < MaxSessions
    BY <1>1, Zenon DEF PrepareSource, NewSession
  <2>2. \A t \in Drivers : drivers[t].pc # "claimed"
    BY <2>1, MigrationAssumption DEF ClaimKept, PastClaim, Base, TypeOK
  <2>3. PICK r \in InitializeLiveMigrationOnSource(vm) : ~r.err /\ vm' = r.vm
    BY <1>1, Zenon DEF PrepareSource
  <2>4. r.vm.state = "SourceMigrationInitialized"
    BY <2>3, StepOutcome, SMTT(30) DEF InitializeLiveMigrationOnSource, VmStates, Base
  <2>. QED
    BY <2>1, <2>2, <2>3, <2>4, Zenon
<1>2. CASE ExportState
  <2>1. PICK r \in SaveVM(vm), s \in SavePods :
            /\ vm' = r.vm
            /\ pods' = IF r.err THEN pods ELSE s.pods
            /\ state' = IF r.err \/ s.err THEN "Failed" ELSE "SourceExported"
    BY <1>2, Zenon DEF ExportState
  <2>2. drivers' = drivers /\ \A t \in Drivers : drivers[t].pc # "claimed"
    BY <1>2, Zenon DEF ExportState, ClaimKept, PastClaim
  <2>3. /\ r.vm.state = vm.state
        /\ vm.state # "SourceMigrationInitialized" => r.err /\ r.vm = vm
        /\ ~r.err => r.vm.frozen
    BY SaveOutcome, ZenonT(40) DEF Base
  <2>4. ~s.err => \A p \in Pods : s.pods[p].migrating /\ s.pods[p].frozen
    BY PodsOutcome, SMTT(30) DEF Base, TypeOK, Frozen
  <2>5. CASE vm.state = "SourceMigrationInitialized"
    BY <2>1, <2>2, <2>3, <2>4, <2>5, Zenon
  <2>6. CASE vm.state # "SourceMigrationInitialized"
    BY <2>1, <2>3, <2>6, Zenon
  <2>. QED
    BY <2>5, <2>6, Zenon
<1>3. CASE ImportState
  <2>1. PICK r \in ImportVM(vm) : ~r.err /\ vm' = r.vm
    BY <1>3, Zenon DEF ImportState
  <2>2. r.vm.state = "DestinationMigrationImported"
    BY <2>1, ImportOutcome, Zenon DEF Base
  <2>. QED
    BY <2>1, <2>2, Zenon
<1>4. ASSUME NEW p \in Pods, PatchResourcePaths(p)
      PROVE  ExportHeld' /\ StreamsOnlyExported'
  BY <1>4, Zenon DEF PatchResourcePaths
<1>5. CASE PrepareDestination
  <2>1. PICK r \in CreateVM(vm) : ~r.err /\ \E q \in PatchVM(r.vm) : vm' = q.vm
    BY <1>5, Zenon DEF PrepareDestination
  <2>2. PICK q \in PatchVM(r.vm) : vm' = q.vm
    BY <2>1, Zenon
  <2>3. Sound(r.vm) /\ r.vm.state = "DestinationMigrationCreated"
    <3>1. "DestinationMigrationCreated" \in VmStates \ {"Running"}
      BY Zenon DEF VmStates
    <3>2. r \in Step(vm, {"DestinationMigrationImported"}, "create",
                     "DestinationMigrationCreated")
      BY <2>1, Zenon DEF CreateVM
    <3>3. Sound(vm) /\ ~r.err
      BY <2>1, Zenon DEF Base
    <3> QED  BY ONLY <3>1, <3>2, <3>3, StepOutcome, SMTT(30)
  <2>4. q.vm.state \in {"DestinationMigrationCreated", "DestinationMigrationPatched"}
    BY <2>3, StepOutcome, SMTT(30) DEF PatchVM, VmStates
  <2>. QED
    BY <2>2, <2>4, Zenon
<1>6. CASE RegisterDuplicateSocket
  BY <1>6, Zenon DEF RegisterDuplicateSocket, Registrable
<1>7. ASSUME NEW t \in Drivers, Driving(t)
      PROVE  ExportHeld' /\ StreamsOnlyExported'
  <2>0. pods' = pods /\ \A u \in Drivers : u # t => drivers'[u] = drivers[u]
    BY <1>7, Moves, Zenon DEF Driving, Transfer, TimeOut, Claim, RunStart, RunTransfer, RunEnds,
                       Complete, FailTransfer, Places, PastClaim, Base, TypeOK
  <2>1. CASE Transfer(t)
    <3>1. /\ drivers'[t].pc = "waiting" /\ vm' = vm
          /\ state \in {"SocketReady", "SourceExported", "DestinationPrepared"}
      BY <2>1, Zenon DEF Transfer, TypeOK, Base
    <3>. QED
      BY <2>0, <3>1, Zenon
  <2>2. CASE Claim(t)
    <3>1. vm' = vm /\ \/ state = "SocketReady"
                      \/ state' = state /\ drivers'[t].pc \in {"failing", "none"}
      BY <2>2, Moves, Zenon DEF Claim, Claimable, Places, PastClaim, Base
    <3>. QED
      BY <2>0, <3>1, Zenon
  <2>3. CASE Complete(t) \/ FailTransfer(t) \/ TimeOut(t) \/ RunTransfer(t)
    <3>1. /\ drivers'[t].pc # "claimed" /\ vm' = vm
          /\ state' = state \/ state' \in {"TransferCompleted", "Failed"}
      BY <2>3, Moves, SMTT(30)
         DEF Complete, FailTransfer, TimeOut, RunTransfer, Places, PastClaim,
                         Base, control
    <3>. QED
      BY <2>0, <3>1, Zenon
  <2>4. CASE RunStart(t)
    <3>1. CASE session # None
      <4>1. PICK r \in IF origin = "Source" THEN StartLiveMigrationOnSource(vm)
                       ELSE StartWithMigrationOptions(vm) :
                vm' = r.vm /\ Goes(t, IF r.err THEN "failing" ELSE "started")
        BY <2>4, <3>1, Zenon DEF RunStart
      <4>2. drivers[t].pc = "claimed" /\ state' = state
        BY <2>4, Zenon DEF RunStart, At, control
      <4>3. drivers'[t].pc # "claimed"
        BY <4>1, Moves DEF Places, PastClaim, Base
      <4>4. \/ r.vm = vm
            \/ vm.state = "SourceMigrationInitialized" /\ r.vm.frozen = vm.frozen
            \/ r.vm.state \in {"DestinationMigrationPatched", "DestinationMigrationStarted"}
        BY StartOnSourceOutcome, StartDestinationOutcome, Zenon DEF Base
      <4>. QED
        BY <2>0, <4>1, <4>2, <4>3, <4>4, Zenon
    <3>2. CASE session = None
      <4>1. vm' = vm /\ state' = state /\ drivers[t].pc = "claimed"
        BY <2>4, <3>2, Zenon DEF RunStart, At, control
      <4>. QED
        BY <2>0, <4>1, Zenon
    <3>. QED
      BY <3>1, <3>2, Zenon
  <2>5. CASE RunEnds(t)
    <3>1. PICK r \in StartLiveMigrationTransfer(vm) :
              vm' = r.vm /\ Goes(t, IF r.err THEN "failing" ELSE "completing")
      BY <2>5, Zenon DEF RunEnds
    <3>2. r.vm = vm \/ r.vm.state = "MigrationTransferCompleted"
      BY StepOutcome, SMTT(30) DEF StartLiveMigrationTransfer, VmStates, Base
    <3>3. state' = state /\ drivers'[t].pc # "claimed"
      BY <2>5, <3>1, Moves, SMTT(30) DEF RunEnds, Places, PastClaim, Base, control
    <3>. QED
      BY <2>0, <3>1, <3>2, <3>3, Zenon
  <2>. QED
    BY <1>7, <2>1, <2>2, <2>3, <2>4, <2>5, ZenonT(40) DEF Driving
<1>8. CASE CancelImported
  BY <1>8, Zenon DEF CancelImported
<1>9. ASSUME NEW k \in Cancellers, Cancelling(k)
      PROVE  ExportHeld' /\ StreamsOnlyExported'
  BY <1>9, Zenon DEF Cancelling, CancelBegin, CancelAborts, CancelEnds, control
<1>10. CASE FinalizeStop
  <2>1. PICK r \in FinalOperation("Stop") :
            vm' = r.vm /\ state' = IF r.err THEN state ELSE "Finalized"
    BY <1>10, Zenon DEF FinalizeStop
  <2>2. r.vm = vm \/ r.vm.state \in {"Invalid", "Terminated"}
    BY FinalOutcome, Zenon DEF Base
  <2>3. drivers' = drivers /\ pods' = pods
    BY <1>10, Zenon DEF FinalizeStop
  <2>. QED
    BY <2>1, <2>2, <2>3, Zenon
<1>11. CASE FinalizeResume
  <2>1. PICK r \in FinalOperation("Resume") :
         \/ r.err /\ vm' = r.vm /\ UNCHANGED <<pods, state>>
         \/ ~r.err /\ \E q \in ResumeVM(r.vm, origin) : vm' = q.vm
    BY <1>11, Zenon DEF FinalizeResume
  <2>2. Sound(r.vm) /\ IF r.err THEN r.vm = vm ELSE r.vm.state = "MigrationFinalized"
    BY FinalOutcome, Zenon DEF Base
  <2>3. drivers' = drivers
    BY <1>11, Zenon DEF FinalizeResume
  <2>4. CASE r.err
    BY <2>1, <2>2, <2>3, <2>4, Zenon
  <2>5. CASE ~r.err
    <3>1. vm'.state \in {"MigrationFinalized", "Running"}
      BY <2>1, <2>2, <2>5, ResumeOutcome, SMTT(30)
    <3>. QED
      BY <3>1, Zenon
  <2>. QED
    BY <2>4, <2>5, Zenon
<1>12. CASE Cleanup
  BY <1>12, Zenon DEF Cleanup
<1>13. CASE VMExits
  BY <1>13, ExitOutcome, Zenon DEF VMExits, Base
<1>14. CASE StopSandbox
  <2>1. vm'.state \in {"Invalid", "Terminated"}
    BY <1>14, TerminateOutcome, SMTT(30) DEF StopSandbox, Base
  <2>. QED
    BY <2>1, Zenon
<1>15. CASE UNCHANGED vars
  BY <1>15, Zenon DEF vars, control
<1>. QED
  BY <1>1, <1>2, <1>3, <1>4, <1>5, <1>6, <1>7, <1>8, <1>9, <1>10, <1>11, <1>12, <1>13, <1>14,
     <1>15, ZenonT(40) DEF Next

-----------------------------------------------------------------------------
(* How a session settles.                                                   *)

\* A session keeps its side, and the pods of a destination stay frozen as a
\* whole until they resume.
LEMMA SidedStep ==
    ASSUME Base, Sided, [Next]_vars
    PROVE  Sided'
<1> USE DEF Sided
<1>1. CASE PrepareSource
  BY <1>1, Zenon DEF PrepareSource, NewSession
<1>2. CASE ExportState
  BY <1>2, Zenon DEF ExportState
<1>3. CASE ImportState
  BY <1>3, Zenon DEF ImportState, NewSession, Frozen
<1>4. ASSUME NEW p \in Pods, PatchResourcePaths(p)
      PROVE  Sided'
  BY <1>4, Zenon DEF PatchResourcePaths
<1>5. CASE PrepareDestination
  BY <1>5, Zenon DEF PrepareDestination
<1>6. CASE RegisterDuplicateSocket
  BY <1>6, Zenon DEF RegisterDuplicateSocket
<1>7. ASSUME NEW t \in Drivers, Driving(t)
      PROVE  Sided'
  BY <1>7, Zenon
     DEF Driving, Transfer, TimeOut, Claim, Claimable, RunStart, RunTransfer, RunEnds,
              Complete, StillTransferring, FailTransfer, control
<1>8. CASE CancelImported
  BY <1>8, Zenon DEF CancelImported
<1>9. ASSUME NEW k \in Cancellers, Cancelling(k)
      PROVE  Sided'
  BY <1>9, Zenon DEF Cancelling, CancelBegin, CancelAborts, CancelEnds, control
<1>10. CASE FinalizeStop
  BY <1>10, Zenon DEF FinalizeStop
<1>11. CASE FinalizeResume
  <2>1. /\ session' = session /\ origin' = origin /\ state' \in {state, "Finalized"}
        /\ pods' = pods \/ \E s \in ResumePods : pods' = s.pods
    BY <1>11, Zenon DEF FinalizeResume
  <2>2. \A p \in Pods : \/ pods'[p] \in {Thawed, pods[p]}
                        \/ pods'[p].migrating
    BY <2>1, PodsOutcome DEF Resumed, Base, TypeOK
  <2>. QED
    BY <2>1, <2>2, Zenon
<1>12. CASE Cleanup
  BY <1>12, Zenon DEF Cleanup
<1>13. CASE VMExits \/ StopSandbox \/ UNCHANGED vars
  BY <1>13, Zenon DEF VMExits, StopSandbox, vars, control
<1>. QED
  BY <1>1, <1>2, <1>3, <1>4, <1>5, <1>6, <1>7, <1>8, <1>9, <1>10, <1>11, <1>12, <1>13,
     Zenon DEF Next

\* What a finalized session has settled stays settled, unless a sandbox that is
\* stopped cannot close its VM.
LEMMA SettledStep ==
    ASSUME Base, Sided, FinalizedIsSettled, [Next]_vars, ~({"close", "stop"} \subseteq Faults)
    PROVE  FinalizedIsSettled'
<1> USE DEF FinalizedIsSettled
<1>1. CASE PrepareSource \/ ImportState
  BY <1>1, Zenon DEF PrepareSource, ImportState
<1>2. CASE ExportState
  BY <1>2, Zenon DEF ExportState
<1>3. ASSUME NEW p \in Pods, PatchResourcePaths(p)
      PROVE  FinalizedIsSettled'
  BY <1>3, Zenon DEF PatchResourcePaths
<1>4. CASE PrepareDestination
  BY <1>4, Zenon DEF PrepareDestination
<1>5. CASE RegisterDuplicateSocket
  BY <1>5, Zenon DEF RegisterDuplicateSocket
<1>6. ASSUME NEW t \in Drivers, Driving(t)
      PROVE  FinalizedIsSettled'
  <2>1. CASE Transfer(t) \/ TimeOut(t) \/ Claim(t) \/ RunTransfer(t) \/ Complete(t)
             \/ FailTransfer(t)
    BY <2>1, Zenon DEF Transfer, TimeOut, Claim, RunTransfer, Complete, FailTransfer, control
  <2>2. CASE RunStart(t)
    <3>1. /\ state' = state /\ pods' = pods
          /\ \/ vm' = vm
             \/ \E r \in StartLiveMigrationOnSource(vm) \cup StartWithMigrationOptions(vm) :
                   vm' = r.vm
      BY <2>2, ZenonT(40) DEF RunStart, control
    <3>2. vm.state \in {"Terminated", "Running"} => vm' = vm
      BY <3>1, StartOnSourceOutcome, StartDestinationOutcome DEF Base
    <3>. QED
      BY <3>1, <3>2, Zenon
  <2>3. CASE RunEnds(t)
    <3>1. /\ state' = state /\ pods' = pods
          /\ \E r \in StartLiveMigrationTransfer(vm) : vm' = r.vm
      BY <2>3, Zenon DEF RunEnds, control
    <3>2. vm.state \in {"Terminated", "Running"} => vm' = vm
      BY <3>1, StepOutcome DEF StartLiveMigrationTransfer, VmStates, Streaming, Base
    <3>. QED
      BY <3>1, <3>2, Zenon
  <2>. QED
    BY <1>6, <2>1, <2>2, <2>3, Zenon DEF Driving
<1>7. CASE CancelImported
  BY <1>7, Zenon DEF CancelImported
<1>8. ASSUME NEW k \in Cancellers, Cancelling(k)
      PROVE  FinalizedIsSettled'
  BY <1>8, Zenon DEF Cancelling, CancelBegin, CancelAborts, CancelEnds, control
<1>9. CASE FinalizeStop
  <2>1. PICK r \in FinalOperation("Stop") :
            vm' = r.vm /\ state' = IF r.err THEN state ELSE "Finalized"
    BY <1>9, Zenon DEF FinalizeStop
  <2>2. ~r.err => r.vm.state = "Terminated"
    BY FinalOutcome, Zenon DEF Base
  <2>3. state # "Finalized"
    BY <1>9, Zenon DEF FinalizeStop, Settled
  <2>. QED
    BY <2>1, <2>2, <2>3, Zenon
<1>10. CASE FinalizeResume
  <2>1. state # "Finalized" /\ session # None
    BY <1>10, Zenon DEF FinalizeResume, Settled, Active
  <2>2. PICK r \in FinalOperation("Resume") :
         \/ UNCHANGED state
         \/ /\ ~r.err
            /\ \E q \in ResumeVM(r.vm, origin) :
                 /\ ~q.err
                 /\ vm' = q.vm
                 /\ \E s \in ResumePods :
                      /\ pods' = s.pods
                      /\ state' = IF s.err THEN state ELSE "Finalized"
    BY <1>10, Zenon DEF FinalizeResume
  <2>3. CASE UNCHANGED state
    BY <2>1, <2>3, Zenon
  <2>4. CASE ~UNCHANGED state
    <3>1. PICK q \in ResumeVM(r.vm, origin), s \in ResumePods :
              ~r.err /\ ~q.err /\ vm' = q.vm /\ pods' = s.pods /\ ~s.err
      BY <2>2, <2>4, Zenon
    <3>2. Sound(r.vm) /\ r.vm.state = "MigrationFinalized"
      BY <3>1, FinalOutcome, Zenon DEF Base
    <3>3. q.vm.state = "Running" /\ origin # "Source"
      BY <3>1, <3>2, ResumeOutcome, Zenon
    <3>4. \A p \in Pods : pods[p].migrating \/ pods[p] = Thawed
      BY <2>1, <3>3, ZenonT(40) DEF Sided
    <3>5. \A p \in Pods : s.pods[p] = Thawed
      BY <3>1, <3>4, PodsOutcome DEF Resumed, Base, TypeOK
    <3>. QED
      BY <3>1, <3>3, <3>5, ZenonT(40)
  <2>. QED
    BY <2>3, <2>4, Zenon
<1>11. CASE Cleanup
  BY <1>11, Zenon DEF Cleanup
<1>12. CASE VMExits
  BY <1>12, ExitOutcome, Zenon DEF VMExits, Base
<1>13. CASE StopSandbox
  <2>1. PICK r \in TerminateVM(vm) : vm' = r.vm
    BY <1>13, Zenon DEF StopSandbox
  <2>2. "stop" \in Faults /\ vm.state \notin {"Terminated", "NotCreated"}
    BY <1>13, Zenon DEF StopSandbox
  <2>3. vm'.state = "Terminated"
    BY <2>1, <2>2, TerminateOutcome DEF Base
  <2>. QED
    BY <2>3, Zenon
<1>14. CASE UNCHANGED vars
  BY <1>14, Zenon DEF vars, control
<1>. QED
  BY <1>1, <1>2, <1>3, <1>4, <1>5, <1>6, <1>7, <1>8, <1>9, <1>10, <1>11, <1>12, <1>13, <1>14,
     Zenon
  DEF Next

-----------------------------------------------------------------------------
(* The session implements its life cycle, for an orchestrator that asks for *)
(* one transfer and one cancellation at a time and waits for them before it *)
(* winds the session down.                                                  *)

OneAtATime ==
    /\ Quiesces
    /\ \A t, u \in Drivers : t = u
    /\ \A k, l \in Cancellers : k = l

\* A goroutine is at work only from the call to Transfer to the end of the
\* transfer or of its cancellation, a Cancel only until its abort has ended.
AtWork ==
    /\ \A t \in Drivers :
          drivers[t] # Idling => state \in {"SocketWaiting", "SocketReady", "Transferring",
                                            "Cancelling", "Cancelled", "Failed"}
    /\ \A k \in Cancellers : cancels[k] # "none" => state \in {"Cancelling", "Failed"}

\* The phases a session is open in.
LEMMA OpenPhases ==
    {"SourcePrepared", "SourceExported", "DestinationImported", "DestinationPrepared",
     "SocketWaiting", "SocketReady", "Transferring"} \subseteq Session!Open
<1>1. ASSUME NEW a, NEW b, <<a, b>> \in Session!Forward
      PROVE  a \in Session!Open
  <2>1. <<a, b>>[1] = a
    BY Zenon
  <2>. QED
    BY <1>1, <2>1, Zenon DEF Session!Open
<1>2. /\ <<"SourcePrepared", "SourceExported">> \in Session!Forward
      /\ <<"DestinationImported", "DestinationPrepared">> \in Session!Forward
      /\ <<"SourceExported", "SocketWaiting">> \in Session!Forward
      /\ <<"DestinationPrepared", "SocketWaiting">> \in Session!Forward
      /\ <<"SocketWaiting", "SocketReady">> \in Session!Forward
      /\ <<"SocketReady", "Transferring">> \in Session!Forward
      /\ <<"Transferring", "TransferCompleted">> \in Session!Forward
  BY Zenon DEF Session!Forward
<1>. QED
  BY <1>1, <1>2, Zenon

\* The steps a session advances by, one by one.
LEMMA Advances ==
    ASSUME UNCHANGED origin,
           \/ state = "SourcePrepared" /\ state' = "SourceExported"
           \/ state = "DestinationImported" /\ state' = "DestinationPrepared"
           \/ state = "SourceExported" /\ state' \in {"SocketWaiting", "SocketReady"}
           \/ state = "DestinationPrepared" /\ state' \in {"SocketWaiting", "SocketReady"}
           \/ state = "SocketWaiting" /\ state' = "SocketReady"
           \/ state = "SocketReady" /\ state' = "Transferring"
           \/ state = "Transferring" /\ state' = "TransferCompleted"
    PROVE  Session!Next
<1>1. <<state, state'>> \in Session!Forward
  BY Zenon DEF Session!Forward
<1>2. \E step \in Session!Forward : state = step[1] /\ state' = step[2]
  BY <1>1, Zenon
<1>. QED
  BY <1>2, Zenon DEF Session!Next, Session!Advance

\* A session that is open can fail.
LEMMA Fails ==
    ASSUME UNCHANGED origin, state' = "Failed",
           state \in {"SourcePrepared", "SourceExported", "DestinationImported",
                      "DestinationPrepared", "SocketWaiting", "SocketReady", "Transferring"}
    PROVE  Session!Next
  BY OpenPhases, Zenon DEF Session!Next, Session!Fail

\* A session that is cancelled first aborts, then is cancelled or has failed.
LEMMA Cancels ==
    ASSUME UNCHANGED origin,
           \/ /\ state \in {"SourcePrepared", "SourceExported", "DestinationImported",
                            "DestinationPrepared", "SocketWaiting", "SocketReady",
                            "Transferring", "TransferCompleted", "Failed", "Finalized"}
              /\ state' = "Cancelling"
           \/ state = "DestinationImported" /\ state' = "Cancelled"
           \/ state \in {"Cancelling", "Failed"} /\ state' \in {"Cancelled", "Failed"}
    PROVE  Session!Next
  BY OpenPhases, Zenon DEF Session!Next, Session!Cancel

\* Goroutines and threads come to rest before the session is wound down.
LEMMA AtWorkStep ==
    ASSUME TypeOK, AtWork, OneAtATime, [Next]_vars
    PROVE  AtWork'
<1> USE DEF AtWork
<1>1. CASE PrepareSource \/ ImportState
  BY <1>1, Zenon DEF PrepareSource, ImportState, NewSession
<1>2. CASE ExportState
  BY <1>2, Zenon DEF ExportState
<1>3. ASSUME NEW p \in Pods, PatchResourcePaths(p)
      PROVE  AtWork'
  BY <1>3, Zenon DEF PatchResourcePaths
<1>4. CASE PrepareDestination
  BY <1>4, Zenon DEF PrepareDestination
<1>5. CASE RegisterDuplicateSocket
  <2>1. drivers' = drivers /\ cancels' = cancels /\ state' \in {"SocketReady", "Failed"}
    BY <1>5, Zenon DEF RegisterDuplicateSocket
  <2>2. state \in {"SourceExported", "DestinationPrepared", "SocketWaiting"}
    BY <1>5, Zenon DEF RegisterDuplicateSocket, Registrable
  <2>. QED
    BY <2>1, <2>2, Zenon
<1>6. ASSUME NEW t \in Drivers, Driving(t)
      PROVE  AtWork'
  <2>1. cancels' = cancels /\ \A u \in Drivers : u = t
    BY <1>6, Zenon
       DEF OneAtATime, Driving, Transfer, TimeOut, Claim, RunStart, RunTransfer, RunEnds,
                Complete, FailTransfer
  <2>2. CASE Transfer(t)
    BY <2>1, <2>2, Zenon DEF Transfer
  <2>3. CASE TimeOut(t) \/ RunStart(t) \/ RunTransfer(t) \/ RunEnds(t)
    <3>1. state' = state /\ drivers[t] # Idling
      BY <2>3, SMTT(30) DEF TimeOut, RunStart, RunTransfer, RunEnds, At, Idling, control
    <3>. QED
      BY <2>1, <3>1, ZenonT(40)
  <2>4. CASE Claim(t)
    <3>1. drivers[t] # Idling /\ \/ state' = state
                                 \/ state = "SocketReady" /\ state' = "Transferring"
      <4>1. drivers[t].pc = "waiting"
        BY <2>4, Zenon DEF Claim, At
      <4>2. \/ state' = state
            \/ state = "SocketReady" /\ state' = "Transferring"
        BY <2>4, Zenon DEF Claim, Claimable
      <4>3. Idling.pc = "none"
        BY Zenon DEF Idling
      <4> QED  BY <4>1, <4>2, <4>3, Zenon
    <3>. QED
      BY <2>1, <3>1, ZenonT(40)
  <2>5. CASE Complete(t) \/ FailTransfer(t)
    <3>1. drivers'[t] = Idling
      BY <2>5, Zenon DEF Complete, FailTransfer, Goes, TypeOK
    <3>2. \/ state' = state
          \/ state = "Transferring" /\ state' = "TransferCompleted"
          \/ state' = "Failed"
      BY <2>5, Zenon DEF Complete, FailTransfer, StillTransferring
    <3>. QED
      BY <2>1, <3>1, <3>2, Zenon
  <2>. QED
    BY <1>6, <2>2, <2>3, <2>4, <2>5, ZenonT(40) DEF Driving
<1>7. CASE CancelImported
  BY <1>7, Zenon DEF CancelImported
<1>8. ASSUME NEW k \in Cancellers, Cancelling(k)
      PROVE  AtWork'
  <2>1. drivers' = drivers /\ \A l \in Cancellers : l = k
    BY <1>8, Zenon DEF OneAtATime, Cancelling, CancelBegin, CancelAborts, CancelEnds
  <2>2. CASE CancelBegin(k)
    <3>1. state' = "Cancelling"
      BY <2>2, Zenon DEF CancelBegin
    <3>. QED
      BY <2>1, <3>1, Zenon
  <2>3. CASE CancelAborts(k)
    <3>1. state' = state /\ cancels[k] # "none"
      BY <2>3, Zenon DEF CancelAborts, control
    <3>. QED
      BY <2>1, <3>1, Zenon
  <2>4. CASE CancelEnds(k)
    <3>1. state' \in {"Cancelled", "Failed"} /\ cancels'[k] = "none"
      BY <2>4, Zenon DEF CancelEnds, TypeOK
    <3>. QED
      BY <2>1, <3>1, Zenon
  <2>. QED
    BY <1>8, <2>2, <2>3, <2>4, Zenon DEF Cancelling
<1>9. CASE FinalizeStop \/ FinalizeResume \/ Cleanup
  <2>1. /\ \A k \in Cancellers : cancels'[k] = "none"
        /\ \A t \in Drivers : drivers'[t] = Idling
    BY <1>9, Zenon DEF FinalizeStop, FinalizeResume, Cleanup, WindsDown, OneAtATime
  <2>. QED
    BY <2>1, Zenon
<1>10. CASE VMExits \/ StopSandbox \/ UNCHANGED vars
  BY <1>10, Zenon DEF VMExits, StopSandbox, vars, control
<1>. QED
  BY <1>1, <1>2, <1>3, <1>4, <1>5, <1>6, <1>7, <1>8, <1>9, <1>10, Zenon DEF Next

\* Every step of the controller, its goroutines and its threads is a step of the
\* life cycle, or none.
LEMMA SessionStep ==
    ASSUME TypeOK, AtWork, OneAtATime, [Next]_vars
    PROVE  [Session!Next]_(Session!session)
<1> USE DEF Session!session
<1>1. CASE PrepareSource \/ ImportState
  BY <1>1, Zenon DEF PrepareSource, ImportState, NewSession, Session!Next, Session!Begin
<1>2. CASE ExportState
  BY <1>2, Advances, Fails, Zenon DEF ExportState
<1>3. ASSUME NEW p \in Pods, PatchResourcePaths(p)
      PROVE  UNCHANGED Session!session
  BY <1>3, Zenon DEF PatchResourcePaths
<1>4. CASE PrepareDestination
  BY <1>4, Advances, Fails, Zenon DEF PrepareDestination
<1>5. CASE RegisterDuplicateSocket
  <2>1. origin' = origin /\ state' \in {"SocketReady", "Failed"}
    BY <1>5, Zenon DEF RegisterDuplicateSocket
  <2>2. state \in {"SourceExported", "DestinationPrepared", "SocketWaiting"}
    BY <1>5, Zenon DEF RegisterDuplicateSocket, Registrable
  <2>. QED
    BY <2>1, <2>2, Advances, Fails, Zenon
<1>6. ASSUME NEW t \in Drivers, Driving(t)
      PROVE  [Session!Next]_(Session!session)
  <2>1. origin' = origin
    BY <1>6, Zenon
       DEF Driving, Transfer, TimeOut, Claim, RunStart, RunTransfer, RunEnds, Complete,
                FailTransfer, control
  <2>2. CASE Transfer(t)
    BY <2>1, <2>2, Advances, Zenon DEF Transfer
  <2>3. CASE TimeOut(t) \/ RunStart(t) \/ RunTransfer(t) \/ RunEnds(t)
    BY <2>3, Zenon DEF TimeOut, RunStart, RunTransfer, RunEnds, control
  <2>4. CASE Claim(t)
    BY <2>1, <2>4, Advances, Zenon DEF Claim, Claimable
  <2>5. CASE Complete(t)
    BY <2>1, <2>5, Advances, Zenon DEF Complete, StillTransferring
  <2>6. CASE FailTransfer(t)
    <3>1. state \in {"SocketWaiting", "SocketReady", "Transferring", "Cancelling", "Cancelled",
                     "Failed"}
      BY <2>6 DEF FailTransfer, At, Idling, AtWork
    <3>2. state' = IF state = "Cancelled" THEN state ELSE "Failed"
      BY <2>6, Zenon DEF FailTransfer, Swallowed
    <3>. QED
      BY <2>1, <3>1, <3>2, Fails, Cancels, Zenon
  <2>. QED
    BY <1>6, <2>2, <2>3, <2>4, <2>5, <2>6, Zenon DEF Driving
<1>7. CASE CancelImported
  BY <1>7, Cancels, Zenon DEF CancelImported
<1>8. ASSUME NEW k \in Cancellers, Cancelling(k)
      PROVE  [Session!Next]_(Session!session)
  <2>1. CASE CancelBegin(k)
    <3>1. state \in {"SourcePrepared", "SourceExported", "DestinationPrepared",
                     "SocketWaiting", "SocketReady", "Transferring", "TransferCompleted",
                     "Failed", "Finalized"}
      BY <2>1, Zenon DEF CancelBegin, TypeOK, States
    <3>2. origin' = origin /\ state' = "Cancelling"
      BY <2>1, Zenon DEF CancelBegin
    <3>. QED
      BY <3>1, <3>2, Cancels, Zenon
  <2>2. CASE CancelAborts(k)
    BY <2>2, Zenon DEF CancelAborts, control
  <2>3. CASE CancelEnds(k)
    <3>1. state \in {"Cancelling", "Failed"}
      BY <2>3, Zenon DEF CancelEnds, AtWork
    <3>2. origin' = origin /\ state' \in {"Cancelled", "Failed"}
      BY <2>3, Zenon DEF CancelEnds
    <3>. QED
      BY <3>1, <3>2, Cancels, Zenon
  <2>. QED
    BY <1>8, <2>1, <2>2, <2>3, Zenon DEF Cancelling
<1>9. CASE FinalizeStop \/ FinalizeResume
  <2>1. origin' = origin /\ state' \in {state, "Finalized"} /\ Settled
    BY <1>9, Zenon DEF FinalizeStop, FinalizeResume
  <2>. QED
    BY <2>1, Zenon DEF Settled, Session!Next, Session!Finalize
<1>10. CASE Cleanup
  BY <1>10, Zenon DEF Cleanup, CanCleanup, Session!Next, Session!Cleanup
<1>11. CASE VMExits \/ StopSandbox \/ UNCHANGED vars
  BY <1>11, Zenon DEF VMExits, StopSandbox, vars, control
<1>. QED
  BY <1>1, <1>2, <1>3, <1>4, <1>5, <1>6, <1>7, <1>8, <1>9, <1>10, <1>11, ZenonT(40) DEF Next

-----------------------------------------------------------------------------
(* The theorems.                                                            *)

LEMMA InitInv == Init => Base /\ OwnInv /\ SettleInv /\ AtWork
<1> SUFFICES ASSUME Init PROVE Base /\ OwnInv /\ SettleInv /\ AtWork
  BY Zenon
<1>1. Idling \in Driver /\ Idling.pc = "none" /\ Thawed \in Pod
  BY Zenon DEF Idling, Driver, Places, Thawed, Pod
<1>2. Sound(vm) /\ vm.state \in {"Running", "NotCreated"}
  <2> DEFINE a == [state |-> "Running", guestMigrating |-> FALSE, frozen |-> FALSE,
                   watched |-> TRUE, gc |-> TRUE, listening |-> FALSE]
             b == [state |-> "NotCreated", guestMigrating |-> FALSE, frozen |-> FALSE,
                   watched |-> FALSE, gc |-> FALSE, listening |-> FALSE]
  <2>1. Sound(a) /\ a.state = "Running" /\ Sound(b) /\ b.state = "NotCreated"
    BY Zenon DEF Sound, VMs, VmStates
  <2>2. vm = a \/ vm = b
    BY Zenon DEF Init
  <2> HIDE DEF a, b
  <2>. QED
    BY <2>1, <2>2, Zenon
<1>3. TypeOK
  BY <1>1, <1>2, Zenon DEF Init, TypeOK, States, Sound
<1>4. \A t \in Drivers : drivers[t] = Idling
  BY Zenon DEF Init
<1>5. OwnInv
  BY <1>1, <1>2, <1>4, Zenon DEF Init, OwnInv, CancelKept, Unstarted, ClaimKept, SingleDriver,
                          ExportHeld, StreamsOnlyExported, PastClaim
<1>6. SettleInv /\ AtWork
  BY <1>4, Zenon DEF Init, SettleInv, Sided, FinalizedIsSettled, AtWork
<1>. QED
  BY <1>2, <1>3, <1>5, <1>6, Zenon DEF Base

LEMMA BaseAlways == Spec => []Base
<1>1. Init => Base
  BY InitInv, Zenon
<1>2. Base /\ [Next]_vars => Base'
  BY BaseStep, Zenon
<1>. QED
  BY <1>1, <1>2, PTL DEF Spec

\* The controller, the VM it drives and the goroutines and threads at work keep
\* their types.
THEOREM MigrationTypeCorrect == Spec => []TypeOK
<1>1. Base => TypeOK
  BY Zenon DEF Base
<1>. QED
  BY <1>1, BaseAlways, PTL

\* A VM in state Running is thawed and its bridge does not tolerate a lost
\* connection, whatever failed on the way there.
THEOREM RunningAlwaysThawed == Spec => []RunningIsThawed
<1>1. Base => RunningIsThawed
  BY Zenon DEF Base, Sound, RunningIsThawed
<1>. QED
  BY <1>1, BaseAlways, PTL

\* After a successful Cancel no goroutine starts or completes the transfer, with
\* any number of sessions, and whether or not the orchestrator waits for them.
THEOREM CancelAlwaysWins == Spec => []CancelWins
<1>1. Init => CancelKept
  BY InitInv, Zenon DEF OwnInv
<1>2. Base /\ CancelKept /\ [Next]_vars => CancelKept'
  BY CancelKeptStep, Zenon DEF Base
<1>3. CancelKept => CancelWins
  BY Zenon DEF CancelKept, CancelWins
<1>. QED
  BY <1>1, <1>2, <1>3, BaseAlways, PTL DEF Spec

\* Where sessions do not overlap, the inductive invariant holds.
LEMMA OwnAlways ==
    ASSUME Quiesces \/ MaxSessions <= 1
    PROVE  Spec => []OwnInv
<1>1. Init => OwnInv
  BY InitInv, Zenon
<1>2. Base /\ OwnInv /\ [Next]_vars => OwnInv'
  BY CancelKeptStep, UnstartedStep, ClaimKeptStep, ExportHeldStep, Zenon DEF Base, OwnInv
<1>. QED
  BY <1>1, <1>2, BaseAlways, PTL DEF Spec

\* A transfer has one owner and after a Cancel none: within a session always,
\* across sessions when the orchestrator lets each one come to rest.
THEOREM TransferAlwaysOwned ==
    ASSUME Quiesces \/ MaxSessions <= 1
    PROVE  Spec => []TransferOwned
<1>1. OwnInv => TransferOwned
  BY Zenon DEF OwnInv, TransferOwned, CancelKept, CancelWins
<1>. QED
  BY <1>1, OwnAlways, PTL

\* Under the same condition, the memory of a source is streamed only while the
\* VM and all of its pods are frozen.
THEOREM StreamAlwaysExported ==
    ASSUME Quiesces \/ MaxSessions <= 1
    PROVE  Spec => []StreamsOnlyExported
<1>1. OwnInv => StreamsOnlyExported
  BY Zenon DEF OwnInv
<1>. QED
  BY <1>1, OwnAlways, PTL

\* A finalized session leaves a terminated VM, or a running one with every pod
\* thawed, however many attempts it took and whoever was still at work; the one
\* exception is a sandbox that is stopped and cannot close its VM.
THEOREM FinalizedAlwaysSettled ==
    ASSUME ~({"close", "stop"} \subseteq Faults)
    PROVE  Spec => []FinalizedIsSettled
<1>1. Init => SettleInv
  BY InitInv, Zenon
<1>2. Base /\ SettleInv /\ [Next]_vars => SettleInv'
  BY SidedStep, SettledStep, Zenon DEF SettleInv
<1>3. SettleInv => FinalizedIsSettled
  BY Zenon DEF SettleInv
<1>. QED
  BY <1>1, <1>2, <1>3, BaseAlways, PTL DEF Spec

\* The controller implements the life cycle of a session, whichever calls fail,
\* when the orchestrator asks for one transfer and one cancellation at a time.
THEOREM SessionImplemented ==
    ASSUME OneAtATime
    PROVE  Spec => ImplementsSession
<1>1. Init => Session!Init /\ AtWork
  BY InitInv, Zenon DEF Init, Session!Init
<1>2. Base /\ AtWork /\ [Next]_vars => AtWork' /\ [Session!Next]_(Session!session)
  BY AtWorkStep, SessionStep, Zenon DEF Base
<1>. QED
  BY <1>1, <1>2, BaseAlways, PTL DEF Spec, ImplementsSession, Session!Spec
=============================================================================

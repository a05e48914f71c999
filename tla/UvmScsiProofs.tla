--------------------------- MODULE UvmScsiProofs ---------------------------
(***************************************************************************)
(* The SCSI manager of a v1 utility VM for any number of callers, slots,   *)
(* disks and configs, whichever host and guest calls fail: what it handed  *)
(* out stays attached and mounted until it is released.                    *)
(***************************************************************************)
EXTENDS UvmScsi, FiniteSetTheorems, TLAPS

\* Where a caller has an attachment whose work is done.
Settled == {"attached", "mounting", "awaitMount", "held", "stuck", "undo", "detaching"}
\* Where it is counted by an attachment.
Counting == {"attaching", "awaitAttach"} \cup Settled
\* Where it is counted by a mount, if it asked for one.
Sharing == {"mounting", "awaitMount", "held"}
\* Where it has not asked for a mount.
Early == {"absent", "idle", "attaching", "awaitAttach", "attached"}
Places == Counting \cup {"absent", "idle", "failed", "released"}

Configs == {Wanted[c].config : c \in Callers} \cup {None}
Paths == {Wanted[c].path : c \in Callers} \cup {Generated(i) : i \in Nat} \cup {None}
Attachments == [slot : Slots \cup {None}, refs : Nat, done : BOOLEAN, err : BOOLEAN]
GuestMounts == [index : Nat, slot : Slots \cup {None}, config : Configs, path : Paths,
                refs : Nat, done : BOOLEAN, err : BOOLEAN]
CallerStates == [pc : Places, att : Callers \cup {None}, mnt : Callers \cup {None}]

TypeOK ==
    /\ slots \in [Slots -> Callers \cup {None, Taken}]
    /\ atts \in [Callers -> Attachments]
    /\ mounts \in Seq(Callers \cup {None})
    /\ mnts \in [Callers -> GuestMounts]
    /\ callers \in [Callers -> CallerStates]
    /\ DOMAIN bus = Slots

\* The callers an attachment counts, and those a mount counts.
Holders(a) == {c \in Callers : callers[c].att = a /\ callers[c].pc \in Counting}
Users(o) == {c \in Callers : callers[c].mnt = o /\ callers[c].pc \in Sharing}

Tracked(a) == atts[a].slot \in Slots /\ slots[atts[a].slot] = a

\* A slot that is free is empty, and one that is not has the disk of its entry,
\* which counts at least the callers that are not through with it.
SoundSlot(s) ==
    /\ slots[s] = None => bus[s] = None
    /\ slots[s] \in Callers =>
          LET a == slots[s]
          IN /\ atts[a].slot = s /\ ~atts[a].err
             /\ Cardinality(Holders(a)) <= atts[a].refs
             /\ IF atts[a].done THEN bus[s] = Disk(a)
                ELSE bus[s] = None /\ callers[a].pc = "attaching"

\* A caller that an attachment counts has it in its slot, unless it waits for an
\* attachment that has failed.
SoundHolder(c) ==
    /\ callers[c].pc \in Counting =>
          LET a == callers[c].att
          IN /\ a \in Callers /\ Disk(a) = Disk(c)
             /\ Tracked(a) \/ (callers[c].pc = "awaitAttach" /\ atts[a].done /\ atts[a].err)
             /\ callers[c].pc \in Settled => atts[a].done
             /\ callers[c].pc = "attaching" => a = c /\ ~atts[a].done
    /\ callers[c].pc \in {"absent", "idle"} =>
          /\ \A s \in Slots : slots[s] # c
          /\ \A d \in Callers : callers[d].att # c

AttachInv ==
    /\ TypeOK
    /\ \A s \in Slots : SoundSlot(s)
    /\ \A c \in Callers : SoundHolder(c)

\* What the guest has for a mount.
Record(o) ==
    [path |-> mnts[o].path, slot |-> mnts[o].slot, disk |-> Disk(o), config |-> mnts[o].config]
Listed(o) == mnts[o].index \in DOMAIN mounts /\ mounts[mnts[o].index] = o

\* An entry of the table of mounts has a path of its own, counts its users, is mounted
\* unless its first caller is still at it, and somebody keeps its disk.
SoundMount(o) ==
    Listed(o) =>
        /\ ~mnts[o].err
        /\ mnts[o].refs = Cardinality(Users(o))
        /\ mnts[o].path = IF Wanted[o].path = None THEN Generated(mnts[o].index)
                          ELSE Wanted[o].path
        /\ \A p \in Callers : Listed(p) /\ mnts[p].path = mnts[o].path => p = o
        /\ \E c \in Callers : callers[c].mnt = o /\ callers[c].pc \in Sharing \cup {"stuck"}
        /\ IF mnts[o].done THEN Record(o) \in guest ELSE callers[o].pc = "mounting"

SoundUser(c) ==
    /\ callers[c].pc \in Sharing \cup {"stuck"} /\ callers[c].mnt # None =>
          LET o == callers[c].mnt
          IN /\ mnts[o].slot = Slot(c) /\ mnts[o].config = Wanted[c].config /\ Disk(o) = Disk(c)
             /\ \/ Listed(o) \/ callers[c].pc = "stuck"
                \/ callers[c].pc = "awaitMount" /\ mnts[o].done /\ mnts[o].err
             /\ callers[c].pc = "held" => mnts[o].done
             /\ callers[c].pc = "mounting" => o = c /\ ~mnts[o].done
    /\ callers[c].pc \in {"mounting", "awaitMount"} => callers[c].mnt # None /\
         Wanted[c].config # None
    /\ callers[c].pc \in Early =>
          /\ \A i \in DOMAIN mounts : mounts[i] # c
          /\ callers[c].mnt = None
          /\ \A d \in Callers : callers[d].mnt # c

MountInv ==
    /\ \A i \in DOMAIN mounts : mounts[i] # None => mnts[mounts[i]].index = i
    /\ \A o \in Callers : SoundMount(o)
    /\ \A c \in Callers : SoundUser(c)
    /\ \A g \in guest : \E o \in Callers : Listed(o) /\ mnts[o].done /\ g = Record(o)

\* Only a caller that wants no mount may give up: one that waits for a mount leaves
\* its reference behind, and the disk goes from under the mount.
Patient == \A c \in Cancellable : Wanted[c].config = None

-----------------------------------------------------------------------------
(* Sets of callers, and the first of some numbers.                          *)

LEMMA CallersFinite ==
  ASSUME NEW S, S \subseteq Callers
  PROVE  IsFiniteSet(S) /\ Cardinality(S) \in Nat
BY UvmScsiAssumption, FS_Subset, FS_CardinalityType, Zenon

\* One caller more is counted once.
LEMMA OneMore ==
  ASSUME NEW S, S \subseteq Callers, NEW c, c \notin S
  PROVE  Cardinality(S \cup {c}) = Cardinality(S) + 1
BY CallersFinite, FS_AddElement, Zenon

\* One caller less.
LEMMA OneLess ==
  ASSUME NEW S, S \subseteq Callers, NEW c \in S
  PROVE  Cardinality(S \ {c}) = Cardinality(S) - 1 /\ Cardinality(S) >= 1
<1>1. Cardinality(S \ {c}) = Cardinality(S) - 1
  BY CallersFinite, FS_RemoveElement, Zenon
<1>2. S \ {c} \subseteq Callers
  BY Zenon
<1>3. Cardinality(S \ {c}) \in Nat /\ Cardinality(S) \in Nat
  BY <1>2, CallersFinite, Zenon
<1> QED  BY <1>1, <1>3

\* Where one is counted, there is nobody else.
LEMMA OnlyOne ==
  ASSUME NEW S, S \subseteq Callers, NEW c \in S, Cardinality(S) <= 1
  PROVE  S = {c}
<1>1. Cardinality(S \ {c}) = Cardinality(S) - 1 /\ Cardinality(S) >= 1
  BY OneLess, Zenon
<1>2. Cardinality(S) \in Nat /\ IsFiniteSet(S \ {c})
  <2>1. S \ {c} \subseteq Callers
    BY Zenon
  <2> QED  BY <2>1, CallersFinite, Zenon
<1>3. Cardinality(S \ {c}) = 0
  BY <1>1, <1>2
<1>4. S \ {c} = {}
  BY <1>2, <1>3, FS_EmptySet, Zenon
<1> QED  BY <1>4, Zenon

\* Where more are counted, there is another.
LEMMA Another ==
  ASSUME NEW S, S \subseteq Callers, NEW c \in S, Cardinality(S) # 1
  PROVE  \E d \in S : d # c
<1>1. SUFFICES ASSUME S = {c}
               PROVE  FALSE
  BY Zenon
<1> QED  BY <1>1, FS_Singleton, Zenon

LEMMA FirstIsOne ==
  ASSUME NEW T, T \subseteq Nat, T # {}
  PROVE  Min(T) \in T
<1>1. PICK x \in T : \A y \in T : ~(<<y, x>> \in OpToRel(<, Nat))
  BY NatLessThanWellFounded, WFMin, Zenon
<1>2. \A y \in T : ~(y < x)
  BY <1>1, Zenon DEF OpToRel
<1>3. \E z \in T : \A y \in T : z <= y
  BY <1>2
<1> QED  BY <1>3, Zenon DEF Min

-----------------------------------------------------------------------------
(* The attach manager.                                                      *)

LEMMA AttachInit ==
  Init => AttachInv
<1> SUFFICES ASSUME Init
             PROVE  AttachInv
  BY Zenon
<1>0. slots \in [Slots -> {None, Taken}] /\ \A s \in Slots : slots[s] \notin Callers
  BY UvmScsiAssumption, Zenon DEF Init
<1>1. \A c \in Callers : callers[c].pc \in {"idle", "absent"} /\ callers[c].att = None
                         /\ callers[c].mnt = None
  BY DEF Init
<1>2. TypeOK
  <2>1. NoAtt \in Attachments
    BY Zenon DEF NoAtt, Attachments
  <2>2. NoMnt \in GuestMounts
    BY Zenon DEF NoMnt, GuestMounts, Configs, Paths
  <2>3. callers \in [Callers -> CallerStates]
    BY DEF Init, CallerStates, Places, Counting, Settled
  <2>4. slots \in [Slots -> Callers \cup {None, Taken}]
    BY <1>0, Zenon
  <2> QED  BY <2>1, <2>2, <2>3, <2>4 DEF Init, TypeOK
<1>3. \A s \in Slots : SoundSlot(s)
  BY <1>0, Zenon DEF SoundSlot, Init
<1>4. \A c \in Callers : SoundHolder(c)
  BY <1>0, <1>1, UvmScsiAssumption, Zenon DEF SoundHolder, Counting, Settled
<1> QED  BY <1>2, <1>3, <1>4, Zenon DEF AttachInv

\* A caller that moves within the work it is counted for.
LEMMA SettledMoves ==
  ASSUME AttachInv, NEW c \in Callers, callers[c].pc \in Settled,
         UNCHANGED <<slots, atts, bus>>, callers' \in [Callers -> CallerStates],
         callers'[c].pc \in Settled, callers'[c].att = callers[c].att,
         \A d \in Callers \ {c} : callers'[d] = callers[d],
         mounts' \in Seq(Callers \cup {None}), mnts' \in [Callers -> GuestMounts]
  PROVE  AttachInv'
<1>0. TypeOK'
  BY Zenon DEF AttachInv, TypeOK
<1>1. \A d \in Callers : callers'[d].att = callers[d].att
  BY Zenon
<1>2. \A a : Holders(a)' = Holders(a)
  BY <1>1, Zenon DEF Holders, Counting
<1>3. \A d \in Callers : callers'[d].pc = "attaching" <=> callers[d].pc = "attaching"
  BY Zenon DEF Settled
<1>4. \A s \in Slots : SoundSlot(s)'
  <2> SUFFICES ASSUME NEW s \in Slots
               PROVE  SoundSlot(s)'
    BY Zenon
  <2>1. SoundSlot(s)
    BY Zenon DEF AttachInv
  <2> QED  BY <2>1, <1>2, <1>3, Zenon DEF SoundSlot
<1>5. \A d \in Callers : SoundHolder(d)'
  <2> SUFFICES ASSUME NEW d \in Callers
               PROVE  SoundHolder(d)'
    BY Zenon
  <2>1. SoundHolder(d)
    BY Zenon DEF AttachInv
  <2>2. CASE d = c
    BY <2>1, <2>2, Zenon DEF SoundHolder, Tracked, Settled, Counting
  <2>3. CASE d # c
    BY <2>1, <2>3, <1>1, Zenon DEF SoundHolder, Tracked
  <2> QED  BY <2>2, <2>3, Zenon
<1> QED  BY <1>0, <1>4, <1>5, Zenon DEF AttachInv

\* A caller that leaves an attachment without giving it back.
LEMMA CallerLeaves ==
  ASSUME AttachInv, NEW c \in Callers, callers[c].pc = "awaitAttach",
         callers' = [callers EXCEPT ![c].pc = "failed"], UNCHANGED <<tables, world>>
  PROVE  AttachInv'
<1>0. TypeOK'
  BY Zenon DEF AttachInv, TypeOK, tables, world, CallerStates, Places
<1>1. \A d \in Callers : callers'[d].att = callers[d].att
  BY Zenon DEF AttachInv, TypeOK, CallerStates
<1>2. callers'[c].pc = "failed" /\ \A d \in Callers \ {c} : callers'[d] = callers[d]
  BY Zenon DEF AttachInv, TypeOK, CallerStates
<1>3. \A a \in Callers : Cardinality(Holders(a)') <= Cardinality(Holders(a)) /\
        Cardinality(Holders(a)') \in Nat
                         /\ Cardinality(Holders(a)) \in Nat
  <2> TAKE a \in Callers
  <2>1. Holders(a)' \subseteq Holders(a) /\ Holders(a) \subseteq Callers
    BY <1>1, <1>2, Zenon DEF Holders, Counting, Settled
  <2> QED  BY <2>1, CallersFinite, FS_Subset, Zenon
<1>4. \A s \in Slots : SoundSlot(s)'
  <2> SUFFICES ASSUME NEW s \in Slots
               PROVE  SoundSlot(s)'
    BY Zenon
  <2>1. SoundSlot(s) /\ slots' = slots /\ atts' = atts /\ bus' = bus
    BY Zenon DEF AttachInv, tables, world
  <2>2. ASSUME slots[s] \in Callers
        PROVE  atts[slots[s]].refs \in Nat
    BY <2>2, Zenon DEF AttachInv, TypeOK, Attachments
  <2> QED  BY <2>1, <2>2, <1>2, <1>3 DEF SoundSlot
<1>5. \A d \in Callers : SoundHolder(d)'
  <2> SUFFICES ASSUME NEW d \in Callers
               PROVE  SoundHolder(d)'
    BY Zenon
  <2>1. SoundHolder(d) /\ slots' = slots /\ atts' = atts
    BY Zenon DEF AttachInv, tables
  <2>2. CASE d = c
    BY <2>1, <2>2, <1>2, Zenon DEF SoundHolder, Counting, Settled
  <2>3. CASE d # c
    BY <2>1, <2>3, <1>1, <1>2, Zenon DEF SoundHolder, Tracked
  <2> QED  BY <2>2, <2>3, Zenon
<1> QED  BY <1>0, <1>4, <1>5, Zenon DEF AttachInv

\* trackAttachment finds the disk in a slot.
LEMMA AttachShares ==
  ASSUME AttachInv, NEW c \in Callers, At(c, "idle"), NEW s \in Same(c),
         atts' = [atts EXCEPT ![slots[s]].refs = @ + 1],
         callers' = [callers EXCEPT ![c].pc = "awaitAttach", ![c].att = slots[s]],
         UNCHANGED <<slots, mounts, mnts, world>>
  PROVE  AttachInv'
<1>0. PICK a \in Callers : a = slots[s] /\ Disk(a) = Disk(c) /\ s \in Slots /\ a # c
  <2>1. SoundHolder(c)
    BY Zenon DEF AttachInv
  <2> QED  BY <2>1, Zenon DEF Same, SoundHolder, At
<1>1. atts[a].slot = s /\ ~atts[a].err /\ atts[a].refs \in Nat
  <2>1. SoundSlot(s)
    BY <1>0, Zenon DEF AttachInv
  <2> QED  BY <2>1, <1>0, Zenon DEF SoundSlot, AttachInv, TypeOK, Attachments
<1>2. /\ atts'[a] = [atts[a] EXCEPT !.refs = @ + 1]
      /\ \A b \in Callers \ {a} : atts'[b] = atts[b]
      /\ atts' \in [Callers -> Attachments]
  <2>1. atts[a] \in Attachments /\ atts[a].refs + 1 \in Nat
    BY <1>0, <1>1 DEF AttachInv, TypeOK
  <2>2. [atts[a] EXCEPT !.refs = @ + 1] \in Attachments
    BY <2>1, Zenon DEF Attachments
  <2> QED  BY <2>2, <1>0, Zenon DEF AttachInv, TypeOK
<1>3. /\ callers'[c].pc = "awaitAttach" /\ callers'[c].att = a
      /\ \A d \in Callers \ {c} : callers'[d] = callers[d]
      /\ callers' \in [Callers -> CallerStates]
  BY <1>0, ZenonT(40) DEF AttachInv, TypeOK, CallerStates, Places, Counting
<1>4. TypeOK'
  BY <1>2, <1>3, Zenon DEF AttachInv, TypeOK, world
<1>5. \A b \in Callers : atts'[b].slot = atts[b].slot /\ atts'[b].done = atts[b].done
                         /\ atts'[b].err = atts[b].err
  BY <1>0, <1>2, Zenon DEF AttachInv, TypeOK, Attachments
<1>6. atts'[a].refs = atts[a].refs + 1
  BY <1>0, <1>2 DEF AttachInv, TypeOK, Attachments
<1>7. \A b \in Callers \ {a} : Holders(b)' = Holders(b)
  BY <1>3, Zenon DEF Holders, Counting, Settled, At
<1>8. Cardinality(Holders(a)') = Cardinality(Holders(a)) + 1 /\ Cardinality(Holders(a)) \in Nat
  <2>1. Holders(a)' = Holders(a) \cup {c} /\ c \notin Holders(a) /\ Holders(a) \subseteq Callers
    BY <1>3, Zenon DEF Holders, Counting, Settled, At
  <2> QED  BY <2>1, OneMore, CallersFinite, Zenon
<1>9. \A t \in Slots : SoundSlot(t)'
  <2> SUFFICES ASSUME NEW t \in Slots
               PROVE  SoundSlot(t)'
    BY Zenon
  <2>1. SoundSlot(t) /\ slots' = slots /\ bus' = bus /\ slots[t] # c
    <3>1. SoundHolder(c)
      BY Zenon DEF AttachInv
    <3> QED  BY <3>1, Zenon DEF AttachInv, world, SoundHolder, At
  <2>2. CASE slots[t] = a
    BY <2>1, <2>2, <1>0, <1>1, <1>3, <1>5, <1>6, <1>8 DEF SoundSlot
  <2>3. CASE slots[t] # a
    BY <2>1, <2>3, <1>2, <1>3, <1>7 DEF SoundSlot
  <2> QED  BY <2>2, <2>3, Zenon
<1>10. \A d \in Callers : SoundHolder(d)'
  <2> SUFFICES ASSUME NEW d \in Callers
               PROVE  SoundHolder(d)'
    BY Zenon
  <2>1. SoundHolder(d) /\ slots' = slots
    BY Zenon DEF AttachInv
  <2>2. CASE d = c
    <3>1. Tracked(a)'
      BY <1>0, <1>1, <1>5, <2>1, Zenon DEF Tracked
    <3> QED  BY <3>1, <2>2, <1>0, <1>3, Zenon DEF SoundHolder, Settled
  <2>3. CASE d # c
    <3>1. callers[d].pc \in {"absent", "idle"} => d # a
      BY <2>1, <1>0, Zenon DEF SoundHolder
    <3> QED  BY <3>1, <2>1, <2>3, <1>3, <1>5 DEF SoundHolder, Tracked
  <2> QED  BY <2>2, <2>3, Zenon
<1> QED  BY <1>4, <1>9, <1>10, Zenon DEF AttachInv

\* trackAttachment takes a free slot.
LEMMA AttachTakes ==
  ASSUME AttachInv, NEW c \in Callers, At(c, "idle"), NEW s \in Slots, slots[s] = None,
         slots' = [slots EXCEPT ![s] = c],
         atts' = [atts EXCEPT ![c] = [NoAtt EXCEPT !.slot = s, !.refs = 1]],
         callers' = [callers EXCEPT ![c].pc = "attaching", ![c].att = c],
         UNCHANGED <<mounts, mnts, world>>
  PROVE  AttachInv'
<1>0. /\ \A t \in Slots : slots[t] # c
      /\ \A d \in Callers : callers[d].att # c
  <2>1. SoundHolder(c)
    BY Zenon DEF AttachInv
  <2> QED  BY <2>1, Zenon DEF SoundHolder, At
<1>1. /\ atts'[c] = [slot |-> s, refs |-> 1, done |-> FALSE, err |-> FALSE]
      /\ \A b \in Callers \ {c} : atts'[b] = atts[b]
      /\ atts' \in [Callers -> Attachments]
  BY Zenon DEF AttachInv, TypeOK, Attachments, NoAtt
<1>2. slots'[s] = c /\ (\A t \in Slots \ {s} : slots'[t] = slots[t])
      /\ slots' \in [Slots -> Callers \cup {None, Taken}]
  BY Zenon DEF AttachInv, TypeOK
<1>3. /\ callers'[c].pc = "attaching" /\ callers'[c].att = c
      /\ \A d \in Callers \ {c} : callers'[d] = callers[d]
      /\ callers' \in [Callers -> CallerStates]
  <2>1. callers[c] \in CallerStates /\ "attaching" \in Places
    BY Zenon DEF AttachInv, TypeOK, Places, Counting
  <2>2. [callers[c] EXCEPT !.pc = "attaching", !.att = c] \in CallerStates
    BY <2>1, Zenon DEF CallerStates
  <2> QED  BY <2>2, Zenon DEF AttachInv, TypeOK, CallerStates
<1>4. TypeOK'
  BY <1>1, <1>2, <1>3, Zenon DEF AttachInv, TypeOK, world
<1>5. \A b \in Callers \ {c} : Holders(b)' = Holders(b)
  BY <1>3, Zenon DEF Holders, Counting, Settled, At
<1>6. Cardinality(Holders(c)') = 1
  <2>1. Holders(c)' = {c}
    BY <1>0, <1>3 DEF Holders, Counting
  <2> QED  BY <2>1, FS_Singleton, Zenon
<1>7. \A t \in Slots : SoundSlot(t)'
  <2> SUFFICES ASSUME NEW t \in Slots
               PROVE  SoundSlot(t)'
    BY Zenon
  <2>1. SoundSlot(t) /\ bus' = bus
    BY Zenon DEF AttachInv, world
  <2>2. CASE t = s
    <3>1. bus[s] = None /\ slots'[t] = c /\ c # None
      BY <2>1, <2>2, <1>2, UvmScsiAssumption, Zenon DEF SoundSlot
    <3>2. atts'[c].slot = t /\ atts'[c].refs = 1 /\ ~atts'[c].done /\ ~atts'[c].err
      BY <1>1, <2>2, Zenon
    <3> QED  BY <3>1, <3>2, <2>1, <2>2, <1>3, <1>6 DEF SoundSlot
  <2>3. CASE t # s
    BY <2>1, <2>3, <1>0, <1>1, <1>2, <1>3, <1>5, Zenon DEF SoundSlot
  <2> QED  BY <2>2, <2>3, Zenon
<1>8. \A d \in Callers : SoundHolder(d)'
  <2> SUFFICES ASSUME NEW d \in Callers
               PROVE  SoundHolder(d)'
    BY Zenon
  <2>1. SoundHolder(d)
    BY Zenon DEF AttachInv
  <2>2. CASE d = c
    <3>1. atts'[c].slot = s /\ ~atts'[c].done
      BY <1>1, Zenon
    <3>2. Tracked(c)'
      BY <3>1, <1>2, Zenon DEF Tracked
    <3> QED  BY <3>1, <3>2, <2>2, <1>3, Zenon DEF SoundHolder, Settled
  <2>3. CASE d # c
    <3>1. \A a \in Callers : Tracked(a) => Tracked(a)'
      BY <1>0, <1>1, <1>2, UvmScsiAssumption DEF Tracked
    <3>2. callers[d].att # c
      BY <1>0, Zenon
    <3>3. callers[d].pc \in Counting => callers[d].att \in Callers
      BY <2>1, Zenon DEF SoundHolder
    <3>4. callers[d].pc \in {"absent", "idle"} => \A t \in Slots : slots'[t] # d
      BY <2>1, <2>3, <1>2, Zenon DEF SoundHolder
    <3> QED  BY <3>1, <3>2, <3>3, <3>4, <2>1, <2>3, <1>1, <1>3, Zenon DEF SoundHolder
  <2> QED  BY <2>2, <2>3, Zenon
<1> QED  BY <1>4, <1>7, <1>8, Zenon DEF AttachInv

\* What a caller at work on an attachment has.
LEMMA AtWork ==
  ASSUME AttachInv, NEW c \in Callers, At(c, "attaching")
  PROVE  /\ callers[c].att = c /\ Slot(c) \in Slots /\ slots[Slot(c)] = c
         /\ bus[Slot(c)] = None /\ ~atts[c].done /\ ~atts[c].err /\ atts[c].slot = Slot(c)
<1>1. callers[c].att = c /\ ~atts[c].done /\ Tracked(c)
  BY Zenon DEF AttachInv, SoundHolder, At, Counting
<1>2. atts[c].slot = Slot(c)
  BY <1>1, Zenon DEF Slot
<1>3. Slot(c) \in Slots /\ slots[Slot(c)] = c
  BY <1>1, <1>2, Zenon DEF Tracked
<1>4. SoundSlot(Slot(c))
  BY <1>3, Zenon DEF AttachInv
<1> QED  BY <1>1, <1>2, <1>3, <1>4, Zenon DEF SoundSlot

\* The host attached the disk.
LEMMA HostAttaches ==
  ASSUME AttachInv, NEW c \in Callers, At(c, "attaching"),
         bus' = [bus EXCEPT ![Slot(c)] = Disk(c)],
         atts' = [atts EXCEPT ![c].done = TRUE],
         Goes(c, "attached"), UNCHANGED <<slots, mounts, mnts>>
  PROVE  AttachInv'
<1>0. PICK s \in Slots : /\ s = Slot(c) /\ callers[c].att = c /\ slots[s] = c
                         /\ atts[c].slot = s
  BY AtWork, Zenon
<1>1. /\ atts'[c].done /\ \A b \in Callers : atts'[b].slot = atts[b].slot
                             /\ atts'[b].refs = atts[b].refs /\ atts'[b].err = atts[b].err
      /\ \A b \in Callers \ {c} : atts'[b].done = atts[b].done
  BY Zenon DEF AttachInv, TypeOK, Attachments
<1>2. atts' \in [Callers -> Attachments]
  <2>1. atts[c] \in Attachments
    BY Zenon DEF AttachInv, TypeOK
  <2>2. [atts[c] EXCEPT !.done = TRUE] \in Attachments
    BY <2>1, Zenon DEF Attachments
  <2> QED  BY <2>2, Zenon DEF AttachInv, TypeOK
<1>3. /\ callers'[c].pc = "attached" /\ callers'[c].att = c
      /\ \A d \in Callers \ {c} : callers'[d] = callers[d]
      /\ callers' \in [Callers -> CallerStates]
  BY <1>0 DEF Goes, AttachInv, TypeOK, CallerStates, Places, Counting, Settled
<1>4. bus'[s] = Disk(c) /\ (\A t \in Slots \ {s} : bus'[t] = bus[t]) /\ DOMAIN bus' = Slots
  BY <1>0, Zenon DEF AttachInv, TypeOK
<1>5. TypeOK'
  BY <1>2, <1>3, <1>4, Zenon DEF AttachInv, TypeOK
<1>6. \A d \in Callers : callers'[d].att = callers[d].att
  BY <1>0, <1>3, Zenon
<1>7. \A b : Holders(b)' = Holders(b)
  <2>1. callers[c].pc \in Counting /\ callers'[c].pc \in Counting
    BY <1>3, Zenon DEF At, Counting, Settled
  <2> QED  BY <2>1, <1>3, <1>6, Zenon DEF Holders
<1>8. \A t \in Slots : SoundSlot(t)'
  <2> SUFFICES ASSUME NEW t \in Slots
               PROVE  SoundSlot(t)'
    BY Zenon
  <2>1. SoundSlot(t)
    BY Zenon DEF AttachInv
  <2>2. CASE t = s
    BY <2>1, <2>2, <1>0, <1>1, <1>4, <1>7, UvmScsiAssumption DEF SoundSlot
  <2>3. CASE t # s
    <3>1. slots[t] # c
      BY <2>1, <2>3, <1>0, Zenon DEF SoundSlot
    <3> QED  BY <3>1, <2>1, <2>3, <1>1, <1>3, <1>4, <1>7 DEF SoundSlot
  <2> QED  BY <2>2, <2>3, Zenon
<1>9. \A d \in Callers : SoundHolder(d)'
  <2> SUFFICES ASSUME NEW d \in Callers
               PROVE  SoundHolder(d)'
    BY Zenon
  <2>1. SoundHolder(d)
    BY Zenon DEF AttachInv
  <2>2. \A b \in Callers : Tracked(b) => Tracked(b)'
    BY <1>1, Zenon DEF Tracked
  <2>3. CASE d = c
    <3>1. Tracked(c)
      BY <1>0, Zenon DEF Tracked
    <3> QED  BY <3>1, <2>2, <2>3, <1>1, <1>3, Zenon DEF SoundHolder
  <2>4. CASE d # c
    <3>1. callers[d].pc = "attaching" => callers[d].att # c
      BY <2>1, <2>4, Zenon DEF SoundHolder, Counting
    <3>2. \A b \in Callers : atts[b].done => atts'[b].done
      BY <1>1, Zenon
    <3> QED  BY <3>1, <3>2, <2>1, <2>2, <2>4, <1>1, <1>3, <1>6 DEF SoundHolder
  <2> QED  BY <2>3, <2>4, Zenon
<1> QED  BY <1>5, <1>8, <1>9, Zenon DEF AttachInv

\* The host did not: the callers that wait are told.
LEMMA HostRefuses ==
  ASSUME AttachInv, NEW c \in Callers, At(c, "attaching"),
         AttachFails(c), Goes(c, "failed"), UNCHANGED <<bus, mounts, mnts>>
  PROVE  AttachInv'
<1>0. PICK s \in Slots : /\ s = Slot(c) /\ callers[c].att = c /\ slots[s] = c
                         /\ atts[c].slot = s /\ bus[s] = None /\ ~atts[c].done
  BY AtWork, Zenon
<1>1. /\ atts'[c].done /\ atts'[c].err
      /\ \A b \in Callers \ {c} : atts'[b] = atts[b]
  BY Zenon DEF AttachInv, TypeOK, Attachments, AttachFails
<1>2. atts' \in [Callers -> Attachments]
  <2>1. atts[c] \in Attachments
    BY Zenon DEF AttachInv, TypeOK
  <2>2. [atts[c] EXCEPT !.done = TRUE, !.err = TRUE] \in Attachments
    BY <2>1, Zenon DEF Attachments
  <2> QED  BY <2>2, Zenon DEF AttachInv, TypeOK, AttachFails
<1>3. /\ callers'[c].pc = "failed" /\ callers'[c].att = c
      /\ \A d \in Callers \ {c} : callers'[d] = callers[d]
      /\ callers' \in [Callers -> CallerStates]
  BY <1>0 DEF Goes, AttachInv, TypeOK, CallerStates, Places
<1>4. slots'[s] = None /\ (\A t \in Slots \ {s} : slots'[t] = slots[t])
      /\ slots' \in [Slots -> Callers \cup {None, Taken}]
  BY <1>0, Zenon DEF AttachInv, TypeOK, AttachFails
<1>5. TypeOK'
  BY <1>2, <1>3, <1>4, Zenon DEF AttachInv, TypeOK
<1>6. \A d \in Callers : callers'[d].att = callers[d].att
  BY <1>0, <1>3, Zenon
<1>7. \A b \in Callers \ {c} : Holders(b)' = Holders(b)
  BY <1>3, <1>0, Zenon DEF Holders, Counting, Settled
<1>8. \A t \in Slots : SoundSlot(t)'
  <2> SUFFICES ASSUME NEW t \in Slots
               PROVE  SoundSlot(t)'
    BY Zenon
  <2>1. SoundSlot(t)
    BY Zenon DEF AttachInv
  <2>2. CASE t = s
    BY <2>2, <1>0, <1>4, UvmScsiAssumption, Zenon DEF SoundSlot
  <2>3. CASE t # s
    <3>1. slots[t] # c
      BY <2>1, <2>3, <1>0, Zenon DEF SoundSlot
    <3> QED  BY <3>1, <2>1, <2>3, <1>1, <1>3, <1>4, <1>7 DEF SoundSlot
  <2> QED  BY <2>2, <2>3, Zenon
<1>9. \A d \in Callers : SoundHolder(d)'
  <2> SUFFICES ASSUME NEW d \in Callers
               PROVE  SoundHolder(d)'
    BY Zenon
  <2>1. SoundHolder(d)
    BY Zenon DEF AttachInv
  <2>2. \A b \in Callers \ {c} : Tracked(b) => Tracked(b)'
    BY <1>0, <1>1, <1>4 DEF Tracked
  <2>3. CASE d = c
    BY <2>3, <1>3, Zenon DEF SoundHolder, Counting, Settled
  <2>4. CASE d # c /\ callers[d].att = c
    <3>1. callers[d].pc \in Counting => callers[d].pc = "awaitAttach"
      BY <2>1, <2>4, <1>0, Zenon DEF SoundHolder, Counting
    <3>2. callers[d].pc \in {"absent", "idle"} => \A t \in Slots : slots'[t] # d
      BY <2>1, <1>4, UvmScsiAssumption, Zenon DEF SoundHolder
    <3> QED  BY <3>1, <3>2, <2>1, <2>4, <1>1, <1>3, <1>6, Zenon DEF SoundHolder, Settled
  <2>5. CASE d # c /\ callers[d].att # c
    <3>1. callers[d].pc \in {"absent", "idle"} => \A t \in Slots : slots'[t] # d
      BY <2>1, <1>4, UvmScsiAssumption, Zenon DEF SoundHolder
    <3> QED  BY <3>1, <2>1, <2>2, <2>5, <1>1, <1>3, <1>6 DEF SoundHolder
  <2> QED  BY <2>3, <2>4, <2>5, Zenon
<1> QED  BY <1>5, <1>8, <1>9, Zenon DEF AttachInv

\* What a caller that holds an attachment has.
LEMMA InSlot ==
  ASSUME AttachInv, NEW c \in Callers, callers[c].pc \in Settled
  PROVE  /\ callers[c].att \in Callers /\ Slot(c) \in Slots /\ slots[Slot(c)] = callers[c].att
         /\ bus[Slot(c)] = Disk(c) /\ Slot(c) = atts[callers[c].att].slot
<1>1. /\ callers[c].att \in Callers /\ Disk(callers[c].att) = Disk(c)
      /\ Tracked(callers[c].att) /\ atts[callers[c].att].done
  BY Zenon DEF AttachInv, SoundHolder, Settled, Counting
<1>2. Slot(c) \in Slots /\ slots[Slot(c)] = callers[c].att
  BY <1>1, Zenon DEF Tracked, Slot
<1>3. SoundSlot(Slot(c))
  BY <1>2, Zenon DEF AttachInv
<1> QED  BY <1>1, <1>2, <1>3, Zenon DEF SoundSlot, Slot

\* A caller gives its attachment back; the last one takes the disk off the bus.
LEMMA GivesBack ==
  ASSUME AttachInv, NEW c \in Callers, callers[c].pc \in {"undo", "detaching"},
         NEW pc \in {"failed", "released"}, Goes(c, pc), Detach(Slot(c), FALSE)
  PROVE  AttachInv'
<1>0. PICK s \in Slots, a \in Callers :
           /\ s = Slot(c) /\ callers[c].att = a /\ slots[s] = a /\ atts[a].slot = s
  <2>1. callers[c].pc \in Settled
    BY Zenon DEF Settled
  <2> QED  BY <2>1, InSlot, Zenon
<1>1. /\ Holders(a) \subseteq Callers /\ c \in Holders(a)
      /\ Cardinality(Holders(a)) <= atts[a].refs
      /\ atts[a].refs \in Nat
  <2>1. SoundSlot(s)
    BY Zenon DEF AttachInv
  <2>2. atts[a] \in Attachments
    BY Zenon DEF AttachInv, TypeOK
  <2>3. atts[a].refs \in Nat
    BY <2>2, Zenon DEF Attachments
  <2> QED  BY <2>1, <2>3, <1>0, Zenon DEF SoundSlot, Holders, Counting, Settled
<1>2. /\ Cardinality(Holders(a) \ {c}) = Cardinality(Holders(a)) - 1
      /\ Cardinality(Holders(a)) >= 1 /\ Cardinality(Holders(a)) \in Nat
  BY <1>1, OneLess, CallersFinite, Zenon
<1>3. /\ callers'[c].pc = pc /\ callers'[c].att = a
      /\ \A d \in Callers \ {c} : callers'[d] = callers[d]
      /\ callers' \in [Callers -> CallerStates]
  BY <1>0, ZenonT(40) DEF Goes, AttachInv, TypeOK, CallerStates, Places
<1>4. /\ atts'[a].refs = atts[a].refs - 1
      /\ \A b \in Callers : atts'[b].slot = atts[b].slot /\ atts'[b].done = atts[b].done
                            /\ atts'[b].err = atts[b].err
      /\ \A b \in Callers \ {a} : atts'[b].refs = atts[b].refs
  BY <1>0 DEF Detach, Dropped, AttachInv, TypeOK, Attachments
<1>5. atts' \in [Callers -> Attachments]
  <2>1. atts[a] \in Attachments /\ atts[a].refs - 1 \in Nat
    BY <1>1, <1>2 DEF AttachInv, TypeOK
  <2>2. [atts[a] EXCEPT !.refs = @ - 1] \in Attachments
    BY <2>1, Zenon DEF Attachments
  <2> QED  BY <2>2, <1>0, Zenon DEF Detach, Dropped, AttachInv, TypeOK
<1>6. \A d \in Callers : callers'[d].att = callers[d].att
  BY <1>0, <1>3, Zenon
<1>7. /\ Holders(a)' = Holders(a) \ {c}
      /\ \A b \in Callers \ {a} : Holders(b)' = Holders(b)
  BY <1>3, <1>0, Zenon DEF Holders, Counting, Settled
<1>8. CASE UNCHANGED <<slots, bus>>
  <2>1. TypeOK'
    BY <1>3, <1>5, <1>8, Zenon DEF AttachInv, TypeOK, Detach
  <2>2. \A t \in Slots : SoundSlot(t)'
    <3> SUFFICES ASSUME NEW t \in Slots
                 PROVE  SoundSlot(t)'
      BY Zenon
    <3>1. SoundSlot(t)
      BY Zenon DEF AttachInv
    <3>2. slots[t] \in Callers => callers'[slots[t]].pc = "attaching"
                                  \/ callers[slots[t]].pc # "attaching"
      BY <1>3, Zenon
    <3>3. CASE slots[t] = a
      <4>1. Cardinality(Holders(a)') <= atts'[a].refs
        BY <1>1, <1>2, <1>4, <1>7
      <4> QED  BY <4>1, <3>1, <3>2, <3>3, <1>4, <1>8, Zenon DEF SoundSlot
    <3>4. CASE slots[t] # a
      BY <3>1, <3>2, <3>4, <1>4, <1>7, <1>8, Zenon DEF SoundSlot
    <3> QED  BY <3>3, <3>4, Zenon
  <2>3. \A d \in Callers : SoundHolder(d)'
    <3> SUFFICES ASSUME NEW d \in Callers
                 PROVE  SoundHolder(d)'
      BY Zenon
    <3>1. SoundHolder(d)
      BY Zenon DEF AttachInv
    <3>2. CASE d = c
      BY <3>2, <1>3, Zenon DEF SoundHolder, Counting, Settled
    <3>3. CASE d # c
      BY <3>1, <3>3, <1>3, <1>4, <1>6, <1>8 DEF SoundHolder, Tracked
    <3> QED  BY <3>2, <3>3, Zenon
  <2> QED  BY <2>1, <2>2, <2>3, Zenon DEF AttachInv
<1>9. CASE /\ LastAttached(s) /\ bus' = [bus EXCEPT ![s] = None]
           /\ slots' = [slots EXCEPT ![s] = None]
  <2>0. Holders(a) = {c}
    <3>1. Cardinality(Holders(a)) <= 1
      BY <1>0, <1>1, <1>9, Zenon DEF LastAttached
    <3> QED  BY <3>1, <1>1, OnlyOne, Zenon
  <2>1. /\ slots'[s] = None /\ bus'[s] = None /\ DOMAIN bus' = Slots
        /\ \A t \in Slots \ {s} : slots'[t] = slots[t] /\ bus'[t] = bus[t]
        /\ slots' \in [Slots -> Callers \cup {None, Taken}]
    BY <1>9, Zenon DEF AttachInv, TypeOK
  <2>2. TypeOK'
    BY <1>3, <1>5, <2>1, Zenon DEF AttachInv, TypeOK, Detach
  <2>3. \A t \in Slots : SoundSlot(t)'
    <3> SUFFICES ASSUME NEW t \in Slots
                 PROVE  SoundSlot(t)'
      BY Zenon
    <3>1. SoundSlot(t)
      BY Zenon DEF AttachInv
    <3>2. CASE t = s
      BY <3>2, <2>1, UvmScsiAssumption, Zenon DEF SoundSlot
    <3>3. CASE t # s
      <4>1. slots[t] # a
        BY <3>1, <3>3, <1>0, Zenon DEF SoundSlot
      <4>2. slots[t] \in Callers => callers'[slots[t]].pc = "attaching"
                                    \/ callers[slots[t]].pc # "attaching"
        BY <1>3, Zenon
      <4> QED  BY <4>1, <4>2, <3>1, <3>3, <2>1, <1>4, <1>7 DEF SoundSlot
    <3> QED  BY <3>2, <3>3, Zenon
  <2>4. \A d \in Callers : SoundHolder(d)'
    <3> SUFFICES ASSUME NEW d \in Callers
                 PROVE  SoundHolder(d)'
      BY Zenon
    <3>1. SoundHolder(d)
      BY Zenon DEF AttachInv
    <3>2. CASE d = c
      BY <3>2, <1>3, Zenon DEF SoundHolder, Counting, Settled
    <3>3. CASE d # c
      <4>1. callers[d].pc \in Counting => callers[d].att # a
        BY <2>0, <3>3, Zenon DEF Holders
      <4>2. \A b \in Callers \ {a} : Tracked(b) => Tracked(b)'
        BY <1>0, <1>4, <2>1, Zenon DEF Tracked
      <4>3. callers[d].pc \in {"absent", "idle"} => \A t \in Slots : slots'[t] # d
        BY <3>1, <2>1, UvmScsiAssumption, Zenon DEF SoundHolder
      <4> QED  BY <4>1, <4>2, <4>3, <3>1, <3>3, <1>3, <1>4, <1>6 DEF SoundHolder
    <3> QED  BY <3>2, <3>3, Zenon
  <2> QED  BY <2>2, <2>3, <2>4, Zenon DEF AttachInv
<1> QED  BY <1>0, <1>8, <1>9, Zenon DEF Detach

-----------------------------------------------------------------------------
(* The mount manager.                                                       *)

LEMMA MountInit ==
  Init => MountInv
<1> SUFFICES ASSUME Init
             PROVE  MountInv
  BY Zenon
<1>1. \A c \in Callers : callers[c].pc \in {"idle", "absent"} /\ callers[c].mnt = None
  BY DEF Init
<1>2. mounts = <<>> /\ guest = {} /\ DOMAIN mounts = {}
  BY DEF Init
<1>3. \A o \in Callers : SoundMount(o)
  BY <1>2, Zenon DEF SoundMount, Listed
<1>4. \A c \in Callers : SoundUser(c)
  BY <1>1, <1>2, UvmScsiAssumption, Zenon DEF SoundUser, Sharing
<1> QED  BY <1>2, <1>3, <1>4, Zenon DEF MountInv

\* The places in which a caller's mount matters.
Relying == Sharing \cup {"stuck"}

\* A step that leaves the mounts and those that rely on them as they are.
LEMMA MountsKept ==
  ASSUME MountInv, UNCHANGED <<mounts, mnts, guest>>,
         \A d \in Callers : callers'[d].mnt = callers[d].mnt,
         \A d \in Callers :
            \/ /\ callers'[d].pc = callers[d].pc
               /\ callers[d].pc \in Relying => Slot(d)' = Slot(d)
            \/ /\ callers[d].mnt = None \/ callers[d].pc \notin Relying
               /\ callers[d].mnt = None \/ callers'[d].pc \notin Relying
               /\ callers'[d].pc \notin {"mounting", "awaitMount"}
               /\ callers'[d].pc \in Early => callers[d].pc \in Early
  PROVE  MountInv'
<1>0. \A d \in Callers : callers[d].mnt # None =>
         /\ callers[d].pc \in Relying => callers'[d].pc = callers[d].pc /\ Slot(d)' = Slot(d)
         /\ callers'[d].pc \in Relying => callers'[d].pc = callers[d].pc
  BY Zenon
<1>1. \A o \in Callers : Users(o)' = Users(o)
  <2> TAKE o \in Callers
  <2>1. o # None
    BY UvmScsiAssumption, Zenon
  <2> QED  BY <2>1, <1>0, Zenon DEF Users, Relying
<1>2. \A o \in Callers : /\ Listed(o)' <=> Listed(o)
                         /\ Record(o)' = Record(o)
  BY Zenon DEF Listed, Record
<1>3. \A o \in Callers : SoundMount(o)'
  <2> SUFFICES ASSUME NEW o \in Callers, Listed(o)
               PROVE  SoundMount(o)'
    BY <1>2, Zenon DEF SoundMount
  <2>1. SoundMount(o) /\ SoundUser(o) /\ o # None
    BY UvmScsiAssumption, Zenon DEF MountInv
  <2>2. \E c \in Callers : callers'[c].mnt = o /\ callers'[c].pc \in Relying
    BY <2>1, <1>0, Zenon DEF SoundMount, Relying
  <2>3. callers[o].pc = "mounting" => callers'[o].pc = "mounting"
    BY <2>1, <1>0, Zenon DEF SoundUser, Relying, Sharing
  <2> QED  BY <2>1, <2>2, <2>3, <1>1, <1>2, Zenon DEF SoundMount, Relying
<1>4. \A c \in Callers : SoundUser(c)'
  <2> SUFFICES ASSUME NEW c \in Callers
               PROVE  SoundUser(c)'
    BY Zenon
  <2>2. SoundUser(c)
    BY Zenon DEF MountInv
  <2>3. CASE callers'[c].pc = callers[c].pc /\ (callers[c].pc \in Relying => Slot(c)' = Slot(c))
    BY <2>2, <2>3, Zenon DEF SoundUser, Relying, Listed
  <2>4. CASE ~(callers'[c].pc = callers[c].pc /\ (callers[c].pc \in Relying => Slot(c)' = Slot(c)))
    BY <2>2, <2>4, Zenon DEF SoundUser, Relying, Listed
  <2> QED  BY <2>3, <2>4, Zenon
<1>5. \A g \in guest' : \E o \in Callers : Listed(o)' /\ mnts'[o].done /\ g = Record(o)'
  BY <1>2, Zenon DEF MountInv
<1> QED  BY <1>3, <1>4, <1>5, Zenon DEF MountInv

UvmScsiInv == AttachInv /\ MountInv

\* The attach manager's part of adding a disk.
LEMMA AttachKeeps ==
  ASSUME UvmScsiInv, NEW c \in Callers, Attach(c)
  PROVE  UvmScsiInv'
<1>0. AttachInv /\ MountInv /\ At(c, "idle") /\ SoundHolder(c) /\ SoundUser(c)
  BY Zenon DEF UvmScsiInv, Attach, AttachInv, MountInv
<1>1. \A d \in Callers : callers[d].pc \in Relying => callers[d].att \in Callers \ {c}
  BY <1>0, InSlot, Zenon DEF Relying, Sharing, Settled, SoundHolder, At
<1>2. callers \in [Callers -> CallerStates] /\ atts \in [Callers -> Attachments]
  BY <1>0, Zenon DEF AttachInv, TypeOK
<1>3. ASSUME NEW s \in Same(c),
             atts' = [atts EXCEPT ![slots[s]].refs = @ + 1],
             callers' = [callers EXCEPT ![c].pc = "awaitAttach", ![c].att = slots[s]],
             UNCHANGED slots
      PROVE  UvmScsiInv'
  <2>1. AttachInv'
    BY <1>0, <1>3, AttachShares, Zenon DEF Attach
  <2>2. \A a \in Callers : atts'[a].slot = atts[a].slot
    BY <1>2, <1>3, Zenon DEF Attachments
  <2>3. callers'[c].pc = "awaitAttach" /\ \A d \in Callers : callers'[d].mnt = callers[d].mnt
    BY <1>2, <1>3, Zenon DEF CallerStates
  <2>4. \A d \in Callers \ {c} : callers'[d] = callers[d]
    BY <1>2, <1>3, Zenon
  <2>5. \A d \in Callers \ {c} : callers[d].pc \in Relying => Slot(d)' = Slot(d)
    BY <2>2, <2>4, <1>1, Zenon DEF Slot
  <2>6. callers[c].pc \notin Relying /\ callers'[c].pc \notin Relying /\ callers[c].pc \in Early
        /\ callers'[c].pc \notin {"mounting", "awaitMount"} /\ UNCHANGED <<mounts, mnts, guest>>
    BY <1>0, <2>3, Zenon DEF At, Relying, Sharing, Early, Attach, world
  <2>7. MountInv'
    BY <1>0, <2>3, <2>4, <2>5, <2>6, MountsKept, Zenon
  <2> QED  BY <2>1, <2>7, Zenon DEF UvmScsiInv
<1>4. ASSUME NEW s \in Slots, slots[s] = None,
             slots' = [slots EXCEPT ![s] = c],
             atts' = [atts EXCEPT ![c] = [NoAtt EXCEPT !.slot = s, !.refs = 1]],
             callers' = [callers EXCEPT ![c].pc = "attaching", ![c].att = c]
      PROVE  UvmScsiInv'
  <2>1. AttachInv'
    BY <1>0, <1>4, AttachTakes, Zenon DEF Attach
  <2>2. \A a \in Callers \ {c} : atts'[a].slot = atts[a].slot
    BY <1>2, <1>4, Zenon
  <2>3. callers'[c].pc = "attaching" /\ \A d \in Callers : callers'[d].mnt = callers[d].mnt
    BY <1>2, <1>4, Zenon DEF CallerStates
  <2>4. \A d \in Callers \ {c} : callers'[d] = callers[d]
    BY <1>2, <1>4, Zenon
  <2>5. \A d \in Callers \ {c} : callers[d].pc \in Relying => Slot(d)' = Slot(d)
    BY <2>2, <2>4, <1>1, Zenon DEF Slot
  <2>6. callers[c].pc \notin Relying /\ callers'[c].pc \notin Relying /\ callers[c].pc \in Early
        /\ callers'[c].pc \notin {"mounting", "awaitMount"} /\ UNCHANGED <<mounts, mnts, guest>>
    BY <1>0, <2>3, Zenon DEF At, Relying, Sharing, Early, Attach, world
  <2>7. MountInv'
    BY <1>0, <2>3, <2>4, <2>5, <2>6, MountsKept, Zenon
  <2> QED  BY <2>1, <2>7, Zenon DEF UvmScsiInv
<1>5. ASSUME Goes(c, "failed"), UNCHANGED <<slots, atts>>
      PROVE  UvmScsiInv'
  <2>1. /\ callers'[c].pc = "failed" /\ \A d \in Callers : /\ callers'[d].mnt = callers[d].mnt
                                                          /\ callers'[d].att = callers[d].att
    BY <1>2, <1>5, Zenon DEF CallerStates, Goes
  <2>2. \A d \in Callers \ {c} : callers'[d] = callers[d]
    BY <1>2, <1>5, Zenon DEF Goes
  <2>3. callers' \in [Callers -> CallerStates]
    BY <1>2, <1>5, Zenon DEF CallerStates, Goes, Places
  <2>4. bus' = bus /\ UNCHANGED <<mounts, mnts, guest>>
    BY Zenon DEF Attach, world
  <2>5. AttachInv'
    <3>1. TypeOK'
      BY <1>0, <1>5, <2>3, <2>4, Zenon DEF AttachInv, TypeOK
    <3>2. \A a \in Callers : Holders(a)' = Holders(a)
      BY <1>0, <2>1, <2>2, Zenon DEF Holders, Counting, Settled, At
    <3>3. \A s \in Slots : SoundSlot(s)'
      <4> SUFFICES ASSUME NEW s \in Slots
                   PROVE  SoundSlot(s)'
        BY Zenon
      <4>1. SoundSlot(s) /\ slots[s] # c
        BY <1>0, Zenon DEF AttachInv, SoundHolder, At
      <4> QED  BY <4>1, <1>5, <2>2, <2>4, <3>2, Zenon DEF SoundSlot
    <3>4. \A d \in Callers : SoundHolder(d)'
      <4> SUFFICES ASSUME NEW d \in Callers
                   PROVE  SoundHolder(d)'
        BY Zenon
      <4>1. SoundHolder(d)
        BY <1>0, Zenon DEF AttachInv
      <4>2. CASE d = c
        BY <4>2, <2>1, Zenon DEF SoundHolder, Counting, Settled
      <4>3. CASE d # c
        BY <4>1, <4>3, <1>5, <2>1, <2>2, Zenon DEF SoundHolder, Tracked
      <4> QED  BY <4>2, <4>3, Zenon
    <3> QED  BY <3>1, <3>3, <3>4, Zenon DEF AttachInv
  <2>6. \A d \in Callers : Slot(d)' = Slot(d)
    BY <1>5, <2>1, Zenon DEF Slot
  <2>7. callers[c].pc \notin Relying /\ callers'[c].pc \notin Relying \cup Early
        /\ callers'[c].pc \notin {"mounting", "awaitMount"}
    BY <1>0, <2>1, Zenon DEF At, Relying, Sharing, Early
  <2>8. MountInv'
    BY <1>0, <2>1, <2>2, <2>4, <2>6, <2>7, MountsKept, Zenon
  <2> QED  BY <2>5, <2>8, Zenon DEF UvmScsiInv
<1>6. ASSUME {s \in Slots : slots[s] = None} # {}
      PROVE  LET m == Min({s \in Slots : slots[s] = None}) IN m \in Slots /\ slots[m] = None
  <2>1. {s \in Slots : slots[s] = None} \subseteq Nat
    BY DEF Slots
  <2>2. Min({s \in Slots : slots[s] = None}) \in {s \in Slots : slots[s] = None}
    BY <1>6, <2>1, FirstIsOne, Zenon
  <2> QED  BY <2>2, Zenon
<1> QED  BY <1>3, <1>4, <1>5, <1>6, Zenon DEF Attach

\* The host's answer.
LEMMA HostAttachKeeps ==
  ASSUME UvmScsiInv, NEW c \in Callers, HostAttach(c)
  PROVE  UvmScsiInv'
<1>0. AttachInv /\ MountInv /\ At(c, "attaching")
  BY Zenon DEF UvmScsiInv, HostAttach
<1>1. AttachInv'
  BY <1>0, HostAttaches, HostRefuses, Zenon DEF HostAttach
<1>2. callers \in [Callers -> CallerStates] /\ atts \in [Callers -> Attachments]
  BY <1>0, Zenon DEF AttachInv, TypeOK
<1>3. \A a \in Callers : atts'[a].slot = atts[a].slot
  BY <1>2 DEF HostAttach, AttachFails, Attachments
<1>4. /\ callers'[c].pc \in {"attached", "failed"}
      /\ \A d \in Callers : /\ callers'[d].mnt = callers[d].mnt
                            /\ callers'[d].att = callers[d].att
      /\ \A d \in Callers \ {c} : callers'[d] = callers[d]
  BY <1>2 DEF HostAttach, Goes, CallerStates
<1>5. \A d \in Callers \ {c} : callers[d].pc \in Relying => Slot(d)' = Slot(d)
  BY <1>0, <1>3, <1>4, InSlot, Zenon DEF Relying, Sharing, Settled, Slot
<1>6. callers[c].pc \notin Relying /\ callers'[c].pc \notin Relying /\ callers[c].pc \in Early
      /\ callers'[c].pc \notin {"mounting", "awaitMount"}
  BY <1>0, <1>4, Zenon DEF At, Relying, Sharing, Early
<1>7. MountInv'
  BY <1>0, <1>4, <1>5, <1>6, MountsKept, Zenon DEF HostAttach
<1> QED  BY <1>1, <1>7, Zenon DEF UvmScsiInv

\* A caller that only changes place, between places without a mount.
LEMMA Passes ==
  ASSUME MountInv, NEW c \in Callers, NEW pc, callers \in [Callers -> CallerStates],
         callers' = [callers EXCEPT ![c].pc = pc],
         \A a \in Callers : atts'[a].slot = atts[a].slot,
         \A d \in Callers : callers[d].pc \in Relying => callers[d].att \in Callers,
         UNCHANGED <<mounts, mnts, guest>>,
         callers[c].mnt = None \/ callers[c].pc \notin Relying,
         callers[c].mnt = None \/ pc \notin Relying,
         pc \notin {"mounting", "awaitMount"},
         pc \in Early => callers[c].pc \in Early
  PROVE  MountInv'
<1>1. /\ callers'[c].pc = pc
      /\ \A d \in Callers : /\ callers'[d].mnt = callers[d].mnt
                            /\ callers'[d].att = callers[d].att
      /\ \A d \in Callers \ {c} : callers'[d] = callers[d]
  BY Zenon DEF CallerStates
<1>2. \A d \in Callers : callers[d].pc \in Relying => Slot(d)' = Slot(d)
  BY <1>1, Zenon DEF Slot
<1> QED  BY <1>1, <1>2, MountsKept, Zenon

\* The callers that wait for an attachment, or stop waiting.
LEMMA AwaitAttachKeeps ==
  ASSUME UvmScsiInv, NEW c \in Callers, At(c, "awaitAttach"), NEW pc, Goes(c, pc),
         UNCHANGED <<tables, world>>,
         \/ pc = "failed"
         \/ pc = "attached" /\ atts[callers[c].att].done /\ ~atts[callers[c].att].err
  PROVE  UvmScsiInv'
<1>0. AttachInv /\ MountInv /\ SoundHolder(c)
  BY Zenon DEF UvmScsiInv, AttachInv
<1>1. callers \in [Callers -> CallerStates]
  BY <1>0, Zenon DEF AttachInv, TypeOK
<1>2. AttachInv'
  <2>1. CASE pc = "failed"
    BY <2>1, <1>0, CallerLeaves, Zenon DEF At, Goes
  <2>2. CASE pc = "attached" /\ atts[callers[c].att].done /\ ~atts[callers[c].att].err
    <3>1. /\ callers'[c].pc = "attached" /\ callers'[c].att = callers[c].att
          /\ \A d \in Callers \ {c} : callers'[d] = callers[d]
          /\ \A d \in Callers : callers'[d].att = callers[d].att
          /\ callers' \in [Callers -> CallerStates]
      BY <2>2, <1>1 DEF Goes, CallerStates, Places, Counting, Settled
    <3>2. UNCHANGED <<slots, atts, mounts, mnts, bus>>
      BY Zenon DEF tables, world
    <3>3. TypeOK'
      BY <1>0, <3>1, <3>2, Zenon DEF AttachInv, TypeOK
    <3>4. \A a \in Callers : Holders(a)' = Holders(a)
      BY <3>1, ZenonT(40) DEF Holders, Counting, Settled, At
    <3>5. \A s \in Slots : SoundSlot(s)'
      <4> SUFFICES ASSUME NEW s \in Slots
                   PROVE  SoundSlot(s)'
        BY Zenon
      <4>1. SoundSlot(s)
        BY <1>0, Zenon DEF AttachInv
      <4>2. \A d \in Callers : callers[d].pc = "attaching" => callers'[d].pc = "attaching"
        BY <3>1, Zenon DEF At
      <4> QED  BY <4>1, <4>2, <3>2, <3>4, Zenon DEF SoundSlot
    <3>6. \A d \in Callers : SoundHolder(d)'
      <4> SUFFICES ASSUME NEW d \in Callers
                   PROVE  SoundHolder(d)'
        BY Zenon
      <4>1. SoundHolder(d)
        BY <1>0, Zenon DEF AttachInv
      <4>2. CASE d = c
        <5>1. callers[c].att \in Callers /\ Disk(callers[c].att) = Disk(c) /\
                Tracked(callers[c].att)
          BY <2>2, <1>0, Zenon DEF SoundHolder, At, Counting
        <5> QED  BY <5>1, <4>2, <2>2, <3>1, <3>2, Zenon DEF SoundHolder, Tracked
      <4>3. CASE d # c
        BY <4>1, <4>3, <3>1, <3>2, Zenon DEF SoundHolder, Tracked
      <4> QED  BY <4>2, <4>3, Zenon
    <3> QED  BY <3>3, <3>5, <3>6, Zenon DEF AttachInv
  <2> QED  BY <2>1, <2>2, Zenon
<1>3. \A d \in Callers : callers[d].pc \in Relying => callers[d].att \in Callers
  BY <1>0, InSlot, Zenon DEF Relying, Sharing, Settled
<1>4. callers[c].pc \notin Relying /\ pc \notin Relying /\ callers[c].pc \in Early
      /\ pc \notin {"mounting", "awaitMount"}
  BY Zenon DEF At, Relying, Sharing, Early
<1>5. MountInv'
  BY <1>0, <1>1, <1>3, <1>4, Passes, Zenon DEF Goes, tables, world
<1> QED  BY <1>2, <1>5, Zenon DEF UvmScsiInv

\* Giving an attachment back, after a failed add or in a release.
LEMMA DetachKeeps ==
  ASSUME UvmScsiInv, NEW c \in Callers, callers[c].pc \in {"undo", "detaching"},
         NEW pc \in {"failed", "released"}, Goes(c, pc), Detach(Slot(c), FALSE)
  PROVE  UvmScsiInv'
<1>0. AttachInv /\ MountInv
  BY Zenon DEF UvmScsiInv
<1>1. AttachInv'
  BY <1>0, GivesBack, Zenon
<1>2. callers \in [Callers -> CallerStates] /\ atts \in [Callers -> Attachments]
  BY <1>0, Zenon DEF AttachInv, TypeOK
<1>3. \A a \in Callers : atts'[a].slot = atts[a].slot
  BY <1>2 DEF Detach, Dropped, Attachments
<1>4. \A d \in Callers : callers[d].pc \in Relying => callers[d].att \in Callers
  BY <1>0, InSlot, Zenon DEF Relying, Sharing, Settled
<1>5. callers[c].pc \notin Relying /\ pc \notin Relying /\ pc \notin Early
      /\ pc \notin {"mounting", "awaitMount"}
  BY Zenon DEF Relying, Sharing, Early
<1>6. MountInv'
  BY <1>0, <1>2, <1>3, <1>4, <1>5, Passes, Zenon DEF Goes, Detach
<1> QED  BY <1>1, <1>6, Zenon DEF UvmScsiInv

\* What the callers have stays in its slot while the attach manager is idle.
LEMMA SlotsStay ==
  ASSUME UNCHANGED atts, \A d \in Callers : callers'[d].att = callers[d].att
  PROVE  \A d \in Callers : Slot(d)' = Slot(d)
BY Zenon DEF Slot

\* Two callers with the same slot have the same disk.
LEMMA SameSlot ==
  ASSUME AttachInv, NEW c \in Callers, NEW d \in Callers, callers[c].pc \in Settled,
         callers[d].pc \in Settled, Slot(c) = Slot(d)
  PROVE  Disk(c) = Disk(d)
BY InSlot, Zenon

\* trackMount finds the same mount.
LEMMA MountShares ==
  ASSUME UvmScsiInv, NEW c \in Callers, At(c, "attached"), Wanted[c].config # None,
         NEW i \in Live, SameMount(c, i),
         mnts' = [mnts EXCEPT ![mounts[i]].refs = @ + 1],
         callers' = [callers EXCEPT ![c].pc = "awaitMount", ![c].mnt = mounts[i]],
         UNCHANGED <<mounts, slots, atts, world>>
  PROVE  UvmScsiInv'
<1>0. /\ AttachInv /\ MountInv /\ SoundUser(c) /\ SoundHolder(c)
      /\ callers \in [Callers -> CallerStates] /\ mnts \in [Callers -> GuestMounts]
      /\ mounts \in Seq(Callers \cup {None})
  BY Zenon DEF UvmScsiInv, AttachInv, MountInv, TypeOK
<1>1. /\ callers[c].mnt = None /\ \A j \in DOMAIN mounts : mounts[j] # c
      /\ \A d \in Callers : callers[d].mnt # c
  BY <1>0, Zenon DEF SoundUser, At, Early
<1>2. PICK o \in Callers : /\ o = mounts[i] /\ o # c /\ Listed(o)
                           /\ mnts[o].slot = Slot(c) /\ mnts[o].config = Wanted[c].config
  <2>1. mounts[i] \in Callers
    BY <1>0 DEF Live
  <2> QED  BY <2>1, <1>0, <1>1, Zenon DEF Live, Listed, SameMount, MountInv
<1>3. SoundMount(o) /\ o # None
  BY <1>0, UvmScsiAssumption, Zenon DEF MountInv
<1>4. Disk(o) = Disk(c)
  <2>1. PICK d \in Callers : callers[d].mnt = o /\ callers[d].pc \in Relying
    BY <1>2, <1>3, Zenon DEF SoundMount, Relying
  <2>2. mnts[o].slot = Slot(d) /\ Disk(o) = Disk(d)
    BY <2>1, <1>0, <1>3, Zenon DEF MountInv, SoundUser, Relying
  <2>3. callers[c].pc \in Settled /\ callers[d].pc \in Settled
    BY <2>1, Zenon DEF At, Settled, Relying, Sharing
  <2> QED  BY <2>2, <2>3, <1>0, <1>2, SameSlot, Zenon
<1>5. /\ callers'[c].pc = "awaitMount" /\ callers'[c].mnt = o
      /\ \A d \in Callers \ {c} : callers'[d] = callers[d]
      /\ \A d \in Callers : callers'[d].att = callers[d].att
      /\ callers' \in [Callers -> CallerStates]
  <2>1. callers[c] \in CallerStates /\ "awaitMount" \in Places
    BY <1>0, Zenon DEF Places, Counting, Settled
  <2>2. [callers[c] EXCEPT !.pc = "awaitMount", !.mnt = o] \in CallerStates
    BY <2>1, Zenon DEF CallerStates
  <2> QED  BY <2>2, <1>0, <1>2, Zenon DEF CallerStates
<1>6. mnts' \in [Callers -> GuestMounts]
  <2>1. mnts[o] \in GuestMounts /\ mnts[o].refs + 1 \in Nat
    BY <1>0 DEF GuestMounts
  <2>2. [mnts[o] EXCEPT !.refs = @ + 1] \in GuestMounts
    BY <2>1, Zenon DEF GuestMounts
  <2> QED  BY <2>2, <1>0, <1>2, Zenon
<1>7. /\ \A b \in Callers : /\ mnts'[b].index = mnts[b].index /\ mnts'[b].slot = mnts[b].slot
                            /\ mnts'[b].config = mnts[b].config /\ mnts'[b].path = mnts[b].path
                            /\ mnts'[b].done = mnts[b].done /\ mnts'[b].err = mnts[b].err
      /\ mnts'[o].refs = mnts[o].refs + 1 /\ \A b \in Callers \ {o} : mnts'[b].refs = mnts[b].refs
  BY <1>0, <1>2, Zenon DEF GuestMounts
<1>8. AttachInv'
  <2>1. callers[c].pc \in Settled /\ callers'[c].pc \in Settled /\ bus' = bus
    BY <1>5, Zenon DEF At, Settled, world
  <2> QED  BY <2>1, <1>0, <1>5, <1>6, SettledMoves, Zenon
<1>9. \A b \in Callers : (Listed(b)' <=> Listed(b)) /\ Record(b)' = Record(b)
  BY <1>7, Zenon DEF Listed, Record
<1>10. \A b \in Callers \ {o} : Users(b)' = Users(b)
  <2> TAKE b \in Callers \ {o}
  <2>1. b # None
    BY UvmScsiAssumption, Zenon
  <2> QED  BY <2>1, <1>1, <1>5 DEF Users
<1>11. Cardinality(Users(o)') = Cardinality(Users(o)) + 1
  <2>1. Users(o)' = Users(o) \cup {c} /\ c \notin Users(o) /\ Users(o) \subseteq Callers
    BY <1>1, <1>3, <1>5, SMTT(30) DEF Users, Sharing
  <2> QED  BY <2>1, OneMore, Zenon
<1>12. \A b \in Callers : SoundMount(b)'
  <2> SUFFICES ASSUME NEW b \in Callers, Listed(b)
               PROVE  SoundMount(b)'
    BY <1>9, Zenon DEF SoundMount
  <2>1. SoundMount(b)
    BY <1>0, Zenon DEF MountInv
  <2>2. \E d \in Callers : callers'[d].mnt = b /\ callers'[d].pc \in Sharing \cup {"stuck"}
    BY <2>1, <1>1, <1>5, UvmScsiAssumption, Zenon DEF SoundMount
  <2>3. callers[b].pc = "mounting" => callers'[b].pc = "mounting"
    BY <1>5, Zenon DEF At
  <2>4. mnts'[b].refs = Cardinality(Users(b)')
    BY <2>1, <1>7, <1>10, <1>11 DEF SoundMount
  <2> QED  BY <2>1, <2>2, <2>3, <2>4, <1>7, <1>9 DEF SoundMount, world
<1>13. \A d \in Callers : SoundUser(d)'
  <2> SUFFICES ASSUME NEW d \in Callers
               PROVE  SoundUser(d)'
    BY Zenon
  <2>1. SoundUser(d) /\ Slot(d)' = Slot(d)
    BY <1>0, <1>5, SlotsStay, Zenon DEF MountInv
  <2>2. CASE d = c
    <3>1. mnts'[o].slot = Slot(c)' /\ mnts'[o].config = Wanted[c].config /\ Listed(o)'
      BY <2>1, <2>2, <1>2, <1>7, <1>9, ZenonT(40)
    <3> QED  BY <3>1, <2>2, <1>3, <1>4, <1>5, Zenon DEF SoundUser, Early
  <2>3. CASE d # c
    <3>1. callers[d].pc \in Early => d # o
      BY <2>1, <1>2, Zenon DEF SoundUser, Live
    <3>2. callers[d].mnt \in Callers \cup {None}
      BY <1>0, Zenon DEF CallerStates
    <3>3. /\ callers'[d] = callers[d] /\ mounts' = mounts
          /\ \A e \in Callers : callers'[e].mnt = callers[e].mnt \/ e = c
      BY <2>3, <1>5, Zenon
    <3>4. callers[d].pc \in Early => \A e \in Callers : callers'[e].mnt # d
      BY <3>1, <3>3, <2>1, <1>5, Zenon DEF SoundUser
    <3>5. CASE callers[d].mnt \in Callers
      <4>1. PICK m \in Callers : callers[d].mnt = m
        BY <3>5, Zenon
      <4>2. /\ mnts'[m].slot = mnts[m].slot /\ mnts'[m].config = mnts[m].config
            /\ mnts'[m].done = mnts[m].done /\ mnts'[m].err = mnts[m].err
            /\ mnts'[m].index = mnts[m].index
        BY <1>7, Zenon
      <4>3. callers'[d].mnt = m /\ callers'[d].pc = callers[d].pc /\ mounts' = mounts
        BY <4>1, <3>3, Zenon
      <4>4. callers[d].pc \notin Early \/ m = None
        BY <4>1, <2>1, Zenon DEF SoundUser
      <4>5. m # None
        BY UvmScsiAssumption, Zenon
      <4> QED  BY <4>1, <4>2, <4>3, <4>4, <4>5, <2>1, ZenonT(40) DEF SoundUser, Listed
    <3>6. CASE callers[d].mnt = None
      BY <3>6, <3>3, <3>4, <2>1, Zenon DEF SoundUser
    <3> QED  BY <3>2, <3>5, <3>6, Zenon
  <2> QED  BY <2>2, <2>3, Zenon
<1>14. MountInv'
  <2>1. \A j \in DOMAIN mounts' : mounts'[j] # None => mnts'[mounts'[j]].index = j
    <3> SUFFICES ASSUME NEW j \in DOMAIN mounts, mounts[j] # None
                 PROVE  mnts'[mounts[j]].index = j
      BY Zenon
    <3>1. mounts[j] \in Callers
      BY <1>0
    <3> QED  BY <3>1, <1>0, <1>7 DEF MountInv
  <2>2. \A g \in guest' : \E b \in Callers : Listed(b)' /\ mnts'[b].done /\ g = Record(b)'
    BY <1>0, <1>7, <1>9 DEF MountInv, world
  <2> QED  BY <2>1, <2>2, <1>12, <1>13, Zenon DEF MountInv
<1> QED  BY <1>8, <1>14, Zenon DEF UvmScsiInv

\* Paths that are generated from different indexes differ.
LEMMA GeneratedIs ==
  ASSUME NEW i \in Nat, NEW j
  PROVE  /\ Generated(i) \in {"generated"} \X Nat
         /\ Generated(i) = Generated(j) => i = j
BY SMT DEF Generated

\* trackMount takes an index that is free.
LEMMA MountTakes ==
  ASSUME UvmScsiInv, NEW c \in Callers, At(c, "attached"), Wanted[c].config # None,
         \A j \in Live : ~SamePath(c, j),
         NEW i \in Nat, i \notin Live,
         mounts' \in Seq(Callers \cup {None}), DOMAIN mounts' = DOMAIN mounts \cup {i},
         mounts'[i] = c, \A j \in DOMAIN mounts \ {i} : mounts'[j] = mounts[j],
         mnts' = [mnts EXCEPT ![c] =
                    [NoMnt EXCEPT !.index = i, !.slot = Slot(c), !.refs = 1,
                                  !.config = Wanted[c].config,
                                  !.path = IF Wanted[c].path = None THEN Generated(i)
                                           ELSE Wanted[c].path]],
         callers' = [callers EXCEPT ![c].pc = "mounting", ![c].mnt = c],
         UNCHANGED <<slots, atts, world>>
  PROVE  UvmScsiInv'
<1>0. /\ AttachInv /\ MountInv /\ SoundUser(c) /\ SoundHolder(c)
      /\ callers \in [Callers -> CallerStates] /\ mnts \in [Callers -> GuestMounts]
      /\ mounts \in Seq(Callers \cup {None})
  BY Zenon DEF UvmScsiInv, AttachInv, MountInv, TypeOK
<1>1. /\ callers[c].mnt = None /\ c # None /\ \A j \in DOMAIN mounts : mounts[j] # c
      /\ \A d \in Callers : callers[d].mnt # c
  BY <1>0, UvmScsiAssumption, Zenon DEF SoundUser, At, Early
<1>2. /\ callers'[c].pc = "mounting" /\ callers'[c].mnt = c
      /\ \A d \in Callers \ {c} : callers'[d] = callers[d]
      /\ \A d \in Callers : callers'[d].att = callers[d].att
      /\ callers' \in [Callers -> CallerStates]
  <2>1. callers[c] \in CallerStates /\ "mounting" \in Places
    BY <1>0, Zenon DEF Places, Counting, Settled
  <2>2. [callers[c] EXCEPT !.pc = "mounting", !.mnt = c] \in CallerStates
    BY <2>1, Zenon DEF CallerStates
  <2> QED  BY <2>2, <1>0, Zenon DEF CallerStates
<1>3. Slot(c) \in Slots
  BY <1>0, InSlot, Zenon DEF At, Settled
<1> DEFINE path == IF Wanted[c].path = None THEN Generated(i) ELSE Wanted[c].path
<1>4. /\ mnts'[c] = [index |-> i, slot |-> Slot(c), config |-> Wanted[c].config, path |-> path,
                     refs |-> 1, done |-> FALSE, err |-> FALSE]
      /\ \A b \in Callers \ {c} : mnts'[b] = mnts[b]
  BY <1>0, Zenon DEF NoMnt
<1> HIDE DEF path
<1>5. mnts' \in [Callers -> GuestMounts]
  <2>1. Wanted[c].config \in Configs /\ path \in Paths /\ 1 \in Nat
    BY Zenon DEF Configs, Paths, path
  <2>2. ASSUME NEW m, m = [index |-> i, slot |-> Slot(c), config |-> Wanted[c].config,
                           path |-> path, refs |-> 1, done |-> FALSE, err |-> FALSE]
        PROVE  m \in GuestMounts
    BY ONLY <2>1, <2>2, <1>3, i \in Nat, Zenon DEF GuestMounts
  <2>3. mnts'[c] \in GuestMounts
    BY <2>2, <1>4, Zenon
  <2> QED  BY <2>3, <1>0, <1>4, Zenon
<1>6. /\ mnts'[c].index = i /\ mnts'[c].slot = Slot(c) /\ mnts'[c].config = Wanted[c].config
      /\ mnts'[c].path = path /\ mnts'[c].refs = 1 /\ ~mnts'[c].done /\ ~mnts'[c].err
  <2>1. ASSUME NEW m, m = [index |-> i, slot |-> Slot(c), config |-> Wanted[c].config,
                           path |-> path, refs |-> 1, done |-> FALSE, err |-> FALSE]
        PROVE  /\ m.index = i /\ m.slot = Slot(c) /\ m.config = Wanted[c].config
               /\ m.path = path /\ m.refs = 1 /\ ~m.done /\ ~m.err
    BY ONLY <2>1, Zenon
  <2> QED  BY <2>1, <1>4, Zenon
<1>7. AttachInv'
  <2>1. callers[c].pc \in Settled /\ callers'[c].pc \in Settled /\ bus' = bus
    BY <1>2, Zenon DEF At, Settled, world
  <2> QED  BY <2>1, <1>0, <1>2, <1>5, SettledMoves, Zenon
<1>8. ~Listed(c) /\ Listed(c)' /\ c # None
  BY <1>1, <1>6, UvmScsiAssumption, Zenon DEF Listed
<1>9. \A b \in Callers \ {c} : (Listed(b)' <=> Listed(b)) /\ Record(b)' = Record(b)
  <2> TAKE b \in Callers \ {c}
  <2>1. b # None /\ mnts'[b] = mnts[b]
    BY <1>4, UvmScsiAssumption, Zenon
  <2>2. Listed(b) => mnts[b].index # i
    BY <2>1, Zenon DEF Listed, Live
  <2> QED  BY <2>1, <2>2, Zenon DEF Listed, Record
<1>10. \A b \in Callers \ {c} : Users(b)' = Users(b)
  <2> TAKE b \in Callers \ {c}
  <2>1. b # None
    BY UvmScsiAssumption, Zenon
  <2> QED  BY <2>1, <1>1, <1>2, Zenon DEF Users
<1>11. Cardinality(Users(c)') = 1
  <2>1. Users(c)' = {c}
    BY <1>1, <1>2 DEF Users, Sharing
  <2> QED  BY <2>1, FS_Singleton, Zenon
<1>12. \A b \in Callers \ {c} : Listed(b) => mnts[b].path # path
  <2> SUFFICES ASSUME NEW b \in Callers \ {c}, Listed(b)
               PROVE  mnts[b].path # path
    BY Zenon
  <2>1. SoundMount(b) /\ b # None
    BY <1>0, UvmScsiAssumption, Zenon DEF MountInv
  <2>2. mnts[b].index \in Live /\ mounts[mnts[b].index] = b
    BY <2>1, Zenon DEF Listed, Live
  <2>3. CASE Wanted[c].path = None
    <3>1. mnts[b].index # i /\ Wanted[b].path \notin {"generated"} \X Nat /\ path = Generated(i)
      BY <2>2, <2>3, UvmScsiAssumption, Zenon DEF path
    <3>2. /\ Generated(i) \in {"generated"} \X Nat
          /\ Generated(i) = Generated(mnts[b].index) => i = mnts[b].index
      BY GeneratedIs, Zenon
    <3>3. mnts[b].path = Generated(mnts[b].index) \/ mnts[b].path = Wanted[b].path
      BY <2>1, Zenon DEF SoundMount
    <3> QED  BY <3>1, <3>2, <3>3, Zenon
  <2>4. CASE Wanted[c].path # None
    BY <2>2, <2>4, Zenon DEF SamePath, path
  <2> QED  BY <2>3, <2>4, Zenon
<1>13. \A b \in Callers : SoundMount(b)'
  <2>1. SoundMount(c)'
    <3>1. \A p \in Callers : Listed(p)' /\ mnts'[p].path = mnts'[c].path => p = c
      BY <1>4, <1>6, <1>9, <1>12
    <3>2. mnts'[c].path = IF Wanted[c].path = None THEN Generated(mnts'[c].index)
                          ELSE Wanted[c].path
      BY <1>6, Zenon DEF path
    <3>3. callers'[c].mnt = c /\ callers'[c].pc \in Sharing \cup {"stuck"}
      BY <1>2, Zenon DEF Sharing
    <3> QED  BY <3>1, <3>2, <3>3, <1>2, <1>6, <1>11, Zenon DEF SoundMount
  <2>2. ASSUME NEW b \in Callers \ {c}, Listed(b)
        PROVE  SoundMount(b)'
    <3>1. SoundMount(b) /\ b # None
      BY <1>0, UvmScsiAssumption, Zenon DEF MountInv
    <3>2. \E d \in Callers : callers'[d].mnt = b /\ callers'[d].pc \in Sharing \cup {"stuck"}
      BY <2>2, <3>1, <1>1, <1>2, ZenonT(40) DEF SoundMount
    <3>3. \A p \in Callers : Listed(p)' /\ mnts'[p].path = mnts'[b].path => p = b
      BY <2>2, <3>1, <1>4, <1>6, <1>9, <1>12 DEF SoundMount
    <3>4. callers'[b] = callers[b] /\ mnts'[b] = mnts[b] /\ guest' = guest
      BY <1>2, <1>4, Zenon DEF world
    <3> QED  BY <2>2, <3>1, <3>2, <3>3, <3>4, <1>9, <1>10, Zenon DEF SoundMount
  <2>3. ASSUME NEW b \in Callers \ {c}, ~Listed(b)
        PROVE  SoundMount(b)'
    BY <2>3, <1>9, Zenon DEF SoundMount
  <2> QED  BY <2>1, <2>2, <2>3, Zenon
<1>14. \A d \in Callers : SoundUser(d)'
  <2> SUFFICES ASSUME NEW d \in Callers
               PROVE  SoundUser(d)'
    BY Zenon
  <2>1. SoundUser(d) /\ Slot(d)' = Slot(d)
    BY <1>0, <1>2, SlotsStay, Zenon DEF MountInv
  <2>2. CASE d = c
    BY <2>1, <2>2, <1>1, <1>2, <1>6, <1>8, ZenonT(40) DEF SoundUser, Early
  <2>3. CASE d # c
    <3>1. callers[d].mnt \in (Callers \ {c}) \cup {None}
      BY <1>0, <1>1, Zenon DEF CallerStates
    <3>2. callers[d].pc \in Early => \A j \in DOMAIN mounts' : mounts'[j] # d
      BY <2>1, <2>3, Zenon DEF SoundUser
    <3> QED  BY <3>1, <3>2, <2>1, <2>3, <1>2, <1>4, <1>9, SMTT(30) DEF SoundUser
  <2> QED  BY <2>2, <2>3, Zenon
<1>15. MountInv'
  <2>1. \A j \in DOMAIN mounts' : mounts'[j] # None => mnts'[mounts'[j]].index = j
    <3> SUFFICES ASSUME NEW j \in DOMAIN mounts', mounts'[j] # None
                 PROVE  mnts'[mounts'[j]].index = j
      BY Zenon
    <3>1. CASE j = i
      BY <3>1, <1>6, Zenon
    <3>2. CASE j # i
      <4>1. j \in DOMAIN mounts /\ mounts'[j] = mounts[j] /\ mounts[j] # c
        BY <3>2, <1>1, Zenon
      <4>2. mounts[j] \in Callers \ {c}
        BY <4>1, <1>0
      <4> QED  BY <4>1, <4>2, <1>0, <1>4 DEF MountInv
    <3> QED  BY <3>1, <3>2, Zenon
  <2>2. \A g \in guest' : \E b \in Callers : Listed(b)' /\ mnts'[b].done /\ g = Record(b)'
    <3> SUFFICES ASSUME NEW g \in guest
                 PROVE  \E b \in Callers : Listed(b)' /\ mnts'[b].done /\ g = Record(b)'
      BY Zenon DEF world
    <3>1. PICK b \in Callers : Listed(b) /\ mnts[b].done /\ g = Record(b)
      BY <1>0, Zenon DEF MountInv
    <3> QED  BY <3>1, <1>4, <1>8, <1>9, Zenon
  <2> QED  BY <2>1, <2>2, <1>13, <1>14, Zenon DEF MountInv
<1> QED  BY <1>7, <1>15, Zenon DEF UvmScsiInv

\* A caller that keeps its disk and only changes place, without a mount.
LEMMA PassesSettled ==
  ASSUME UvmScsiInv, NEW c \in Callers, callers[c].pc \in Settled, NEW pc \in Settled,
         Goes(c, pc), UNCHANGED <<slots, atts, mounts, mnts, bus, guest>>,
         callers[c].mnt = None \/ callers[c].pc \notin Relying,
         callers[c].mnt = None \/ pc \notin Relying,
         pc \notin {"mounting", "awaitMount"} \cup Early
  PROVE  UvmScsiInv'
<1>0. /\ AttachInv /\ MountInv
      /\ callers \in [Callers -> CallerStates] /\ mnts \in [Callers -> GuestMounts]
      /\ mounts \in Seq(Callers \cup {None})
  BY Zenon DEF UvmScsiInv, AttachInv, TypeOK
<1>1. /\ callers'[c].pc = pc /\ callers'[c].att = callers[c].att
      /\ \A d \in Callers \ {c} : callers'[d] = callers[d]
      /\ callers' \in [Callers -> CallerStates]
  BY <1>0, ZenonT(40) DEF Goes, CallerStates, Places, Counting
<1>2. AttachInv'
  BY <1>0, <1>1, SettledMoves, Zenon
<1>3. \A d \in Callers : callers[d].pc \in Relying => callers[d].att \in Callers
  BY <1>0, InSlot, Zenon DEF Relying, Sharing, Settled
<1>4. MountInv'
  BY <1>0, <1>3, Passes, Zenon DEF Goes
<1> QED  BY <1>2, <1>4, Zenon DEF UvmScsiInv

\* The mount manager's part of adding a disk.
LEMMA MountKeeps ==
  ASSUME UvmScsiInv, NEW c \in Callers, Mount(c)
  PROVE  UvmScsiInv'
<1> DEFINE hits == {i \in Live : SameMount(c, i) \/ SamePath(c, i)}
           holes == DOMAIN mounts \ Live
           i == IF holes = {} THEN Len(mounts) + 1 ELSE Min(holes)
<1>0. /\ At(c, "attached") /\ callers[c].mnt = None /\ mounts \in Seq(Callers \cup {None})
      /\ UNCHANGED <<slots, atts, bus, guest>> /\ UNCHANGED world
  <2>1. SoundUser(c) /\ At(c, "attached") /\ mounts \in Seq(Callers \cup {None})
    BY Zenon DEF UvmScsiInv, MountInv, AttachInv, TypeOK, Mount
  <2> QED  BY <2>1, Zenon DEF SoundUser, At, Early, Mount, world
<1>1. DOMAIN mounts = 1..Len(mounts) /\ Len(mounts) \in Nat
  BY <1>0
<1>2. hits \subseteq Nat /\ hits \subseteq Live /\ holes \subseteq Nat
  BY <1>1 DEF Live
<1>3. callers[c].pc \in Settled
  BY <1>0, Zenon DEF At, Settled
<1>4. ASSUME NEW pc \in {"held", "undo"}, Goes(c, pc), UNCHANGED <<mounts, mnts>>
      PROVE  UvmScsiInv'
  <2>1. pc \in Settled /\ pc \notin {"mounting", "awaitMount"} \cup Early
    BY Zenon DEF Settled, Early
  <2> QED  BY <1>0, <1>3, <1>4, <2>1, PassesSettled, Zenon
<1>5. ASSUME Wanted[c].config # None, hits # {}, SameMount(c, Min(hits)),
             mnts' = [mnts EXCEPT ![mounts[Min(hits)]].refs = @ + 1],
             callers' = [callers EXCEPT ![c].pc = "awaitMount", ![c].mnt = mounts[Min(hits)]],
             UNCHANGED mounts
      PROVE  UvmScsiInv'
  <2>1. Min(hits) \in Live
    <3>1. Min(hits) \in hits
      BY <1>2, <1>5, FirstIsOne, Zenon
    <3> QED  BY <3>1, <1>2, Zenon
  <2> HIDE DEF hits
  <2> QED  BY <2>1, <1>0, <1>5, MountShares, Zenon
<1>6. ASSUME Wanted[c].config # None, hits = {},
             mounts' = IF holes = {} THEN Append(mounts, c) ELSE [mounts EXCEPT ![i] = c],
             mnts' = [mnts EXCEPT ![c] =
                        [NoMnt EXCEPT !.index = i, !.slot = Slot(c), !.refs = 1,
                                      !.config = Wanted[c].config,
                                      !.path = IF Wanted[c].path = None THEN Generated(i)
                                               ELSE Wanted[c].path]],
             callers' = [callers EXCEPT ![c].pc = "mounting", ![c].mnt = c]
      PROVE  UvmScsiInv'
  <2>1. \A j \in Live : ~SamePath(c, j)
    BY <1>6, Zenon
  <2> HIDE DEF hits
  <2>2. /\ i \in Nat /\ i \notin Live
        /\ mounts' \in Seq(Callers \cup {None}) /\ DOMAIN mounts' = DOMAIN mounts \cup {i}
        /\ mounts'[i] = c /\ \A j \in DOMAIN mounts \ {i} : mounts'[j] = mounts[j]
    <3>1. CASE holes = {}
      BY <3>1, <1>0, <1>1, <1>6 DEF Live
    <3>2. CASE holes # {}
      <4>1. Min(holes) \in holes
        BY <3>2, <1>2, FirstIsOne, Zenon
      <4>2. i \in DOMAIN mounts /\ i \in Nat /\ i \notin Live
        BY <3>2, <4>1, <1>1
      <4>3. mounts' = [mounts EXCEPT ![i] = c]
        BY <3>2, <1>6, Zenon
      <4> HIDE DEF i, holes
      <4> QED  BY <4>2, <4>3, <1>0, <1>1
    <3> QED  BY <3>1, <3>2, Zenon
  <2> HIDE DEF i, holes
  <2> QED  BY <2>1, <2>2, <1>0, <1>6, MountTakes, Zenon
<1>7. \/ Goes(c, "held") /\ UNCHANGED <<mounts, mnts>>
      \/ Goes(c, "undo") /\ UNCHANGED <<mounts, mnts>>
      \/ /\ Wanted[c].config # None /\ hits # {} /\ SameMount(c, Min(hits))
         /\ mnts' = [mnts EXCEPT ![mounts[Min(hits)]].refs = @ + 1]
         /\ callers' = [callers EXCEPT ![c].pc = "awaitMount", ![c].mnt = mounts[Min(hits)]]
         /\ UNCHANGED mounts
      \/ /\ Wanted[c].config # None /\ hits = {}
         /\ mounts' = IF holes = {} THEN Append(mounts, c) ELSE [mounts EXCEPT ![i] = c]
         /\ mnts' = [mnts EXCEPT ![c] =
                        [NoMnt EXCEPT !.index = i, !.slot = Slot(c), !.refs = 1,
                                      !.config = Wanted[c].config,
                                      !.path = IF Wanted[c].path = None THEN Generated(i)
                                               ELSE Wanted[c].path]]
         /\ callers' = [callers EXCEPT ![c].pc = "mounting", ![c].mnt = c]
  BY Zenon DEF Mount
<1> HIDE DEF hits, holes, i
<1> QED  BY <1>4, <1>5, <1>6, <1>7, Zenon

\* What a caller that the guest mounts for has.
LEMMA AtMount ==
  ASSUME UvmScsiInv, NEW c \in Callers, At(c, "mounting")
  PROVE  /\ callers[c].mnt = c /\ Listed(c) /\ ~mnts[c].done /\ SoundMount(c)
         /\ Mounted(mnts[c]) = Record(c)
<1>0. AttachInv /\ MountInv /\ SoundUser(c) /\ SoundMount(c)
  BY Zenon DEF UvmScsiInv, MountInv
<1>1. /\ callers[c].mnt = c /\ Listed(c) /\ ~mnts[c].done /\ mnts[c].slot = Slot(c)
  BY <1>0, UvmScsiAssumption, Zenon DEF SoundUser, At, Sharing
<1>2. bus[Slot(c)] = Disk(c)
  BY <1>0, InSlot, Zenon DEF At, Settled
<1> QED  BY <1>0, <1>1, <1>2, Zenon DEF Mounted, Record

\* A step of the first caller of a mount, which was mounted or is given up.
LEMMA MountEnds ==
  ASSUME UvmScsiInv, NEW c \in Callers, At(c, "mounting"), NEW pc \in {"held", "undo"},
         NEW err \in BOOLEAN,
         mnts' = [mnts EXCEPT ![c].done = TRUE, ![c].err = err], Goes(c, pc),
         UNCHANGED <<slots, atts, bus>>, mounts' \in Seq(Callers \cup {None})
  PROVE  /\ AttachInv' /\ callers'[c].pc = pc
         /\ \A d \in Callers : Slot(d)' = Slot(d) /\ callers'[d].mnt = callers[d].mnt
         /\ \A d \in Callers \ {c} : callers'[d] = callers[d]
         /\ \A b \in Callers \ {c} : mnts'[b] = mnts[b]
         /\ mnts'[c].done /\ mnts'[c].err = err
         /\ \A b \in Callers : /\ mnts'[b].index = mnts[b].index /\ mnts'[b].slot = mnts[b].slot
                               /\ mnts'[b].config = mnts[b].config /\ mnts'[b].path = mnts[b].path
                               /\ mnts'[b].refs = mnts[b].refs
<1>0. /\ AttachInv /\ callers \in [Callers -> CallerStates] /\ mnts \in [Callers -> GuestMounts]
      /\ callers[c].pc \in Settled /\ pc \in Settled
  BY Zenon DEF UvmScsiInv, AttachInv, TypeOK, At, Settled
<1>1. /\ callers'[c].pc = pc /\ callers'[c].att = callers[c].att
      /\ \A d \in Callers \ {c} : callers'[d] = callers[d]
      /\ \A d \in Callers : /\ callers'[d].mnt = callers[d].mnt
                            /\ callers'[d].att = callers[d].att
      /\ callers' \in [Callers -> CallerStates]
  BY <1>0, Zenon DEF Goes, CallerStates, Places, Counting
<1>2. mnts' \in [Callers -> GuestMounts]
  <2>1. mnts[c] \in GuestMounts
    BY <1>0, Zenon
  <2>2. [mnts[c] EXCEPT !.done = TRUE, !.err = err] \in GuestMounts
    BY <2>1, Zenon DEF GuestMounts
  <2> QED  BY <2>2, <1>0, Zenon
<1>3. AttachInv'
  BY <1>0, <1>1, <1>2, SettledMoves, Zenon
<1>4. \A d \in Callers : Slot(d)' = Slot(d)
  BY <1>1, SlotsStay, Zenon
<1>5. /\ \A b \in Callers \ {c} : mnts'[b] = mnts[b]
      /\ mnts'[c].done /\ mnts'[c].err = err
      /\ \A b \in Callers : /\ mnts'[b].index = mnts[b].index /\ mnts'[b].slot = mnts[b].slot
                            /\ mnts'[b].config = mnts[b].config /\ mnts'[b].path = mnts[b].path
                            /\ mnts'[b].refs = mnts[b].refs
  BY <1>0, Zenon DEF GuestMounts
<1> QED  BY <1>1, <1>3, <1>4, <1>5, Zenon

\* The guest mounted the disk.
LEMMA GuestMountsIt ==
  ASSUME UvmScsiInv, NEW c \in Callers, At(c, "mounting"),
         guest' = guest \cup {Mounted(mnts[c])},
         mnts' = [mnts EXCEPT ![c].done = TRUE], Goes(c, "held"),
         UNCHANGED <<slots, atts, bus, mounts>>
  PROVE  UvmScsiInv'
<1>0. /\ callers[c].mnt = c /\ Listed(c) /\ ~mnts[c].done /\ SoundMount(c)
      /\ Mounted(mnts[c]) = Record(c) /\ AttachInv /\ MountInv /\ c # None
      /\ mounts \in Seq(Callers \cup {None}) /\ mnts \in [Callers -> GuestMounts]
  BY AtMount, UvmScsiAssumption, Zenon DEF UvmScsiInv, AttachInv, TypeOK
<1>1. ~mnts[c].err /\ mnts' = [mnts EXCEPT ![c].done = TRUE, ![c].err = FALSE]
  <2>1. ~mnts[c].err
    BY <1>0, Zenon DEF SoundMount
  <2>2. mnts[c].err = FALSE
    BY <2>1, <1>0, Zenon DEF GuestMounts
  <2> QED  BY <2>2, <1>0, Zenon DEF GuestMounts
<1>2. /\ AttachInv' /\ callers'[c].pc = "held"
      /\ \A d \in Callers : Slot(d)' = Slot(d) /\ callers'[d].mnt = callers[d].mnt
      /\ \A d \in Callers \ {c} : callers'[d] = callers[d]
      /\ \A b \in Callers \ {c} : mnts'[b] = mnts[b]
      /\ mnts'[c].done /\ ~mnts'[c].err
      /\ \A b \in Callers : /\ mnts'[b].index = mnts[b].index /\ mnts'[b].slot = mnts[b].slot
                            /\ mnts'[b].config = mnts[b].config /\ mnts'[b].path = mnts[b].path
                            /\ mnts'[b].refs = mnts[b].refs
  BY <1>0, <1>1, MountEnds, Zenon
<1>3. \A b \in Callers : (Listed(b)' <=> Listed(b)) /\ Record(b)' = Record(b)
  BY <1>2, Zenon DEF Listed, Record
<1>4. \A b \in Callers : Users(b)' = Users(b)
  BY <1>2 DEF Users, Sharing, At
<1>5. \A b \in Callers : SoundMount(b)'
  <2> SUFFICES ASSUME NEW b \in Callers, Listed(b)
               PROVE  SoundMount(b)'
    BY <1>3, Zenon DEF SoundMount
  <2>1. SoundMount(b)
    BY <1>0, Zenon DEF MountInv
  <2>2. \E d \in Callers : callers'[d].mnt = b /\ callers'[d].pc \in Sharing \cup {"stuck"}
    BY <2>1, <1>2 DEF SoundMount, Sharing
  <2>3. IF mnts'[b].done THEN Record(b)' \in guest' ELSE callers'[b].pc = "mounting"
    BY <2>1, <1>0, <1>2, <1>3 DEF SoundMount
  <2>4. ~mnts'[b].err
    BY <2>1, <1>2, Zenon DEF SoundMount
  <2> QED  BY <2>1, <2>2, <2>3, <2>4, <1>2, <1>3, <1>4 DEF SoundMount
<1>6. \A d \in Callers : SoundUser(d)'
  <2> SUFFICES ASSUME NEW d \in Callers
               PROVE  SoundUser(d)'
    BY Zenon
  <2>1. SoundUser(d) /\ callers[d].mnt \in Callers \cup {None}
    BY <1>0, Zenon DEF MountInv, AttachInv, TypeOK, CallerStates
  <2>2. CASE d = c
    <3>1. SoundUser(c)
      BY <1>0, Zenon DEF MountInv
    <3> QED  BY <3>1, <2>2, <1>0, <1>2, <1>3 DEF SoundUser, At, Sharing, Early
  <2>3. CASE d # c
    <3>1. callers[d].pc = "mounting" /\ callers[d].mnt # None => callers[d].mnt # c
      BY <2>1, <2>3, Zenon DEF SoundUser, Sharing
    <3>2. callers[d].mnt = c /\ callers[d].pc = "awaitMount" => Listed(c)'
      BY <1>0, <1>3, Zenon
    <3>3. \A b \in Callers \ {c} : mnts'[b] = mnts[b]
      BY <1>2, Zenon
    <3> QED  BY <3>1, <3>2, <3>3, <2>1, <2>3, <1>0, <1>2, <1>3, SMTT(30) DEF SoundUser
  <2> QED  BY <2>2, <2>3, Zenon
<1>7. \A j \in DOMAIN mounts' : mounts'[j] # None => mnts'[mounts'[j]].index = j
  <2> SUFFICES ASSUME NEW j \in DOMAIN mounts, mounts[j] # None
               PROVE  mnts'[mounts[j]].index = j
    BY Zenon
  <2>1. mounts[j] \in Callers
    BY <1>0
  <2> QED  BY <2>1, <1>0, <1>2 DEF MountInv
<1>8. \A g \in guest' : \E b \in Callers : Listed(b)' /\ mnts'[b].done /\ g = Record(b)'
  <2> SUFFICES ASSUME NEW g \in guest'
               PROVE  \E b \in Callers : Listed(b)' /\ mnts'[b].done /\ g = Record(b)'
    BY Zenon
  <2>1. CASE g = Record(c)
    BY <2>1, <1>0, <1>2, <1>3, Zenon
  <2>2. CASE g \in guest
    <3>1. PICK b \in Callers : Listed(b) /\ mnts[b].done /\ g = Record(b)
      BY <2>2, <1>0, Zenon DEF MountInv
    <3> QED  BY <3>1, <1>2, <1>3, Zenon
  <2> QED  BY <2>1, <2>2, <1>0, Zenon
<1> QED  BY <1>2, <1>5, <1>6, <1>7, <1>8, Zenon DEF UvmScsiInv, MountInv

\* A table without one of its entries.
LEMMA Unlisted ==
  ASSUME MountInv, mounts \in Seq(Callers \cup {None}), NEW o \in Callers, Listed(o),
         mounts' = [mounts EXCEPT ![mnts[o].index] = None],
         \A b \in Callers : mnts'[b].index = mnts[b].index
  PROVE  /\ mounts' \in Seq(Callers \cup {None}) /\ ~Listed(o)'
         /\ \A b \in Callers \ {o} : Listed(b)' <=> Listed(b)
         /\ \A j \in DOMAIN mounts' : mounts'[j] # None => mnts'[mounts'[j]].index = j
         /\ \A d \in Callers : (\A j \in DOMAIN mounts : mounts[j] # d)
                                => \A j \in DOMAIN mounts' : mounts'[j] # d
<1>1. mnts[o].index \in DOMAIN mounts /\ mounts[mnts[o].index] = o
  BY Zenon DEF Listed
<1>2. /\ mounts' \in Seq(Callers \cup {None}) /\ DOMAIN mounts' = DOMAIN mounts
      /\ mounts'[mnts[o].index] = None
      /\ \A j \in DOMAIN mounts : j # mnts[o].index => mounts'[j] = mounts[j]
  BY <1>1
<1>3. \A b \in Callers : b # None
  BY UvmScsiAssumption, Zenon
<1>4. ~Listed(o)' /\ \A b \in Callers \ {o} : Listed(b)' <=> Listed(b)
  BY <1>1, <1>2, <1>3, Zenon DEF Listed
<1>5. \A j \in DOMAIN mounts' : mounts'[j] # None => mnts'[mounts'[j]].index = j
  <2> SUFFICES ASSUME NEW j \in DOMAIN mounts', mounts'[j] # None
               PROVE  mnts'[mounts'[j]].index = j
    BY Zenon
  <2>1. j \in DOMAIN mounts /\ mounts'[j] = mounts[j]
    BY <1>2, Zenon
  <2>2. mounts[j] \in Callers
    BY <2>1
  <2> QED  BY <2>1, <2>2, Zenon DEF MountInv
<1> QED  BY <1>2, <1>3, <1>4, <1>5, Zenon

\* The guest did not mount it: the callers that wait are told.
LEMMA GuestRefuses ==
  ASSUME UvmScsiInv, NEW c \in Callers, At(c, "mounting"),
         mounts' = [mounts EXCEPT ![mnts[c].index] = None],
         mnts' = [mnts EXCEPT ![c].done = TRUE, ![c].err = TRUE], Goes(c, "undo"),
         UNCHANGED <<slots, atts, bus, guest>>
  PROVE  UvmScsiInv'
<1>0. /\ callers[c].mnt = c /\ Listed(c) /\ ~mnts[c].done
      /\ AttachInv /\ MountInv /\ c # None
      /\ mounts \in Seq(Callers \cup {None}) /\ mnts \in [Callers -> GuestMounts]
  BY AtMount, UvmScsiAssumption, Zenon DEF UvmScsiInv, AttachInv, TypeOK
<1>1. \A b \in Callers : mnts'[b].index = mnts[b].index
  BY <1>0, Zenon DEF GuestMounts
<1>2. /\ mounts' \in Seq(Callers \cup {None}) /\ ~Listed(c)'
      /\ \A b \in Callers \ {c} : Listed(b)' <=> Listed(b)
      /\ \A j \in DOMAIN mounts' : mounts'[j] # None => mnts'[mounts'[j]].index = j
      /\ \A d \in Callers : (\A j \in DOMAIN mounts : mounts[j] # d)
                             => \A j \in DOMAIN mounts' : mounts'[j] # d
  BY <1>0, <1>1, Unlisted, Zenon
<1>3. /\ AttachInv' /\ callers'[c].pc = "undo"
      /\ \A d \in Callers : Slot(d)' = Slot(d) /\ callers'[d].mnt = callers[d].mnt
      /\ \A d \in Callers \ {c} : callers'[d] = callers[d]
      /\ \A b \in Callers \ {c} : mnts'[b] = mnts[b]
      /\ mnts'[c].done /\ mnts'[c].err
      /\ \A b \in Callers : /\ mnts'[b].index = mnts[b].index /\ mnts'[b].slot = mnts[b].slot
                            /\ mnts'[b].config = mnts[b].config /\ mnts'[b].path = mnts[b].path
                            /\ mnts'[b].refs = mnts[b].refs
  BY <1>2, MountEnds, Zenon
<1>4. \A b \in Callers \ {c} : Users(b)' = Users(b) /\ Record(b)' = Record(b)
  BY <1>0, <1>3, SMTT(30) DEF Users, Record
<1>5. \A b \in Callers : SoundMount(b)'
  <2> SUFFICES ASSUME NEW b \in Callers \ {c}, Listed(b)
               PROVE  SoundMount(b)'
    BY <1>2, Zenon DEF SoundMount
  <2>1. SoundMount(b)
    BY <1>0, Zenon DEF MountInv
  <2>2. \E d \in Callers : callers'[d].mnt = b /\ callers'[d].pc \in Sharing \cup {"stuck"}
    BY <2>1, <1>0, <1>3, SMTT(30) DEF SoundMount
  <2>3. \A p \in Callers : Listed(p)' /\ mnts'[p].path = mnts'[b].path => p = b
    BY <2>1, <1>2, <1>3 DEF SoundMount
  <2>4. mnts'[b] = mnts[b] /\ callers'[b] = callers[b]
    BY <1>3, Zenon
  <2> QED  BY <2>1, <2>2, <2>3, <2>4, <1>4, Zenon DEF SoundMount
<1>6. \A d \in Callers : SoundUser(d)'
  <2> SUFFICES ASSUME NEW d \in Callers
               PROVE  SoundUser(d)'
    BY Zenon
  <2>1. SoundUser(d) /\ callers[d].mnt \in Callers \cup {None}
    BY <1>0, Zenon DEF MountInv, AttachInv, TypeOK, CallerStates
  <2>2. CASE d = c
    BY <2>2, <1>3, Zenon DEF SoundUser, Sharing, Early
  <2>3. CASE d # c /\ callers[d].mnt = c
    <3>1. callers[d].pc \in Sharing => callers[d].pc = "awaitMount"
      BY <2>1, <2>3, <1>0, Zenon DEF SoundUser, Sharing
    <3>2. callers'[d] = callers[d] /\ Slot(d)' = Slot(d) /\ callers[d].pc \notin Early
      BY <2>1, <2>3, <1>0, <1>3, Zenon DEF SoundUser
    <3>3. mnts'[c].slot = mnts[c].slot /\ mnts'[c].config = mnts[c].config
      BY <1>3, Zenon
    <3> QED  BY <3>1, <3>2, <3>3, <2>1, <2>3, <1>3 DEF SoundUser, Sharing
  <2>4. CASE d # c /\ callers[d].mnt # c
    <3>1. callers'[d] = callers[d] /\ Slot(d)' = Slot(d)
      BY <2>4, <1>3, Zenon
    <3>2. callers[d].mnt # None =>
             /\ mnts'[callers[d].mnt] = mnts[callers[d].mnt]
             /\ \A b \in Callers : b = callers[d].mnt => (Listed(b)' <=> Listed(b))
      BY <2>1, <2>4, <1>2, <1>3, Zenon
    <3>3. callers[d].pc \in Early => \A j \in DOMAIN mounts' : mounts'[j] # d
      BY <2>1, <1>2, Zenon DEF SoundUser
    <3>4. \A e \in Callers : callers'[e].mnt = callers[e].mnt
      BY <1>3, Zenon
    <3> QED  BY <3>1, <3>2, <3>3, <3>4, <2>1, Zenon DEF SoundUser
  <2> QED  BY <2>2, <2>3, <2>4, Zenon
<1>7. \A g \in guest' : \E b \in Callers : Listed(b)' /\ mnts'[b].done /\ g = Record(b)'
  <2> SUFFICES ASSUME NEW g \in guest
               PROVE  \E b \in Callers : Listed(b)' /\ mnts'[b].done /\ g = Record(b)'
    BY Zenon
  <2>1. PICK b \in Callers : Listed(b) /\ mnts[b].done /\ g = Record(b)
    BY <1>0, Zenon DEF MountInv
  <2>2. b # c
    BY <2>1, <1>0, Zenon
  <2> QED  BY <2>1, <2>2, <1>2, <1>3, <1>4, Zenon
<1> QED  BY <1>2, <1>3, <1>5, <1>6, <1>7, Zenon DEF UvmScsiInv, MountInv

\* The others wake up.
LEMMA AwaitMountKeeps ==
  ASSUME UvmScsiInv, NEW c \in Callers, AwaitMount(c)
  PROVE  UvmScsiInv'
<1>0. /\ AttachInv /\ MountInv /\ SoundUser(c) /\ At(c, "awaitMount")
      /\ UNCHANGED <<slots, atts, mounts, mnts, bus, guest>>
      /\ callers \in [Callers -> CallerStates] /\ mnts \in [Callers -> GuestMounts]
      /\ mounts \in Seq(Callers \cup {None})
  BY Zenon DEF UvmScsiInv, AttachInv, MountInv, TypeOK, AwaitMount, tables, world
<1>1. PICK o \in Callers : o = callers[c].mnt /\ mnts[o].done /\ o # None
  BY <1>0, Zenon DEF SoundUser, At, AwaitMount, CallerStates
<1>2. PICK pc \in {"undo", "held"} : Goes(c, pc) /\ (mnts[o].err <=> pc = "undo")
  BY <1>1, Zenon DEF AwaitMount
<1>3. /\ callers'[c].pc = pc /\ callers'[c].att = callers[c].att
      /\ \A d \in Callers \ {c} : callers'[d] = callers[d]
      /\ \A d \in Callers : /\ callers'[d].mnt = callers[d].mnt
                            /\ callers'[d].att = callers[d].att
      /\ callers' \in [Callers -> CallerStates]
  BY <1>0, <1>2, ZenonT(40) DEF Goes, CallerStates, Places, Counting, Settled
<1>4. AttachInv'
  <2>1. callers[c].pc \in Settled /\ callers'[c].pc \in Settled
    BY <1>0, <1>3, Zenon DEF At, Settled
  <2> QED  BY <2>1, <1>0, <1>3, SettledMoves, Zenon
<1>5. \A b \in Callers : (Listed(b)' <=> Listed(b)) /\ Record(b)' = Record(b)
  BY <1>0, Zenon DEF Listed, Record
<1>6. \A b \in Callers : Listed(b) =>
         /\ Users(b)' = Users(b)
         /\ \A d \in Callers : callers[d].mnt = b /\ callers[d].pc \in Sharing \cup {"stuck"}
                               => callers'[d].pc \in Sharing \cup {"stuck"}
  <2> SUFFICES ASSUME NEW b \in Callers, Listed(b)
               PROVE  /\ Users(b)' = Users(b)
                      /\ \A d \in Callers : callers[d].mnt = b /\ callers[d].pc \in Sharing \cup
                           {"stuck"}
                                            => callers'[d].pc \in Sharing \cup {"stuck"}
    BY Zenon
  <2>1. b = o => pc = "held"
    BY <1>0, <1>1, <1>2, Zenon DEF MountInv, SoundMount
  <2> QED  BY <2>1, <1>0, <1>1, <1>3 DEF Users, Sharing, At
<1>7. \A b \in Callers : SoundMount(b)'
  <2> SUFFICES ASSUME NEW b \in Callers, Listed(b)
               PROVE  SoundMount(b)'
    BY <1>5, Zenon DEF SoundMount
  <2>1. SoundMount(b)
    BY <1>0, Zenon DEF MountInv
  <2>2. \E d \in Callers : callers'[d].mnt = b /\ callers'[d].pc \in Sharing \cup {"stuck"}
    BY <2>1, <1>3, <1>6, Zenon DEF SoundMount
  <2>3. callers[b].pc = "mounting" => callers'[b].pc = "mounting"
    BY <1>0, <1>3, Zenon DEF At
  <2> QED  BY <2>1, <2>2, <2>3, <1>0, <1>5, <1>6, Zenon DEF SoundMount
<1>8. \A d \in Callers : SoundUser(d)'
  <2> SUFFICES ASSUME NEW d \in Callers
               PROVE  SoundUser(d)'
    BY Zenon
  <2>1. SoundUser(d) /\ Slot(d)' = Slot(d) /\ callers[d].mnt \in Callers \cup {None}
    BY <1>0, <1>3, SlotsStay, Zenon DEF MountInv, CallerStates
  <2>2. CASE d = c
    <3>1. Listed(o) \/ pc = "undo"
      BY <1>0, <1>1, <1>2, ZenonT(40) DEF SoundUser, At, Sharing
    <3> QED  BY <3>1, <2>1, <2>2, <1>0, <1>1, <1>3, <1>5, Zenon
                DEF SoundUser, At, Sharing, Early
  <2>3. CASE d # c
    BY <2>1, <2>3, <1>0, <1>3, <1>5 DEF SoundUser
  <2> QED  BY <2>2, <2>3, Zenon
<1>9. \A g \in guest' : \E b \in Callers : Listed(b)' /\ mnts'[b].done /\ g = Record(b)'
  BY <1>0, <1>5, Zenon DEF MountInv
<1> QED  BY <1>0, <1>4, <1>7, <1>8, <1>9, Zenon DEF UvmScsiInv, MountInv

\* A caller that holds a mount has its entry, and unmount finds it.
LEMMA HeldMount ==
  ASSUME UvmScsiInv, NEW c \in Callers, At(c, "held"), callers[c].mnt # None
  PROVE  /\ callers[c].mnt \in Callers /\ Listed(callers[c].mnt) /\ mnts[callers[c].mnt].done
         /\ SoundMount(callers[c].mnt) /\ Found(mnts[callers[c].mnt].path) = callers[c].mnt
<1>0. /\ AttachInv /\ MountInv /\ SoundUser(c) /\ mounts \in Seq(Callers \cup {None})
      /\ callers[c].mnt \in Callers
  BY Zenon DEF UvmScsiInv, AttachInv, MountInv, TypeOK, CallerStates
<1>1. PICK o \in Callers : o = callers[c].mnt /\ Listed(o) /\ mnts[o].done /\ SoundMount(o)
                           /\ o # None
  BY <1>0, Zenon DEF SoundUser, At, Sharing, MountInv
<1> DEFINE hits == {i \in Live : mnts[mounts[i]].path = mnts[o].path}
<1>2. mnts[o].index \in hits
  BY <1>1, Zenon DEF Listed, Live
<1>3. \A i \in hits : mounts[i] = o
  <2> SUFFICES ASSUME NEW i \in Live, mnts[mounts[i]].path = mnts[o].path
               PROVE  mounts[i] = o
    BY Zenon
  <2>1. mounts[i] \in Callers
    BY <1>0 DEF Live
  <2>2. Listed(mounts[i])
    BY <2>1, <1>0, Zenon DEF Listed, Live, MountInv
  <2> QED  BY <2>1, <2>2, <1>1, Zenon DEF SoundMount
<1>4. Min(hits) \in hits
  <2>1. hits \subseteq Nat
    BY <1>0 DEF Live
  <2> QED  BY <2>1, <1>2, FirstIsOne, Zenon
<1>5. Found(mnts[o].path) = mounts[Min(hits)]
  BY <1>2, Zenon DEF Found
<1> HIDE DEF hits
<1> QED  BY <1>1, <1>3, <1>4, <1>5, Zenon

\* unmount drops a reference; the last one removes the guest's mount.
LEMMA UnmountKeeps ==
  ASSUME UvmScsiInv, NEW c \in Callers, At(c, "held"), callers[c].mnt # None,
         Unmount(c), UNCHANGED <<slots, atts, bus>>
  PROVE  UvmScsiInv'
<1>0. /\ AttachInv /\ MountInv /\ mounts \in Seq(Callers \cup {None})
      /\ callers \in [Callers -> CallerStates] /\ mnts \in [Callers -> GuestMounts]
  BY Zenon DEF UvmScsiInv, AttachInv, TypeOK
<1>1. PICK o \in Callers : /\ o = callers[c].mnt /\ Listed(o) /\ mnts[o].done /\ SoundMount(o)
                           /\ Found(mnts[callers[c].mnt].path) = o /\ o # None
  BY HeldMount, UvmScsiAssumption, Zenon
<1>2. /\ mnts' = [mnts EXCEPT ![o].refs = @ - 1]
      /\ \/ mnts[o].refs # 1 /\ Goes(c, "detaching") /\ UNCHANGED <<mounts, guest>>
         \/ mnts[o].refs = 1 /\ Goes(c, "stuck") /\ UNCHANGED <<mounts, guest>>
         \/ /\ mnts[o].refs = 1 /\ Goes(c, "detaching")
            /\ guest' = {g \in guest : g.path # mnts[o].path}
            /\ mounts' = [mounts EXCEPT ![mnts[o].index] = None]
  BY <1>1, Zenon DEF Unmount, LastMounted
<1>3. /\ Users(o) \subseteq Callers /\ c \in Users(o)
      /\ Cardinality(Users(o) \ {c}) = Cardinality(Users(o)) - 1
      /\ Cardinality(Users(o)) >= 1 /\ Cardinality(Users(o)) \in Nat
      /\ mnts[o].refs = Cardinality(Users(o))
  <2>1. Users(o) \subseteq Callers /\ c \in Users(o) /\ mnts[o].refs = Cardinality(Users(o))
    BY <1>1, Zenon DEF Users, At, Sharing, SoundMount
  <2> QED  BY <2>1, OneLess, CallersFinite, Zenon
<1>4. mnts' \in [Callers -> GuestMounts]
  <2>1. mnts[o] \in GuestMounts /\ mnts[o].refs - 1 \in Nat
    BY <1>0, <1>3
  <2>2. [mnts[o] EXCEPT !.refs = @ - 1] \in GuestMounts
    BY <2>1, Zenon DEF GuestMounts
  <2> QED  BY <2>2, <1>0, <1>2, Zenon
<1>5. /\ \A b \in Callers : /\ mnts'[b].index = mnts[b].index /\ mnts'[b].slot = mnts[b].slot
                            /\ mnts'[b].config = mnts[b].config /\ mnts'[b].path = mnts[b].path
                            /\ mnts'[b].done = mnts[b].done /\ mnts'[b].err = mnts[b].err
      /\ mnts'[o].refs = mnts[o].refs - 1 /\ \A b \in Callers \ {o} : mnts'[b].refs = mnts[b].refs
  BY <1>0, <1>2, Zenon DEF GuestMounts
<1>6. PICK pc \in {"detaching", "stuck"} : /\ Goes(c, pc)
                                           /\ mnts[o].refs # 1 => pc = "detaching"
                                           /\ pc = "stuck" => UNCHANGED <<mounts, guest>>
                                           /\ Listed(o)' /\ mnts[o].refs = 1 => pc = "stuck"
                                           /\ ~Listed(o)' => mnts[o].refs = 1
                                           /\ Listed(o)' => UNCHANGED <<mounts, guest>>
                                           /\ ~Listed(o)' =>
                                                /\ guest' = {g \in guest : g.path # mnts[o].path}
                                                /\ mounts' = [mounts EXCEPT ![mnts[o].index] = None]
  <2>1. UNCHANGED mounts => Listed(o)'
    BY <1>1, <1>5, Zenon DEF Listed
  <2>2. mounts' = [mounts EXCEPT ![mnts[o].index] = None] => ~Listed(o)'
    BY <1>0, <1>1, <1>5, Unlisted, Zenon
  <2> QED  BY <2>1, <2>2, <1>2, Zenon
<1>7. /\ mounts' \in Seq(Callers \cup {None})
      /\ \A b \in Callers \ {o} : Listed(b)' <=> Listed(b)
      /\ \A j \in DOMAIN mounts' : mounts'[j] # None => mnts'[mounts'[j]].index = j
      /\ \A d \in Callers : (\A j \in DOMAIN mounts : mounts[j] # d)
                             => \A j \in DOMAIN mounts' : mounts'[j] # d
  <2>1. CASE ~Listed(o)'
    BY <2>1, <1>0, <1>1, <1>5, <1>6, Unlisted, Zenon
  <2>2. CASE Listed(o)'
    <3>1. mounts' = mounts
      BY <2>2, <1>6, Zenon
    <3>2. \A j \in DOMAIN mounts : mounts[j] # None => mounts[j] \in Callers
      BY <1>0
    <3> QED  BY <3>1, <3>2, <1>0, <1>5, Zenon DEF Listed, MountInv
  <2> QED  BY <2>1, <2>2, Zenon
<1>8. /\ callers'[c].pc = pc /\ callers'[c].att = callers[c].att
      /\ \A d \in Callers \ {c} : callers'[d] = callers[d]
      /\ \A d \in Callers : /\ callers'[d].mnt = callers[d].mnt
                            /\ callers'[d].att = callers[d].att
      /\ callers' \in [Callers -> CallerStates]
  BY <1>0, <1>6 DEF Goes, CallerStates, Places, Counting, Settled
<1>9. AttachInv'
  <2>1. callers[c].pc \in Settled /\ callers'[c].pc \in Settled
    BY <1>8, Zenon DEF At, Settled
  <2> QED  BY <2>1, <1>0, <1>4, <1>7, <1>8, SettledMoves, Zenon
<1>10. /\ \A b \in Callers : Record(b)' = Record(b)
       /\ \A b \in Callers \ {o} : Users(b)' = Users(b)
       /\ Users(o)' = Users(o) \ {c}
  BY <1>1, <1>5, <1>8 DEF Record, Users, Sharing
<1>11. ASSUME Listed(o)'
       PROVE  SoundMount(o)'
  <2>1. mounts' = mounts /\ guest' = guest
    BY <1>11, <1>6, Zenon
  <2>2. \E d \in Callers : callers'[d].mnt = o /\ callers'[d].pc \in Sharing \cup {"stuck"}
    <3>1. CASE mnts[o].refs = 1
      BY <3>1, <1>1, <1>6, <1>8, <1>11, Zenon
    <3>2. CASE mnts[o].refs # 1
      <4>1. PICK d \in Users(o) : d # c
        BY <3>2, <1>3, Another
      <4> QED  BY <4>1, <1>8, Zenon DEF Users
    <3> QED  BY <3>1, <3>2, Zenon
  <2>3. mnts'[o].refs = Cardinality(Users(o)')
    BY <1>3, <1>5, <1>10, Zenon
  <2>4. \A p \in Callers : Listed(p)' /\ mnts'[p].path = mnts'[o].path => p = o
    BY <1>1, <1>5, <1>7 DEF SoundMount
  <2> QED  BY <2>1, <2>2, <2>3, <2>4, <1>1, <1>5, <1>10, Zenon DEF SoundMount
<1>12. ASSUME NEW b \in Callers \ {o}, Listed(b)
       PROVE  SoundMount(b)'
  <2>1. SoundMount(b) /\ mnts[b].path # mnts[o].path
    BY <1>0, <1>1, <1>12, Zenon DEF MountInv, SoundMount
  <2>2. \E d \in Callers : callers'[d].mnt = b /\ callers'[d].pc \in Sharing \cup {"stuck"}
    BY <2>1, <1>1, <1>8, <1>12, SMTT(30) DEF SoundMount
  <2>3. \A p \in Callers : Listed(p)' /\ mnts'[p].path = mnts'[b].path => p = b
    BY <2>1, <1>5, <1>7, <1>12, SMTT(30) DEF SoundMount
  <2>4. Record(b) \in guest => Record(b)' \in guest'
    BY <2>1, <1>6, <1>10 DEF Record
  <2>5. callers[b].pc = "mounting" => callers'[b].pc = "mounting"
    BY <1>8, Zenon DEF At
  <2> QED  BY <2>1, <2>2, <2>3, <2>4, <2>5, <1>5, <1>7, <1>10, <1>12, Zenon DEF SoundMount
<1>13. \A b \in Callers : SoundMount(b)'
  BY <1>7, <1>11, <1>12 DEF SoundMount
<1>14. \A d \in Callers : SoundUser(d)'
  <2> SUFFICES ASSUME NEW d \in Callers
               PROVE  SoundUser(d)'
    BY Zenon
  <2>1. /\ SoundUser(d) /\ Slot(d)' = Slot(d) /\ callers[d].mnt \in Callers \cup {None}
        /\ callers'[d].mnt = callers[d].mnt
    BY <1>0, <1>8, SlotsStay, Zenon DEF MountInv, CallerStates
  <2>2. CASE d = c
    <3>1. /\ mnts'[o].slot = Slot(c)' /\ mnts'[o].config = Wanted[c].config /\ Disk(o) = Disk(c)
      BY <2>1, <2>2, <1>1, <1>5, SMTT(30) DEF SoundUser, At, Sharing
    <3> QED  BY <3>1, <2>1, <2>2, <1>1, <1>8, SMTT(30) DEF SoundUser, Sharing, Early
  <2>3. CASE d # c /\ callers[d].mnt = o
    <3>1. ~Listed(o)' => callers[d].pc \notin Sharing
      <4>1. ~Listed(o)' => Users(o) = {c}
        BY <1>3, <1>6, OnlyOne
      <4> QED  BY <4>1, <2>3, Zenon DEF Users
    <3>2. callers[d].pc \notin Early /\ callers'[d] = callers[d]
      BY <2>1, <2>3, <1>1, <1>8, Zenon DEF SoundUser
    <3> QED  BY <3>1, <3>2, <2>1, <2>3, <1>1, <1>5 DEF SoundUser
  <2>4. CASE d # c /\ callers[d].mnt # o
    <3>1. callers'[d] = callers[d]
      BY <2>4, <1>8, Zenon
    <3>2. callers[d].mnt # None =>
             \A b \in Callers : b = callers[d].mnt => (Listed(b)' <=> Listed(b))
      BY <2>1, <2>4, <1>7, Zenon
    <3>3. callers[d].pc \in Early => \A j \in DOMAIN mounts' : mounts'[j] # d
      BY <2>1, <1>7, Zenon DEF SoundUser
    <3> QED  BY <3>1, <3>2, <3>3, <2>1, <1>5, <1>8 DEF SoundUser
  <2> QED  BY <2>2, <2>3, <2>4, Zenon
<1>15. \A g \in guest' : \E b \in Callers : Listed(b)' /\ mnts'[b].done /\ g = Record(b)'
  <2> SUFFICES ASSUME NEW g \in guest'
               PROVE  \E b \in Callers : Listed(b)' /\ mnts'[b].done /\ g = Record(b)'
    BY Zenon
  <2>1. g \in guest /\ (~Listed(o)' => g.path # mnts[o].path)
    BY <1>6, Zenon
  <2>2. PICK b \in Callers : Listed(b) /\ mnts[b].done /\ g = Record(b)
    BY <2>1, <1>0, Zenon DEF MountInv
  <2>3. ~Listed(o)' => b # o
    BY <2>1, <2>2, Zenon DEF Record
  <2> QED  BY <2>2, <2>3, <1>5, <1>7, <1>10, Zenon
<1> QED  BY <1>7, <1>9, <1>13, <1>14, <1>15, Zenon DEF UvmScsiInv, MountInv

-----------------------------------------------------------------------------
(* The manager.                                                             *)

\* No step of a caller disturbs what the others were given.
LEMMA UvmScsiStep ==
  Patient /\ UvmScsiInv /\ [Next]_vars => UvmScsiInv'
<1> SUFFICES ASSUME Patient, UvmScsiInv, [Next]_vars
             PROVE  UvmScsiInv'
  BY Zenon
<1>0. /\ \A c \in Callers : callers[c].pc # "cancelled"
      /\ \A c \in Callers : callers[c].pc = "awaitMount" => Wanted[c].config # None
  <2>1. \A c \in Callers : callers[c].pc \in Places /\ SoundUser(c)
    BY Zenon DEF UvmScsiInv, AttachInv, MountInv, TypeOK, CallerStates
  <2> QED  BY <2>1, Zenon DEF SoundUser, Places, Counting, Settled
<1>1. ASSUME NEW c \in Callers, HostAttach(c) \/ Attach(c) \/ Mount(c) \/ AwaitMount(c)
      PROVE  UvmScsiInv'
  BY <1>1, HostAttachKeeps, AttachKeeps, MountKeeps, AwaitMountKeeps, Zenon
<1>2. ASSUME NEW c \in Callers, AwaitAttach(c) \/ GiveUp(c)
      PROVE  UvmScsiInv'
  <2>1. /\ At(c, "awaitAttach") /\ UNCHANGED <<tables, world>>
        /\ \/ Goes(c, "failed")
           \/ /\ Goes(c, "attached")
              /\ atts[callers[c].att].done /\ ~atts[callers[c].att].err
    BY <1>0, <1>2, Zenon DEF AwaitAttach, GiveUp, Patient, At
  <2> QED  BY <2>1, AwaitAttachKeeps, Zenon
<1>3. ASSUME NEW c \in Callers, GuestMount(c)
      PROVE  UvmScsiInv'
  BY <1>3, GuestMountsIt, GuestRefuses, Zenon DEF GuestMount
<1>4. ASSUME NEW c \in Callers, Undo(c)
      PROVE  UvmScsiInv'
  <2>1. callers[c].pc = "undo" /\ Goes(c, "failed") /\ Detach(Slot(c), FALSE)
    <3>1. callers[c].pc = "undo" /\ At(c, "cancelled") = FALSE
      BY <1>0, <1>4, Zenon DEF Undo, At
    <3> QED  BY <3>1, <1>4, Zenon DEF Undo
  <2> QED  BY <2>1, DetachKeeps, Zenon
<1>5. ASSUME NEW c \in Callers, ReleaseDetaches(c)
      PROVE  UvmScsiInv'
  BY <1>5, DetachKeeps, Zenon DEF ReleaseDetaches, At
<1>6. ASSUME NEW c \in Callers, Release(c)
      PROVE  UvmScsiInv'
  <2>1. CASE callers[c].mnt = None
    <3>1. Goes(c, "detaching") /\ UNCHANGED <<slots, atts, mounts, mnts, bus, guest>>
      BY <2>1, <1>6, Zenon DEF Release
    <3>2. callers[c].pc \in Settled /\ "detaching" \in Settled
          /\ "detaching" \notin {"mounting", "awaitMount"} \cup Early
      BY <1>6, Zenon DEF Release, At, Settled, Early
    <3> QED  BY <3>1, <3>2, <2>1, PassesSettled, Zenon
  <2>2. CASE callers[c].mnt # None
    BY <2>2, <1>6, UnmountKeeps, Zenon DEF Release
  <2> QED  BY <2>1, <2>2, Zenon
<1>7. ASSUME UNCHANGED vars
      PROVE  UvmScsiInv'
  <2>1. UNCHANGED <<slots, atts, mounts, mnts, callers, bus, guest>>
    BY <1>7, Zenon DEF vars, tables, world
  <2>2. AttachInv'
    <3>1. TypeOK'
      BY <2>1, Zenon DEF UvmScsiInv, AttachInv, TypeOK
    <3>2. ASSUME NEW t \in Slots PROVE SoundSlot(t)'
      BY <2>1, <3>2, Zenon DEF UvmScsiInv, AttachInv, SoundSlot, Holders
    <3>3. ASSUME NEW c \in Callers PROVE SoundHolder(c)'
      BY <2>1, <3>3, Zenon DEF UvmScsiInv, AttachInv, SoundHolder, Tracked
    <3> QED  BY <3>1, <3>2, <3>3, Zenon DEF AttachInv
  <2>3. \A o \in Callers : (Listed(o)' <=> Listed(o)) /\ Record(o)' = Record(o) /\
          Slot(o)' = Slot(o)
    BY <2>1, Zenon DEF Listed, Record, Slot
  <2>4. ASSUME NEW o \in Callers PROVE SoundMount(o)'
    <3>1. SoundMount(o) /\ Users(o)' = Users(o)
      BY <2>1, <2>4, Zenon DEF UvmScsiInv, MountInv, Users
    <3> QED  BY <2>1, <2>3, <2>4, <3>1, Zenon DEF SoundMount
  <2>5. ASSUME NEW c \in Callers PROVE SoundUser(c)'
    BY <2>1, <2>5, Zenon DEF UvmScsiInv, MountInv, SoundUser, Listed, Slot
  <2>6. /\ \A i \in DOMAIN mounts' : mounts'[i] # None => mnts'[mounts'[i]].index = i
        /\ \A g \in guest' : \E o \in Callers : Listed(o)' /\ mnts'[o].done /\ g = Record(o)'
    BY <2>1, <2>3, Zenon DEF UvmScsiInv, MountInv
  <2> QED  BY <2>2, <2>4, <2>5, <2>6, Zenon DEF UvmScsiInv, MountInv
<1> QED  BY <1>1, <1>2, <1>3, <1>4, <1>5, <1>6, <1>7, Zenon DEF Next, Add

\* What the invariant is for.
LEMMA DisksAreServed ==
  ASSUME UvmScsiInv
  PROVE  DisksServed
<1>1. HeldIsMounted
  <2> SUFFICES ASSUME NEW c \in Callers, At(c, "held")
               PROVE  Holds(c)
    BY Zenon DEF HeldIsMounted
  <2>1. bus[Slot(c)] = Disk(c)
    BY InSlot, Zenon DEF UvmScsiInv, At, Settled
  <2>2. CASE callers[c].mnt # None
    <3>1. PICK o \in Callers : /\ o = callers[c].mnt /\ Listed(o) /\ mnts[o].done /\ SoundMount(o)
      BY <2>2, HeldMount, Zenon
    <3>2. mnts[o].slot = Slot(c) /\ mnts[o].config = Wanted[c].config /\ Disk(o) = Disk(c)
      BY <2>2, <3>1, Zenon DEF UvmScsiInv, MountInv, SoundUser, At, Sharing
    <3>3. Record(o) \in guest
      BY <3>1, Zenon DEF SoundMount
    <3> QED  BY <2>1, <3>1, <3>2, <3>3, Zenon DEF Holds, Record
  <2> QED  BY <2>1, <2>2, Zenon DEF Holds
<1>2. MountsBacked
  <2> SUFFICES ASSUME NEW g \in guest
               PROVE  bus[g.slot] = g.disk
    BY Zenon DEF MountsBacked
  <2>1. PICK o \in Callers : Listed(o) /\ mnts[o].done /\ g = Record(o)
    BY Zenon DEF UvmScsiInv, MountInv
  <2>2. PICK c \in Callers : callers[c].mnt = o /\ callers[c].pc \in Sharing \cup {"stuck"}
    BY <2>1, Zenon DEF UvmScsiInv, MountInv, SoundMount
  <2>3. mnts[o].slot = Slot(c) /\ Disk(o) = Disk(c)
    BY <2>2, UvmScsiAssumption, Zenon DEF UvmScsiInv, MountInv, SoundUser
  <2>4. bus[Slot(c)] = Disk(c)
    BY <2>2, InSlot, Zenon DEF UvmScsiInv, Sharing, Settled
  <2> QED  BY <2>1, <2>3, <2>4, Zenon DEF Record
<1> QED  BY <1>1, <1>2, Zenon DEF DisksServed

\* What AddVirtualDisk and its siblings returned stays attached and mounted until it is
\* released, and no disk leaves the bus under a mount, whoever shares the disk or the
\* mount and whichever host and guest calls fail, as long as no caller gives up while
\* it waits for a mount (Manager.add and remove, attachManager, mountManager).
THEOREM DisksAlwaysServed ==
  ASSUME Patient
  PROVE  Spec => []DisksServed
<1>1. Init => UvmScsiInv
  BY AttachInit, MountInit, Zenon DEF UvmScsiInv
<1>2. UvmScsiInv /\ [Next]_vars => UvmScsiInv'
  BY UvmScsiStep, Zenon
<1>3. UvmScsiInv => DisksServed
  BY DisksAreServed, Zenon
<1> QED  BY <1>1, <1>2, <1>3, PTL DEF Spec
=============================================================================

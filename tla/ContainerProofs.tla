-------------------------- MODULE ContainerProofs --------------------------
(***************************************************************************)
(* Proofs about Container, for any layers, mounts, devices, execs,         *)
(* deleting threads and faults.                                            *)
(*                                                                         *)
(* First, what releaseResources does whichever releases fail: the lists    *)
(* are sequences without repetition, and what is left of them depends on   *)
(* the order of the attempts.  LifeInv is then about the container, its    *)
(* processes and the goroutines that watch them; no resource occurs in it. *)
(* ResInv is about the resources and what the host and the guest hold, and *)
(* stands on the first part.                                               *)
(***************************************************************************)
EXTENDS Container, TLAPS

\* A list of reservations is a part of what Create was asked for.
Sublists(list) == {l \in Seq(Range(list)) : IsInjective(l)}
Resources ==
    [ro : Sublists(RoLayers), scratch : {Scratch, None}, scsi : Sublists(Disks),
     plan9 : Sublists(Shares), devices : Sublists(Devices), combined : BOOLEAN,
     stateDeleted : BOOLEAN]
Worlds == [held : SUBSET Reservations, overlay : BOOLEAN, inGuest : BOOLEAN]

\* The container's bookkeeping covers what is held for it.
Covered(r, w) ==
    /\ w.held \subseteq Known(r)
    /\ w.overlay => r.combined
    /\ w.inGuest => ~r.stateDeleted

\* No attempt of releaseResources would fail for a resource that is not there.
Releasable(r, w, g) ==
    /\ Known(r) \subseteq w.held
    /\ DeleteStateSupported /\ ~r.stateDeleted => w.inGuest \/ g

\* The releases that may fail are those releaseResources attempts before it
\* comes to a list that it leaves alone when a later one fails.
LayersFlaky == Flaky \subseteq {Overlay, Scratch} \cup Range(RoLayers)

-----------------------------------------------------------------------------
(* Sequences without repetition, and the order in which releaseResources    *)
(* goes through them.                                                       *)

Distinct(s, R) == s \in Seq(R) /\ IsInjective(s) /\ Range(s) = R
Upto(s, k) == Range(SubSeq(s, 1, k - 1))

\* The elements before position k.
LEMMA UptoFacts ==
    ASSUME NEW R, NEW s, Distinct(s, R), NEW k \in 1..Len(s) + 1
    PROVE  /\ \A x : x \in Upto(s, k) <=> \E i \in 1..k - 1 : x = s[i]
           /\ Upto(s, k) \subseteq R
           /\ k = Len(s) + 1 => Upto(s, k) = R
           /\ k <= Len(s) => s[k] \in R \ Upto(s, k)
<1> USE DEF Distinct
<1>1. SubSeq(s, 1, k - 1) \in Seq(R) /\ Len(SubSeq(s, 1, k - 1)) = k - 1
    OBVIOUS
<1>2. DOMAIN SubSeq(s, 1, k - 1) = 1..k - 1 /\ \A i \in 1..k - 1 : SubSeq(s, 1, k - 1)[i] = s[i]
    BY <1>1
<1>3. \A x : x \in Upto(s, k) <=> \E i \in 1..k - 1 : x = s[i]
    BY <1>2, Zenon DEF Upto, Range
<1>4. 1..k - 1 \subseteq DOMAIN s /\ \A i \in DOMAIN s : s[i] \in R
    OBVIOUS
<1>5. Upto(s, k) \subseteq R
    BY <1>3, <1>4, Zenon
<1>6. ASSUME k = Len(s) + 1 PROVE Upto(s, k) = R
  <2>1. ASSUME NEW x \in R PROVE x \in Upto(s, k)
    <3>1. PICK i \in DOMAIN s : s[i] = x
        BY <2>1, Zenon DEF Range
    <3>2. i \in 1..k - 1
        BY <1>6
    <3> QED
        BY <1>3, <3>1, <3>2, Zenon
  <2> QED
      BY <1>5, <2>1, Zenon
<1>7. k <= Len(s) => s[k] \in R \ Upto(s, k)
    BY <1>3, <1>4 DEF IsInjective
<1> QED
    BY <1>3, <1>5, <1>6, <1>7, Zenon

\* The empty sequence, and a sequence of one.
LEMMA DistinctShort == Distinct(<<>>, {}) /\ \A x : Distinct(<<x>>, {x})
<1>1. Distinct(<<>>, {})
    BY DEF Distinct, IsInjective, Range
<1>2. ASSUME NEW x PROVE Distinct(<<x>>, {x})
  <2>1. <<x>> \in Seq({x}) /\ DOMAIN <<x>> = {1} /\ <<x>>[1] = x
      OBVIOUS
  <2> QED
      BY <2>1, Zenon DEF Distinct, IsInjective, Range
<1> QED
    BY <1>1, <1>2, Zenon

\* Two sequences one after the other: what comes before an element of the
\* first one is in the first one, and what comes before an element of the
\* second is all of the first and the head of the second.
LEMMA DistinctConcat ==
    ASSUME NEW A, NEW B, NEW s, NEW t, Distinct(s, A), Distinct(t, B), A \cap B = {}
    PROVE  /\ Distinct(s \o t, A \cup B)
           /\ Len(s \o t) = Len(s) + Len(t) /\ Len(s) \in Nat /\ Len(t) \in Nat
           /\ \A i \in 1..Len(s) : (s \o t)[i] = s[i]
           /\ \A i \in 1..Len(t) : (s \o t)[Len(s) + i] = t[i]
           /\ DOMAIN s = 1..Len(s) /\ DOMAIN t = 1..Len(t)
<1> DEFINE u == s \o t
<1>1. s \in Seq(A \cup B) /\ t \in Seq(A \cup B) /\ DOMAIN s = 1..Len(s) /\ DOMAIN t = 1..Len(t)
    BY DEF Distinct
<1>2. /\ u \in Seq(A \cup B) /\ Len(u) = Len(s) + Len(t) /\ Len(s) \in Nat /\ Len(t) \in Nat
      /\ DOMAIN u = 1..Len(s) + Len(t)
    BY <1>1
<1>3. /\ \A i \in DOMAIN s : u[i] = s[i] /\ s[i] \in A
      /\ \A i \in DOMAIN t : u[Len(s) + i] = t[i] /\ t[i] \in B
    BY <1>1, SMTT(30) DEF Distinct
<1> HIDE DEF u
<1>4. \A i \in DOMAIN u : i \in DOMAIN s \/ (i - Len(s) \in DOMAIN t /\ i = Len(s) + (i - Len(s)))
    BY <1>1, <1>2
<1>5. Range(u) = A \cup B
  <2>1. Range(u) \subseteq A \cup B
      BY <1>3, <1>4 DEF Range
  <2>2. ASSUME NEW x \in A PROVE x \in Range(u)
    <3>1. PICK i \in DOMAIN s : s[i] = x
        BY <2>2, Zenon DEF Distinct, Range
    <3>2. i \in DOMAIN u /\ u[i] = x
        BY <1>1, <1>2, <1>3, <3>1
    <3> QED
        BY <3>2, Zenon DEF Range
  <2>3. ASSUME NEW x \in B PROVE x \in Range(u)
    <3>1. PICK i \in DOMAIN t : t[i] = x
        BY <2>3, Zenon DEF Distinct, Range
    <3>2. Len(s) + i \in DOMAIN u /\ u[Len(s) + i] = x
        BY <1>1, <1>2, <1>3, <3>1
    <3> QED
        BY <3>2, Zenon DEF Range
  <2> QED
      BY <2>1, <2>2, <2>3, Zenon
<1>6. IsInjective(u)
  <2> SUFFICES ASSUME NEW i \in DOMAIN u, NEW j \in DOMAIN u, u[i] = u[j] PROVE i = j
      BY Zenon DEF IsInjective
  <2>1. CASE i \in DOMAIN s /\ j \in DOMAIN s
      BY <1>3, <2>1, Zenon DEF Distinct, IsInjective
  <2>2. CASE i \notin DOMAIN s /\ j \notin DOMAIN s
    <3>1. t[i - Len(s)] = t[j - Len(s)] /\ i - Len(s) \in DOMAIN t /\ j - Len(s) \in DOMAIN t
        BY <1>3, <1>4, <2>2, Zenon
    <3>2. i - Len(s) = j - Len(s)
        BY <3>1, Zenon DEF Distinct, IsInjective
    <3> QED
        BY <1>2, <3>2, SMTT(30)
  <2>3. CASE i \in DOMAIN s /\ j \notin DOMAIN s
      BY <1>3, <1>4, <2>3, Zenon
  <2>4. CASE i \notin DOMAIN s /\ j \in DOMAIN s
      BY <1>3, <1>4, <2>4, Zenon
  <2> QED
      BY <2>1, <2>2, <2>3, <2>4, Zenon
<1> QED
    BY <1>1, <1>2, <1>3, <1>5, <1>6, Zenon DEF Distinct, u

\* Before an element of the first sequence.
LEMMA FirstPart ==
    ASSUME NEW A, NEW B, NEW s, NEW t, Distinct(s, A), Distinct(t, B), A \cap B = {},
           NEW k \in 1..Len(s \o t), (s \o t)[k] \in A
    PROVE  k \in 1..Len(s) /\ (s \o t)[k] = s[k] /\ Upto(s \o t, k) = Upto(s, k)
<1> DEFINE u == s \o t
<1> DEFINE C == A \cup B
<1>0. Distinct(u, C)
    BY DistinctConcat, Zenon
<1>1. /\ Len(u) = Len(s) + Len(t) /\ Len(s) \in Nat /\ Len(t) \in Nat
      /\ \A i \in 1..Len(s) : u[i] = s[i]
      /\ \A i \in 1..Len(t) : u[Len(s) + i] = t[i]
    BY DEF Distinct
<1>2. \A i \in 1..Len(t) : t[i] \in B
    BY DEF Distinct
<1>u. k \in 1..Len(u) /\ u[k] \in A
    BY Zenon
<1> HIDE DEF u, C
<1>3. k \in 1..Len(s)
  <2> SUFFICES ASSUME k \notin 1..Len(s) PROVE FALSE
      BY Zenon
  <2>1. k - Len(s) \in 1..Len(t) /\ k = Len(s) + (k - Len(s))
      BY <1>1, <1>u
  <2> QED
      BY <1>1, <1>2, <1>u, <2>1, Zenon
<1>4. k \in 1..Len(u) + 1 /\ k \in 1..Len(s) + 1
    BY <1>1, <1>3
<1>5. \A x : x \in Upto(u, k) <=> x \in Upto(s, k)
  <2>1. \A x : x \in Upto(u, k) <=> \E i \in 1..k - 1 : x = u[i]
      BY <1>0, <1>4, UptoFacts, ZenonT(40)
  <2>2. \A x : x \in Upto(s, k) <=> \E i \in 1..k - 1 : x = s[i]
      BY <1>4, UptoFacts, Zenon
  <2>3. \A i \in 1..k - 1 : u[i] = s[i]
      BY <1>1, <1>3
  <2> QED
      BY <2>1, <2>2, <2>3, Zenon
<1>6. Upto(u, k) = Upto(s, k)
    BY <1>5, Zenon
<1> QED
    BY <1>1, <1>3, <1>6, Zenon DEF u

\* A list that fails keeps what was not released: an element is in the tail
\* that Kept returns or it came before the failure, and not both.
LEMMA KeptTail ==
    ASSUME NEW A, NEW B, NEW s, NEW t, Distinct(s, A), Distinct(t, B), A \cap B = {},
           NEW k \in 1..Len(s \o t), (s \o t)[k] \in B
    PROVE  \A x \in B : x \in Range(Kept(t, (s \o t)[k])) <=> x \notin Upto(s \o t, k)
<1> DEFINE u == s \o t
           f == u[k]
           C == A \cup B
<1>0. Distinct(u, C)
    BY DistinctConcat, Zenon
<1>1. /\ Len(u) = Len(s) + Len(t) /\ Len(s) \in Nat /\ Len(t) \in Nat
      /\ \A i \in 1..Len(t) : u[Len(s) + i] = t[i]
      /\ DOMAIN t = 1..Len(t)
    BY DEF Distinct
<1>2. k \in 1..Len(u) /\ f \in B /\ f = u[k]
    BY Zenon
<1> HIDE DEF u, f, C
<1>3. Range(t) = B /\ IsInjective(t) /\ IsInjective(u) /\ DOMAIN u = 1..Len(u)
    BY <1>0 DEF Distinct
<1> DEFINE j == CHOOSE i \in DOMAIN t : t[i] = f
<1>4. j \in 1..Len(t) /\ t[j] = f
    BY <1>1, <1>2, <1>3, Zenon DEF Range
<1>5. Kept(t, f) = SubSeq(t, j, Len(t))
    BY <1>2, <1>3, Zenon DEF Kept
<1> HIDE DEF j
<1>6. k = Len(s) + j
    BY <1>1, <1>2, <1>3, <1>4, SMTT(30) DEF IsInjective
<1>7. \A x : x \in Range(SubSeq(t, j, Len(t))) <=> \E i \in j..Len(t) : x = t[i]
  <2> DEFINE v == SubSeq(t, j, Len(t))
  <2>1. t \in Seq(B)
      BY Zenon DEF Distinct
  <2>2. Len(v) = Len(t) - j + 1 /\ DOMAIN v = 1..Len(t) - j + 1
      BY <1>1, <1>4, <2>1
  <2>3. \A i \in 1..Len(t) - j + 1 : v[i] = t[j + i - 1]
      BY <1>1, <1>4, <2>1
  <2> HIDE DEF v
  <2>4. ASSUME NEW i \in j..Len(t) PROVE \E n \in DOMAIN v : t[i] = v[n]
    <3>1. i - j + 1 \in 1..Len(t) - j + 1 /\ j + (i - j + 1) - 1 = i
        BY <1>1, <1>4, <2>4
    <3>2. v[i - j + 1] = t[j + (i - j + 1) - 1]
        BY <2>3, <3>1, Zenon
    <3> QED
        BY <2>2, <3>1, <3>2, Zenon
  <2>5. ASSUME NEW n \in DOMAIN v PROVE \E i \in j..Len(t) : v[n] = t[i]
    <3>1. j + n - 1 \in j..Len(t)
        BY <1>1, <1>4, <2>2, <2>5, SMTT(30)
    <3> QED
        BY <2>2, <2>3, <3>1, Zenon
  <2>6. \A x : x \in Range(v) <=> \E i \in j..Len(t) : x = t[i]
    <3>1. \A x : x \in Range(v) <=> \E n \in DOMAIN v : x = v[n]
        BY Zenon DEF Range
    <3> QED
        BY <2>4, <2>5, <3>1, SMTT(30)
  <2> QED
      BY <2>6, Zenon DEF v
<1>8. \A x : x \in Upto(u, k) <=> \E i \in 1..k - 1 : x = u[i]
  <2>1. k \in 1..Len(u) + 1
      BY <1>1, <1>2
  <2> QED
      BY <1>0, <2>1, UptoFacts, ZenonT(40)
<1>9. ASSUME NEW x \in B PROVE x \in Range(Kept(t, f)) <=> x \notin Upto(u, k)
  <2>1. PICK i \in 1..Len(t) : x = t[i]
      BY <1>1, <1>3, <1>9, Zenon DEF Range
  <2>2. x = u[Len(s) + i] /\ Len(s) + i \in 1..Len(u)
      BY <1>1, <2>1
  <2>3. x \in Upto(u, k) <=> Len(s) + i \in 1..k - 1
    <3>1. ASSUME NEW n \in 1..k - 1, x = u[n] PROVE n = Len(s) + i
      <4>1. n \in DOMAIN u /\ Len(s) + i \in DOMAIN u
          BY <1>1, <1>2, <1>3, <2>2, <3>1
      <4> QED
          BY <1>3, <2>2, <3>1, <4>1, Zenon DEF IsInjective
    <3> QED
        BY <1>8, <2>2, <3>1, Zenon
  <2>4. x \in Range(Kept(t, f)) <=> i \in j..Len(t)
    <3>1. ASSUME NEW n \in j..Len(t), x = t[n] PROVE n = i
      <4>1. n \in DOMAIN t /\ i \in DOMAIN t
          BY <1>1, <1>4, <2>1, <3>1
      <4> QED
          BY <1>3, <2>1, <3>1, <4>1, Zenon DEF IsInjective
    <3> QED
        BY <1>5, <1>7, <2>1, <3>1, Zenon
  <2> QED
      BY <1>1, <1>4, <1>6, <2>1, <2>3, <2>4
<1> QED
    BY <1>9, Zenon DEF u, f

\* u is s with t after it, and they have nothing in common.
Joined(u, s, t, A, B) == u = s \o t /\ Distinct(s, A) /\ Distinct(t, B) /\ A \cap B = {}

\* The first of the two lemmas in these words.
LEMMA JoinedFirst ==
    ASSUME NEW u, NEW s, NEW t, NEW A, NEW B, Joined(u, s, t, A, B), NEW k \in 1..Len(u), u[k] \in A
    PROVE  k \in 1..Len(s) /\ u[k] = s[k] /\ Upto(u, k) = Upto(s, k)
    BY FirstPart DEF Joined

\* The second of the two.
LEMMA JoinedTail ==
    ASSUME NEW u, NEW s, NEW t, NEW A, NEW B, Joined(u, s, t, A, B), NEW k \in 1..Len(u), u[k] \in B
    PROVE  \A x \in B : x \in Range(Kept(t, u[k])) <=> x \notin Upto(u, k)
    BY KeptTail, Zenon DEF Joined

\* A list with nothing that failed is kept.
LEMMA KeptWhole ==
    ASSUME NEW t, NEW f, f \notin Range(t)
    PROVE  Kept(t, f) = t
    BY Zenon DEF Kept

\* a is a head and four lists, all different.
Laid(a, h, l1, l2, l3, l4, H, L1, L2, L3, L4) ==
    /\ a = h \o l1 \o l2 \o l3 \o l4
    /\ Distinct(h, H) /\ Distinct(l1, L1) /\ Distinct(l2, L2) /\ Distinct(l3, L3) /\
         Distinct(l4, L4)
    /\ H \cap L1 = {} /\ (H \cup L1) \cap L2 = {} /\ (H \cup L1 \cup L2) \cap L3 = {}
    /\ (H \cup L1 \cup L2 \cup L3) \cap L4 = {}

\* What is left in the lists and what came before position k cover all, and if
\* position k is in the head or in the first list they are disjoint.
InOrder(a, l1, l2, l3, l4, H, L1, L2, L3, L4) ==
    /\ Distinct(a, H \cup L1 \cup L2 \cup L3 \cup L4)
    /\ \A k \in 1..Len(a) :
         /\ a[k] \in (H \cup L1 \cup L2 \cup L3 \cup L4) \ Upto(a, k)
         /\ \A x \in L1 : x \in Range(Kept(l1, a[k])) \/ x \in Upto(a, k)
         /\ \A x \in L2 : x \in Range(Kept(l2, a[k])) \/ x \in Upto(a, k)
         /\ \A x \in L3 : x \in Range(Kept(l3, a[k])) \/ x \in Upto(a, k)
         /\ \A x \in L4 : x \in Range(Kept(l4, a[k])) \/ x \in Upto(a, k)
         /\ a[k] \in H \cup L1 => Upto(a, k) \cap (L2 \cup L3 \cup L4) = {}
         /\ a[k] \in H => Upto(a, k) \cap L1 = {}
         /\ a[k] \in L1 => \A x \in L1 : x \in Range(Kept(l1, a[k])) <=> x \notin Upto(a, k)

\* The order of the attempts gives this, for a failure at any position.
LEMMA ReleaseOrder ==
    ASSUME NEW H, NEW L1, NEW L2, NEW L3, NEW L4, NEW h, NEW l1, NEW l2, NEW l3, NEW l4,
           NEW a, Laid(a, h, l1, l2, l3, l4, H, L1, L2, L3, L4)
    PROVE  InOrder(a, l1, l2, l3, l4, H, L1, L2, L3, L4)
<1> USE DEF Laid
<1> DEFINE s1 == h \o l1   S1 == H \cup L1
           s2 == s1 \o l2  S2 == S1 \cup L2
           s3 == s2 \o l3  S3 == S2 \cup L3
           s4 == s3 \o l4  S4 == S3 \cup L4
<1>s. s1 = h \o l1 /\ s2 = s1 \o l2 /\ s3 = s2 \o l3 /\ s4 = s3 \o l4 /\ a = s4
    BY Zenon
<1>S. /\ S1 = H \cup L1 /\ S2 = S1 \cup L2 /\ S3 = S2 \cup L3 /\ S4 = S3 \cup L4
      /\ S4 = H \cup L1 \cup L2 \cup L3 \cup L4
    BY Zenon
<1>1. Distinct(s1, S1)
    BY DistinctConcat, Zenon
<1>d. S1 \cap L2 = {} /\ S2 \cap L3 = {} /\ S3 \cap L4 = {}
    BY Zenon
<1> HIDE DEF s1, S1
<1>2. Distinct(s2, S2)
    BY <1>1, <1>d, DistinctConcat, Zenon
<1> HIDE DEF s2, S2
<1>3. Distinct(s3, S3)
    BY <1>2, <1>d, DistinctConcat, Zenon
<1> HIDE DEF s3, S3
<1>4. Distinct(s4, S4)
    BY <1>3, <1>d, DistinctConcat, Zenon
<1> HIDE DEF s4, S4
<1>j. /\ Joined(s1, h, l1, H, L1) /\ Joined(s2, s1, l2, S1, L2)
      /\ Joined(s3, s2, l3, S2, L3) /\ Joined(s4, s3, l4, S3, L4)
    BY <1>s, <1>1, <1>2, <1>3, <1>d, Zenon DEF Joined
<1>5. ASSUME NEW k \in 1..Len(a)
      PROVE  /\ a[k] \in S4 \ Upto(a, k)
             /\ \A x \in L1 : x \in Range(Kept(l1, a[k])) \/ x \in Upto(a, k)
             /\ \A x \in L2 : x \in Range(Kept(l2, a[k])) \/ x \in Upto(a, k)
             /\ \A x \in L3 : x \in Range(Kept(l3, a[k])) \/ x \in Upto(a, k)
             /\ \A x \in L4 : x \in Range(Kept(l4, a[k])) \/ x \in Upto(a, k)
             /\ a[k] \in H \cup L1 => Upto(a, k) \cap (L2 \cup L3 \cup L4) = {}
             /\ a[k] \in H => Upto(a, k) \cap L1 = {}
             /\ a[k] \in L1 => \A x \in L1 : x \in Range(Kept(l1, a[k])) <=> x \notin Upto(a, k)
  <2> DEFINE f == a[k]
             d == Upto(a, k)
  <2>0. k \in 1..Len(s4) /\ f = s4[k] /\ d = Upto(s4, k)
      BY <1>s, <1>5, Zenon
  <2> HIDE DEF f, d
  <2>r. Range(l1) = L1 /\ Range(l2) = L2 /\ Range(l3) = L3 /\ Range(l4) = L4
      BY Zenon DEF Distinct
  <2>k. \A t : f \notin Range(t) => Kept(t, f) = t
      BY KeptWhole, Zenon
  <2>1. f \in S4 \ d
    <3>1. k \in 1..Len(s4) + 1 /\ k <= Len(s4)
        BY <1>4, <2>0 DEF Distinct
    <3> QED
        BY <1>4, <2>0, <3>1, UptoFacts, Zenon
  <2>4. f \in L4 => \A x \in L4 : x \in Range(Kept(l4, f)) <=> x \notin d
      BY <1>j, <1>S, <2>0, JoinedTail, Zenon
  <2>5. f \in S3 => k \in 1..Len(s3) /\ f = s3[k] /\ d = Upto(s3, k)
      BY <1>j, <1>S, <2>0, JoinedFirst
  <2>6. f \in L3 => \A x \in L3 : x \in Range(Kept(l3, f)) <=> x \notin d
      BY <1>j, <1>S, <2>5, JoinedTail
  <2>7. f \in S2 => k \in 1..Len(s2) /\ f = s2[k] /\ d = Upto(s2, k)
      BY <1>j, <1>S, <2>5, JoinedFirst
  <2>8. f \in L2 => \A x \in L2 : x \in Range(Kept(l2, f)) <=> x \notin d
      BY <1>j, <1>S, <2>7, JoinedTail, SMTT(30)
  <2>9. f \in S1 => k \in 1..Len(s1) /\ f = s1[k] /\ d = Upto(s1, k)
      BY <1>j, <1>S, <2>7, JoinedFirst
  <2>10. f \in L1 => \A x \in L1 : x \in Range(Kept(l1, f)) <=> x \notin d
      BY <1>j, <1>S, <2>9, JoinedTail, SMTT(30)
  <2>11. f \in S1 => d \subseteq S1
    <3> SUFFICES ASSUME f \in S1 PROVE d \subseteq S1
        BY Zenon
    <3>1. k \in 1..Len(s1) + 1
        BY <1>1, <2>9 DEF Distinct
    <3> QED
        BY <1>1, <2>9, <3>1, UptoFacts
  <2>12. f \in H => d \subseteq H
    <3> SUFFICES ASSUME f \in H PROVE d \subseteq H
        BY Zenon
    <3>1. k \in 1..Len(h) /\ d = Upto(h, k)
        BY <1>j, <1>S, <2>9, JoinedFirst
    <3>2. k \in 1..Len(h) + 1
        BY <3>1 DEF Distinct
    <3> QED
        BY <3>1, <3>2, UptoFacts, Zenon
  <2>13. f \in H \cup L1 => d \cap (L2 \cup L3 \cup L4) = {}
      BY <1>S, <2>11, Zenon
  <2>14. f \in H => d \cap L1 = {}
      BY <2>12, Zenon
  <2>15. /\ \A x \in L1 : x \in Range(Kept(l1, f)) \/ x \in d
         /\ \A x \in L2 : x \in Range(Kept(l2, f)) \/ x \in d
         /\ \A x \in L3 : x \in Range(Kept(l3, f)) \/ x \in d
         /\ \A x \in L4 : x \in Range(Kept(l4, f)) \/ x \in d
      BY <2>r, <2>k, <2>4, <2>6, <2>8, <2>10, Zenon
  <2> QED
      BY <2>1, <2>10, <2>13, <2>14, <2>15, Zenon DEF f, d
<1>6. Distinct(a, H \cup L1 \cup L2 \cup L3 \cup L4)
    BY <1>s, <1>S, <1>4, Zenon
<1> QED
    BY <1>S, <1>5, <1>6, Zenon DEF InOrder
-----------------------------------------------------------------------------
(* releaseResources.                                                        *)

\* What it attempts before it comes to the lists.
First(r) ==
    (IF r.combined THEN {Overlay} ELSE {})
    \cup (IF DeleteStateSupported /\ ~r.stateDeleted THEN {GuestState} ELSE {})
    \cup ({r.scratch} \ {None})
All(r) == First(r) \cup Range(r.ro) \cup Range(r.scsi) \cup Range(r.plan9) \cup Range(r.devices)

\* A list has no repetitions, and neither has what Kept leaves of it.
LEMMA SublistFacts ==
    ASSUME NEW list, NEW l \in Sublists(list), NEW f
    PROVE  /\ Distinct(l, Range(l)) /\ Range(l) \subseteq Range(list)
           /\ Kept(l, f) \in Sublists(list) /\ Range(Kept(l, f)) \subseteq Range(l)
<1>1. l \in Seq(Range(list)) /\ IsInjective(l)
    BY Zenon DEF Sublists
<1>2. Range(l) \subseteq Range(list)
  <2> DEFINE R == Range(list)
  <2>1. \A i \in DOMAIN l : l[i] \in R
      BY <1>1
  <2> HIDE DEF R
  <2>2. Range(l) \subseteq R
      BY <2>1, Zenon DEF Range
  <2> QED
      BY <2>2, Zenon DEF R
<1>3. l \in Seq(Range(l))
  <2>1. Len(l) \in Nat /\ DOMAIN l = 1..Len(l) /\ l = [i \in 1..Len(l) |-> l[i]]
      BY <1>1
  <2>2. \A i \in 1..Len(l) : l[i] \in Range(l)
      BY <2>1, Zenon DEF Range
  <2> QED
      BY <2>1, <2>2
<1>4. Distinct(l, Range(l))
    BY <1>1, <1>3, Zenon DEF Distinct
<1>5. CASE f \notin Range(l)
    BY <1>2, <1>4, <1>5, KeptWhole, Zenon
<1>6. CASE f \in Range(l)
  <2> DEFINE j == CHOOSE i \in DOMAIN l : l[i] = f
             v == SubSeq(l, j, Len(l))
  <2>1. j \in DOMAIN l
      BY <1>6, Zenon DEF Range
  <2>2. Kept(l, f) = v
      BY <1>6, Zenon DEF Kept
  <2> HIDE DEF j
  <2>3. j \in 1..Len(l) /\ Len(l) \in Nat
      BY <1>1, <2>1
  <2>4. /\ v \in Seq(Range(list)) /\ Len(v) = Len(l) - j + 1 /\ DOMAIN v = 1..Len(v)
        /\ \A i \in 1..Len(v) : v[i] = l[j + i - 1]
      BY <1>1, <2>3
  <2> HIDE DEF v
  <2>5. \A i \in DOMAIN v : j + i - 1 \in DOMAIN l /\ v[i] = l[j + i - 1]
      BY <1>1, <2>3, <2>4
  <2>6. IsInjective(v)
    <3> SUFFICES ASSUME NEW m \in DOMAIN v, NEW n \in DOMAIN v, v[m] = v[n] PROVE m = n
        BY Zenon DEF IsInjective
    <3>1. j + m - 1 = j + n - 1
        BY <1>1, <2>5, Zenon DEF IsInjective
    <3> QED
        BY <2>3, <2>4, <3>1, SMTT(30)
  <2>7. Range(v) \subseteq Range(l)
      BY <2>5, Zenon DEF Range
  <2> QED
      BY <1>2, <1>4, <2>2, <2>4, <2>6, <2>7, Zenon DEF Sublists
<1> QED
    BY <1>5, <1>6, Zenon

\* The lists and what comes before them have nothing in common.
LEMMA ListsDisjoint ==
    ASSUME NEW r \in Resources
    PROVE  /\ First(r) \cap Range(r.ro) = {}
           /\ (First(r) \cup Range(r.ro)) \cap Range(r.scsi) = {}
           /\ (First(r) \cup Range(r.ro) \cup Range(r.scsi)) \cap Range(r.plan9) = {}
           /\ (First(r) \cup Range(r.ro) \cup Range(r.scsi) \cup
                Range(r.plan9)) \cap Range(r.devices) = {}
           /\ None \notin All(r) /\ Known(r) \subseteq Reservations
           /\ All(r) = First(r) \cup Known(r)
<1>1. /\ r.ro \in Sublists(RoLayers) /\ r.scsi \in Sublists(Disks) /\ r.plan9 \in Sublists(Shares)
      /\ r.devices \in Sublists(Devices) /\ r.scratch \in {Scratch, None}
    BY Zenon DEF Resources
<1>2. /\ Range(r.ro) \subseteq Range(RoLayers) /\ Range(r.scsi) \subseteq Range(Disks)
      /\ Range(r.plan9) \subseteq Range(Shares) /\ Range(r.devices) \subseteq Range(Devices)
    BY <1>1, SublistFacts, Zenon
<1> DEFINE A == Range(RoLayers)  B == Range(Disks)  C == Range(Shares)  D == Range(Devices)
<1>3. /\ Scratch \notin A \cup B \cup C \cup D
      /\ A \cap B = {} /\ A \cap C = {} /\ A \cap D = {} /\ B \cap C = {} /\ B \cap D = {} /\
           C \cap D = {}
    BY ReservationsAssumption, Zenon
<1>4. Reservations = A \cup {Scratch} \cup B \cup C \cup D
    BY Zenon DEF Reservations
<1>5. {None, Overlay, GuestState} \cap Reservations = {} /\ None \notin {Overlay, GuestState}
    BY ReservationsAssumption, Zenon
<1>6. First(r) \subseteq {Overlay, GuestState, Scratch} /\ None \notin First(r)
    BY <1>1, <1>5, Zenon DEF First
<1>7. Known(r) = ({r.scratch} \ {None}) \cup Range(r.ro) \cup Range(r.scsi) \cup
        Range(r.plan9) \cup Range(r.devices)
    BY Zenon DEF Known
<1>8. All(r) = First(r) \cup Range(r.ro) \cup Range(r.scsi) \cup Range(r.plan9) \cup
        Range(r.devices)
    BY Zenon DEF All
<1>9. {r.scratch} \ {None} \subseteq First(r)
    BY Zenon DEF First
<1> HIDE DEF A, B, C, D
<1>10. /\ First(r) \cap Range(r.ro) = {}
       /\ (First(r) \cup Range(r.ro)) \cap Range(r.scsi) = {}
       /\ (First(r) \cup Range(r.ro) \cup Range(r.scsi)) \cap Range(r.plan9) = {}
       /\ (First(r) \cup Range(r.ro) \cup Range(r.scsi) \cup
            Range(r.plan9)) \cap Range(r.devices) = {}
    BY <1>2, <1>3, <1>4, <1>5, <1>6 DEF A, B, C, D
<1>11. None \notin All(r) /\ Known(r) \subseteq Reservations
    BY <1>1, <1>2, <1>4, <1>5, <1>6, <1>7, <1>8, Zenon DEF A, B, C, D
<1>12. All(r) = First(r) \cup Known(r)
    BY <1>7, <1>8, <1>9, Zenon
<1> QED
    BY <1>10, <1>11, <1>12, Zenon

\* The attempts, all different, in the order of ReleaseOrder.
LEMMA AttemptsOrder ==
    ASSUME NEW r \in Resources
    PROVE  \E h : Distinct(h, First(r)) /\ Attempts(r) = h \o r.ro \o r.scsi \o r.plan9 \o r.devices
<1> DEFINE p1 == IF r.combined THEN <<Overlay>> ELSE <<>>
           p2 == IF DeleteStateSupported /\ ~r.stateDeleted THEN <<GuestState>> ELSE <<>>
           p3 == IF r.scratch # None THEN <<r.scratch>> ELSE <<>>
           A1 == IF r.combined THEN {Overlay} ELSE {}
           A2 == IF DeleteStateSupported /\ ~r.stateDeleted THEN {GuestState} ELSE {}
           A3 == {r.scratch} \ {None}
<1>1. Distinct(p1, A1) /\ Distinct(p2, A2)
    BY DistinctShort, Zenon
<1>2. Distinct(p3, A3)
  <2>1. CASE r.scratch = None
    <3>1. A3 = {} /\ p3 = <<>>
        BY <2>1, Zenon
    <3> QED
        BY <3>1, DistinctShort, Zenon
  <2>2. CASE r.scratch # None
    <3>1. A3 = {r.scratch} /\ p3 = <<r.scratch>>
        BY <2>2, Zenon
    <3> QED
        BY <3>1, DistinctShort, Zenon
  <2> QED
      BY <2>1, <2>2, Zenon
<1>3. A1 \cap A2 = {}
    BY Zenon DEF Overlay, GuestState
<1>4. (A1 \cup A2) \cap A3 = {}
  <2>1. A1 \cup A2 \subseteq {Overlay, GuestState}
      BY Zenon
  <2>2. A3 \subseteq {Scratch}
      BY Zenon DEF Resources
  <2>3. Scratch \notin {Overlay, GuestState}
      BY ReservationsAssumption, Zenon DEF Reservations
  <2> QED
      BY <2>1, <2>2, <2>3, Zenon
<1>5. First(r) = A1 \cup A2 \cup A3
    BY Zenon DEF First
<1>6. Attempts(r) = p1 \o p2 \o p3 \o r.ro \o r.scsi \o r.plan9 \o r.devices
    BY Zenon DEF Attempts
<1> HIDE DEF p1, p2, p3, A1, A2, A3
<1>7. Distinct(p1 \o p2, A1 \cup A2)
    BY <1>1, <1>3, DistinctConcat, Zenon
<1> DEFINE q == p1 \o p2  Q == A1 \cup A2
<1>8. Distinct(q, Q) /\ Q \cap A3 = {}
    BY <1>4, <1>7, Zenon
<1> HIDE DEF q, Q
<1>9. Distinct(q \o p3, Q \cup A3)
    BY <1>2, <1>8, DistinctConcat, Zenon
<1> QED
    BY <1>5, <1>6, <1>9, Zenon DEF q, Q

\* An outcome o of releaseResources: d was released, and f is what failed.
\* All that is neither released nor kept in a list was not there, and if f is
\* a layer, or comes before the layers, nothing that was released is kept.
Outcome(o, r, w, g, d, f) ==
    /\ d \subseteq All(r) /\ o.res \in Resources
    /\ ~o.err => d = All(r)
    /\ o.err => f \in All(r) \ d /\ MayFail(f, w, g)
    /\ o.res.combined = (r.combined /\ Overlay \notin d)
    /\ o.res.stateDeleted = (r.stateDeleted \/ GuestState \in d)
    /\ o.world = [held |-> IF g THEN w.held ELSE w.held \ d,
                  overlay |-> w.overlay /\ Overlay \notin d,
                  inGuest |-> w.inGuest /\ GuestState \notin d \cup {f}]
    /\ Known(r) \subseteq Known(o.res) \cup d
    /\ Known(o.res) \subseteq Known(r)
    /\ o.err /\ f \in First(r) \cup Range(r.ro) => Known(o.res) \cap d = {}

\* releaseResources stops at the first failure: its outcome is Released at some
\* position, and what that leaves follows from the order of the attempts.
LEMMA ReleaseOutcome ==
    ASSUME NEW r \in Resources, NEW w \in Worlds, NEW g \in BOOLEAN,
           NEW o \in ReleaseResources(r, w, g)
    PROVE  \E d, f : Outcome(o, r, w, g, d, f)
<1> DEFINE a == Attempts(r)
<1>1. PICK k \in 1..Len(a) + 1 : (k <= Len(a) => MayFail(a[k], w, g)) /\ o = Released(r, w, g, k)
    BY Zenon DEF ReleaseResources
<1>2. PICK h : Distinct(h, First(r)) /\ a = h \o r.ro \o r.scsi \o r.plan9 \o r.devices
    BY AttemptsOrder, Zenon
<1>3. /\ r.ro \in Sublists(RoLayers) /\ r.scsi \in Sublists(Disks) /\ r.plan9 \in Sublists(Shares)
      /\ r.devices \in Sublists(Devices) /\ r.scratch \in {Scratch, None}
      /\ r.combined \in BOOLEAN /\ r.stateDeleted \in BOOLEAN
    BY Zenon DEF Resources
<1>4. /\ Distinct(r.ro, Range(r.ro)) /\ Distinct(r.scsi, Range(r.scsi))
      /\ Distinct(r.plan9, Range(r.plan9)) /\ Distinct(r.devices, Range(r.devices))
    BY <1>3, SublistFacts, Zenon
<1> HIDE DEF a
<1>5. Distinct(a, All(r)) /\ \A n \in 1..Len(a) :
        /\ a[n] \in All(r) \ Upto(a, n)
        /\ \A x \in Range(r.ro) : x \in Range(Kept(r.ro, a[n])) \/ x \in Upto(a, n)
        /\ \A x \in Range(r.scsi) : x \in Range(Kept(r.scsi, a[n])) \/ x \in Upto(a, n)
        /\ \A x \in Range(r.plan9) : x \in Range(Kept(r.plan9, a[n])) \/ x \in Upto(a, n)
        /\ \A x \in Range(r.devices) : x \in Range(Kept(r.devices, a[n])) \/ x \in Upto(a, n)
        /\ a[n] \in First(r) \cup Range(r.ro) =>
             Upto(a, n) \cap (Range(r.scsi) \cup Range(r.plan9) \cup Range(r.devices)) = {}
        /\ a[n] \in First(r) => Upto(a, n) \cap Range(r.ro) = {}
        /\ a[n] \in Range(r.ro) =>
             \A x \in Range(r.ro) : x \in Range(Kept(r.ro, a[n])) <=> x \notin Upto(a, n)
  <2>1. /\ First(r) \cap Range(r.ro) = {}
        /\ (First(r) \cup Range(r.ro)) \cap Range(r.scsi) = {}
        /\ (First(r) \cup Range(r.ro) \cup Range(r.scsi)) \cap Range(r.plan9) = {}
        /\ (First(r) \cup Range(r.ro) \cup Range(r.scsi) \cup
             Range(r.plan9)) \cap Range(r.devices) = {}
      BY ListsDisjoint, Zenon
  <2>2. Laid(a, h, r.ro, r.scsi, r.plan9, r.devices, First(r), Range(r.ro), Range(r.scsi),
             Range(r.plan9), Range(r.devices))
      BY <1>2, <1>4, <2>1, Zenon DEF Laid
  <2>3. InOrder(a, r.ro, r.scsi, r.plan9, r.devices, First(r), Range(r.ro), Range(r.scsi),
                Range(r.plan9), Range(r.devices))
      BY <2>2, ReleaseOrder, Zenon
  <2> QED
      BY <2>3, Zenon DEF InOrder, All
<1> DEFINE d == Upto(a, k)
           f == IF k <= Len(a) THEN a[k] ELSE None
<1>6. /\ d \subseteq All(r)
      /\ k = Len(a) + 1 => d = All(r)
      /\ k <= Len(a) => f = a[k] /\ f \in All(r) \ d /\ MayFail(f, w, g)
      /\ k > Len(a) => f = None
      /\ Len(a) \in Nat
  <2>1. d \subseteq All(r) /\ (k = Len(a) + 1 => d = All(r))
      BY <1>5, UptoFacts, Zenon
  <2>2. Len(a) \in Nat
      BY <1>5, SMTT(30) DEF Distinct
  <2> QED
      BY <1>1, <1>5, <2>1, <2>2
<1>7. /\ o.err = (k <= Len(a))
      /\ o.res = [ro |-> Kept(r.ro, f), scratch |-> ScratchLeft(r.scratch, d),
                  scsi |-> Kept(r.scsi, f), plan9 |-> Kept(r.plan9, f),
                    devices |-> Kept(r.devices, f),
                  combined |-> r.combined /\ Overlay \notin d,
                  stateDeleted |-> r.stateDeleted \/ GuestState \in d]
      /\ o.world = [held |-> IF g THEN w.held ELSE w.held \ d,
                    overlay |-> w.overlay /\ Overlay \notin d,
                    inGuest |-> w.inGuest /\ GuestState \notin d \cup {f}]
    BY <1>1, Zenon DEF Released, Upto, a
<1>8. /\ \A x \in Range(r.ro) : x \in Range(Kept(r.ro, f)) \/ x \in d
      /\ \A x \in Range(r.scsi) : x \in Range(Kept(r.scsi, f)) \/ x \in d
      /\ \A x \in Range(r.plan9) : x \in Range(Kept(r.plan9, f)) \/ x \in d
      /\ \A x \in Range(r.devices) : x \in Range(Kept(r.devices, f)) \/ x \in d
  <2>1. CASE k <= Len(a)
    <3>1. k \in 1..Len(a) /\ f = a[k]
        BY <1>6, <2>1
    <3> HIDE DEF f
    <3> QED
        BY <1>5, <3>1, Zenon
  <2>2. CASE k > Len(a)
    <3>1. d = All(r)
        BY <1>6, <2>2, SMTT(30)
    <3> HIDE DEF d, f
    <3> QED
        BY <3>1, Zenon DEF All
  <2> QED
      BY <1>6, <2>1, <2>2, SMTT(30)
<1>9. k <= Len(a) =>
        /\ f \in First(r) \cup Range(r.ro) =>
             d \cap (Range(r.scsi) \cup Range(r.plan9) \cup Range(r.devices)) = {}
        /\ f \in First(r) => d \cap Range(r.ro) = {}
        /\ f \in Range(r.ro) => \A x \in Range(r.ro) : x \in Range(Kept(r.ro, f)) <=> x \notin d
  <2> SUFFICES ASSUME k <= Len(a)
               PROVE  /\ f \in First(r) \cup Range(r.ro) =>
                           d \cap (Range(r.scsi) \cup Range(r.plan9) \cup Range(r.devices)) = {}
                      /\ f \in First(r) => d \cap Range(r.ro) = {}
                      /\ f \in Range(r.ro) =>
                           \A x \in Range(r.ro) : x \in Range(Kept(r.ro, f)) <=> x \notin d
      BY Zenon
  <2>1. k \in 1..Len(a) /\ f = a[k]
      BY <1>6, SMTT(30)
  <2> HIDE DEF f
  <2> QED
      BY <1>5, <2>1, Zenon
<1> HIDE DEF d, f
<1>10. /\ Kept(r.ro, f) \in Sublists(RoLayers) /\ Range(Kept(r.ro, f)) \subseteq Range(r.ro)
       /\ Kept(r.scsi, f) \in Sublists(Disks) /\ Range(Kept(r.scsi, f)) \subseteq Range(r.scsi)
       /\ Kept(r.plan9, f) \in Sublists(Shares) /\ Range(Kept(r.plan9, f)) \subseteq Range(r.plan9)
       /\ Kept(r.devices, f) \in Sublists(Devices) /\
            Range(Kept(r.devices, f)) \subseteq Range(r.devices)
    BY <1>3, SublistFacts
<1>11. ScratchLeft(r.scratch, d) = IF r.scratch \in d THEN None ELSE r.scratch
    BY Zenon DEF ScratchLeft
<1>12. o.res \in Resources
  <2>1. ScratchLeft(r.scratch, d) \in {Scratch, None}
      BY <1>3, <1>11, Zenon
  <2> QED
      BY <1>7, <1>10, <2>1 DEF Resources
<1>13. Known(o.res) = ({ScratchLeft(r.scratch, d)} \ {None}) \cup Range(Kept(r.ro, f))
         \cup Range(Kept(r.scsi, f)) \cup Range(Kept(r.plan9, f)) \cup Range(Kept(r.devices, f))
  <2>1. /\ o.res.ro = Kept(r.ro, f) /\ o.res.scratch = ScratchLeft(r.scratch, d)
        /\ o.res.scsi = Kept(r.scsi, f) /\ o.res.plan9 = Kept(r.plan9, f)
        /\ o.res.devices = Kept(r.devices, f)
      BY <1>7
  <2> QED
      BY <2>1, ZenonT(40) DEF Known
<1>14. Known(r) = ({r.scratch} \ {None}) \cup Range(r.ro) \cup Range(r.scsi) \cup Range(r.plan9)
         \cup Range(r.devices)
    BY Zenon DEF Known
<1>15. Known(r) \subseteq Known(o.res) \cup d
    BY <1>8, <1>11, <1>13, <1>14, Zenon
<1>16. Known(o.res) \subseteq Known(r)
    BY <1>10, <1>11, <1>13, <1>14, Zenon
<1>17. ASSUME k <= Len(a), f \in First(r) \cup Range(r.ro) PROVE Known(o.res) \cap d = {}
  <2>1. Range(Kept(r.ro, f)) \cap d = {}
      BY <1>9, <1>10, <1>17, Zenon
  <2>2. /\ Range(Kept(r.scsi, f)) \cap d = {} /\ Range(Kept(r.plan9, f)) \cap d = {}
        /\ Range(Kept(r.devices, f)) \cap d = {}
      BY <1>9, <1>10, <1>17, Zenon
  <2>3. ({ScratchLeft(r.scratch, d)} \ {None}) \cap d = {}
      BY <1>11, Zenon
  <2> QED
      BY <1>13, <2>1, <2>2, <2>3, Zenon
<1>18. /\ o.res.combined = (r.combined /\ Overlay \notin d)
       /\ o.res.stateDeleted = (r.stateDeleted \/ GuestState \in d)
    BY <1>7
<1>19. (o.err => f \in All(r) \ d /\ MayFail(f, w, g)) /\ (~o.err => d = All(r))
  <2>1. k <= Len(a) \/ k = Len(a) + 1
      BY <1>6
  <2>2. o.err => f \in All(r) \ d /\ MayFail(f, w, g)
      BY <1>6, <1>7, Zenon
  <2>3. ~o.err => d = All(r)
      BY <1>6, <1>7, <2>1, ZenonT(40)
  <2> QED
      BY <2>2, <2>3, Zenon
<1>20. o.err /\ f \in First(r) \cup Range(r.ro) => Known(o.res) \cap d = {}
    BY <1>7, <1>17, Zenon
<1>21. Outcome(o, r, w, g, d, f)
    BY <1>6, <1>7, <1>12, <1>15, <1>16, <1>18, <1>19, <1>20, Zenon DEF Outcome
<1> QED
    BY <1>21, Zenon

\* A release keeps the container's bookkeeping covering what is held, and
\* leaves nothing when it succeeds.
LEMMA ReleaseCovered ==
    ASSUME NEW r \in Resources, NEW w \in Worlds, NEW g \in BOOLEAN,
           NEW o \in ReleaseResources(r, w, g)
    PROVE  /\ o.res \in Resources /\ o.world \in Worlds
           /\ ~g /\ Covered(r, w) => Covered(o.res, o.world)
           /\ ~g /\ Covered(r, w) /\ DeleteStateSupported /\ ~o.err => o.world = Nothing
<1>1. PICK d, f : Outcome(o, r, w, g, d, f)
    BY ReleaseOutcome, Zenon
<1>2. /\ w.held \subseteq Reservations /\ w.overlay \in BOOLEAN /\ w.inGuest \in BOOLEAN
      /\ r.combined \in BOOLEAN /\ r.stateDeleted \in BOOLEAN
    BY Zenon DEF Worlds, Resources
<1>3. /\ o.world.held = IF g THEN w.held ELSE w.held \ d
      /\ o.world.overlay = (w.overlay /\ Overlay \notin d)
      /\ o.world.inGuest = (w.inGuest /\ GuestState \notin d \cup {f})
    BY <1>1, SMTT(30) DEF Outcome
<1>4. o.res \in Resources /\ o.world \in Worlds
  <2>1. o.res \in Resources
      BY <1>1, Zenon DEF Outcome
  <2>2. (IF g THEN w.held ELSE w.held \ d) \in SUBSET Reservations
      BY <1>2, Zenon
  <2> QED
      BY <1>1, <1>2, <2>1, <2>2, SMTT(30) DEF Outcome, Worlds
<1>5. ASSUME ~g, Covered(r, w) PROVE Covered(o.res, o.world)
  <2>1. o.world.held \subseteq Known(o.res)
      BY <1>1, <1>3, <1>5, Zenon DEF Outcome, Covered
  <2>2. o.world.overlay => o.res.combined
      BY <1>1, <1>3, <1>5, Zenon DEF Outcome, Covered
  <2>3. o.world.inGuest => ~o.res.stateDeleted
      BY <1>1, <1>3, <1>5, Zenon DEF Outcome, Covered
  <2> QED
      BY <2>1, <2>2, <2>3, Zenon DEF Covered
<1>6. ASSUME ~g, Covered(r, w), DeleteStateSupported, ~o.err PROVE o.world = Nothing
  <2>1. d = All(r) /\ All(r) = First(r) \cup Known(r)
      BY <1>1, <1>6, ListsDisjoint, Zenon DEF Outcome
  <2>2. o.world.held = {}
      BY <1>3, <1>6, <2>1, Zenon DEF Covered
  <2>3. o.world.overlay = FALSE
      BY <1>2, <1>3, <1>6, <2>1, Zenon DEF Covered, First
  <2>4. o.world.inGuest = FALSE
      BY <1>2, <1>3, <1>6, <2>1, Zenon DEF Covered, First
  <2> QED
      BY <1>1, <1>3, <2>2, <2>3, <2>4, Zenon DEF Outcome, Nothing
<1> QED
    BY <1>4, <1>5, <1>6, Zenon

\* When no attempt would fail for want of its resource, a release can succeed;
\* and if only the overlay and the layers may fail, a release that failed can
\* be retried.
LEMMA ReleaseRetried ==
    ASSUME NEW r \in Resources, NEW w \in Worlds, NEW g \in BOOLEAN, Releasable(r, w, g)
    PROVE  /\ \E o \in ReleaseResources(r, w, g) : ~o.err
           /\ LayersFlaky => \A o \in ReleaseResources(r, w, g) :
                o.err => Releasable(o.res, o.world, g)
<1>1. \A x \in All(r) : MaySucceed(x, w, g)
  <2> TAKE x \in All(r)
  <2>1. All(r) = First(r) \cup Known(r)
      BY ListsDisjoint, Zenon
  <2>2. x \in Known(r) \/ x \in {Overlay, GuestState}
      BY <2>1, Zenon DEF First, Known
  <2>3. CASE x \in Known(r)
    <3>1. x \in w.held /\ x \notin {Overlay, GuestState}
        BY <2>3, ListsDisjoint, ReservationsAssumption, Zenon DEF Releasable
    <3> QED
        BY <3>1, Zenon DEF MaySucceed
  <2>4. CASE x = Overlay
      BY <2>4, Zenon DEF MaySucceed, Overlay, GuestState
  <2>5. CASE x = GuestState
    <3>1. GuestState \notin Known(r)
        BY ListsDisjoint, ReservationsAssumption, Zenon
    <3>2. DeleteStateSupported /\ ~r.stateDeleted
        BY <2>1, <2>5, <3>1, Zenon DEF First, Known, Overlay, GuestState
    <3>3. GuestState # Overlay
        BY Zenon DEF GuestState, Overlay
    <3> QED
        BY <2>5, <3>2, <3>3, Zenon DEF MaySucceed, Releasable
  <2> QED
      BY <2>2, <2>3, <2>4, <2>5, Zenon
<1>2. \E o \in ReleaseResources(r, w, g) : ~o.err
  <2> DEFINE a == Attempts(r)
             n == Len(a) + 1
  <2>1. PICK h : Distinct(h, First(r)) /\ a = h \o r.ro \o r.scsi \o r.plan9 \o r.devices
      BY AttemptsOrder, Zenon
  <2>2. /\ Distinct(r.ro, Range(r.ro)) /\ Distinct(r.scsi, Range(r.scsi))
        /\ Distinct(r.plan9, Range(r.plan9)) /\ Distinct(r.devices, Range(r.devices))
      BY SublistFacts, Zenon DEF Resources
  <2> HIDE DEF a
  <2>3. Laid(a, h, r.ro, r.scsi, r.plan9, r.devices, First(r), Range(r.ro), Range(r.scsi),
             Range(r.plan9), Range(r.devices))
      BY <2>1, <2>2, ListsDisjoint, Zenon DEF Laid
  <2>4. InOrder(a, r.ro, r.scsi, r.plan9, r.devices, First(r), Range(r.ro), Range(r.scsi),
                Range(r.plan9), Range(r.devices))
      BY <2>3, ReleaseOrder, Zenon
  <2>5. Distinct(a, All(r))
      BY <2>4, Zenon DEF InOrder, All
  <2>6. Len(a) \in Nat /\ \A i \in 1..Len(a) : a[i] \in All(r)
      BY <2>5 DEF Distinct
  <2>7. n \in 1..Len(a) + 1 /\ ~(n <= Len(a)) /\ \A i \in 1..n - 1 : MaySucceed(a[i], w, g)
      BY <1>1, <2>6
  <2>8. Released(r, w, g, n) \in ReleaseResources(r, w, g)
      BY <2>7, Zenon DEF ReleaseResources, a
  <2>9. ~Released(r, w, g, n).err
      BY <2>7, Zenon DEF Released, a
  <2> QED
      BY <2>8, <2>9, Zenon
<1>3. ASSUME LayersFlaky, NEW o \in ReleaseResources(r, w, g), o.err
      PROVE  Releasable(o.res, o.world, g)
  <2>1. PICK d, f : Outcome(o, r, w, g, d, f)
      BY ReleaseOutcome, Zenon
  <2>2. f \in All(r) /\ f \in Flaky /\ ~g
      BY <1>1, <1>3, <2>1, Zenon DEF Outcome, MayFail
  <2>3. f \in {Overlay, Scratch} \cup Range(RoLayers)
      BY <1>3, <2>2, Zenon DEF LayersFlaky
  <2>4. f \in First(r) \cup Range(r.ro)
    <3> DEFINE M == Range(Disks) \cup Range(Shares) \cup Range(Devices)
    <3>1. Range(r.scsi) \subseteq Range(Disks) /\ Range(r.plan9) \subseteq Range(Shares)
          /\ Range(r.devices) \subseteq Range(Devices)
        BY SublistFacts, Zenon DEF Resources
    <3>2. Range(RoLayers) \cap M = {} /\ Scratch \notin M /\ M \subseteq Reservations
        BY ReservationsAssumption, Zenon DEF Reservations
    <3>3. Overlay \notin Reservations
        BY ReservationsAssumption, Zenon
    <3> HIDE DEF M
    <3>4. f \notin M
        BY <2>3, <3>2, <3>3, Zenon
    <3> QED
        BY <2>2, <3>1, <3>4, Zenon DEF All, M
  <2>5. Known(o.res) \cap d = {} /\ Known(o.res) \subseteq Known(r)
      BY <1>3, <2>1, <2>4, Zenon DEF Outcome
  <2>6. o.world.held = w.held \ d /\ o.world.inGuest = (w.inGuest /\ GuestState \notin d \cup {f})
      BY <2>1, <2>2 DEF Outcome
  <2>7. Known(o.res) \subseteq o.world.held
      BY <2>5, <2>6, Zenon DEF Releasable
  <2>8. f # GuestState
      BY <2>3, ReservationsAssumption, Zenon DEF Reservations, Overlay, GuestState
  <2>9. ASSUME DeleteStateSupported, ~o.res.stateDeleted PROVE o.world.inGuest
    <3>1. ~r.stateDeleted /\ GuestState \notin d
        BY <2>1, <2>9, Zenon DEF Outcome
    <3>2. w.inGuest
        BY <2>2, <2>9, <3>1, Zenon DEF Releasable
    <3> QED
        BY <2>6, <2>8, <3>1, <3>2, Zenon
  <2> QED
      BY <2>7, <2>9, Zenon DEF Releasable
<1> QED
    BY <1>2, <1>3, Zenon
-----------------------------------------------------------------------------
(* Create.                                                                 *)

\* A prefix of what Create was asked for, and the empty list.
LEMMA PrefixSublist ==
    ASSUME NEW list \in Seq(Reservations), IsInjective(list), NEW n \in 0..Len(list)
    PROVE  SubSeq(list, 1, n) \in Sublists(list) /\ <<>> \in Sublists(list)
<1> DEFINE v == SubSeq(list, 1, n)
           R == Range(list)
<1>1. Len(list) \in Nat /\ DOMAIN list = 1..Len(list)
    OBVIOUS
<1>2. /\ v = [i \in 1..n |-> list[i]] /\ DOMAIN v = 1..n /\ n \in Nat
      /\ \A i \in 1..n : v[i] = list[i]
    BY <1>1
<1>3. \A i \in 1..n : list[i] \in R /\ i \in DOMAIN list
    BY <1>1 DEF Range
<1> HIDE DEF R
<1>4. v \in Seq(R)
    BY <1>2, <1>3
<1> HIDE DEF v
<1>5. IsInjective(v)
    BY <1>2, <1>3, Zenon DEF IsInjective
<1>6. <<>> \in Seq(R) /\ IsInjective(<<>>)
    BY DEF IsInjective
<1> QED
    BY <1>4, <1>5, <1>6, Zenon DEF Sublists, v, R

\* What Create has allocated, wherever it stops.
LEMMA AllocatedFacts ==
    /\ \A p \in Progress : Allocated(p) \in Resources /\ Allocated(p).stateDeleted = FALSE
    /\ Complete \in Progress
<1>0. /\ RoLayers \in Seq(Reservations) /\ IsInjective(RoLayers)
      /\ Disks \in Seq(Reservations) /\ IsInjective(Disks)
      /\ Shares \in Seq(Reservations) /\ IsInjective(Shares)
      /\ Devices \in Seq(Reservations) /\ IsInjective(Devices)
    BY ReservationsAssumption, Zenon
<1>1. ASSUME NEW p \in Progress
      PROVE  Allocated(p) \in Resources /\ Allocated(p).stateDeleted = FALSE
  <2>1. /\ p.ro \in 0..Len(RoLayers) /\ p.scsi \in 0..Len(Disks) /\ p.plan9 \in 0..Len(Shares)
        /\ p.devices \in 0..Len(Devices) /\ p.combined \in BOOLEAN
      BY <1>1, Zenon DEF Progress
  <2>2. /\ SubSeq(RoLayers, 1, p.ro) \in Sublists(RoLayers)
        /\ SubSeq(Disks, 1, p.scsi) \in Sublists(Disks)
        /\ SubSeq(Shares, 1, p.plan9) \in Sublists(Shares)
        /\ SubSeq(Devices, 1, p.devices) \in Sublists(Devices)
      BY <1>0, <2>1, PrefixSublist, Zenon
  <2>3. (IF p.scratch THEN Scratch ELSE None) \in {Scratch, None}
      BY Zenon
  <2> QED
      BY <2>1, <2>2, <2>3, Zenon DEF Allocated, Resources
<1>2. Complete \in Progress
  <2>1. Len(RoLayers) \in Nat /\ Len(Disks) \in Nat /\ Len(Shares) \in Nat /\ Len(Devices) \in Nat
      BY <1>0
  <2> QED
      BY <2>1 DEF Complete, Progress
<1> QED
    BY <1>1, <1>2, Zenon

\* What is held right after an allocation.
LEMMA HoldingFacts ==
    ASSUME NEW r \in Resources, r.stateDeleted = FALSE, NEW g \in BOOLEAN
    PROVE  /\ Holding(r, g) \in Worlds /\ Covered(r, Holding(r, g))
           /\ \A gone_ \in BOOLEAN : Releasable(r, Holding(r, TRUE), gone_)
<1>1. Known(r) \subseteq Reservations
    BY ListsDisjoint, Zenon
<1>2. r.combined \in BOOLEAN
    BY Zenon DEF Resources
<1>3. \A b \in BOOLEAN : /\ Holding(r, b).held = Known(r) /\ Holding(r, b).overlay = r.combined
                         /\ Holding(r, b).inGuest = b
    BY Zenon DEF Holding
<1>4. Holding(r, g) \in Worlds
    BY <1>1, <1>2, Zenon DEF Holding, Worlds
<1> QED
    BY <1>3, <1>4, Zenon DEF Covered, Releasable

-----------------------------------------------------------------------------
-----------------------------------------------------------------------------
(* The inductive invariants.                                                *)

ContainerStates ==
    {"NotCreated", "Created", "Running", "Stopped", "Invalid", "SourceMigrating",
     "DestinationMigrating"}
ProcessStates ==
    {"None", "NotCreated", "Created", "Running", "Terminated", "SourceMigrating",
     "DestinationMigrating"}
ProcessRecords == [state : ProcessStates, listed : BOOLEAN, exited : BOOLEAN]

LifeTypeOK ==
    /\ state \in ContainerStates
    /\ handle \in BOOLEAN /\ terminated \in BOOLEAN
    /\ procs \in [Processes -> ProcessRecords]
    /\ watch \in [Processes -> {"none", "waiting", "recorded", "publishing"}]
    /\ initWatch \in {"none", "waiting", "publishing"}
    /\ execs \in [Execs -> {"none", "creating"}]
    /\ deleters \in [Deleters -> [pc : {"none", "waiting", "deleting"}, id : Processes]]
    /\ exits \in [Processes -> Nat]
    /\ panicked \in BOOLEAN /\ gone \in BOOLEAN

\* A process, its watcher and its event: the watcher is past the record of the
\* exit before exitedCh is closed, and it publishes after that.
SoundProcess(p, w, n) ==
    /\ p.state = "None" => ~p.listed
    /\ p.exited => p.state = "Terminated"
    /\ w = "waiting" => p.state \in {"Running", "SourceMigrating"}
    /\ w = "recorded" => p.state = "Terminated" /\ ~p.exited
    /\ w = "publishing" => p.exited
    /\ n > 0 => n = 1 /\ w = "none" /\ p.exited

\* The init process and the container.
SoundInit ==
    LET p == procs[Init0] IN
    /\ watch[Init0] # "publishing"
    /\ state \in {"Running", "SourceMigrating"} <=> initWatch = "waiting"
    /\ state = "NotCreated" => p.state = "None"
    /\ state = "DestinationMigrating" => p.state = "DestinationMigrating"
    /\ state = "Created" => p.state \in {"Created", "Terminated"}
    /\ state = "Running" => p.state \in {"Running", "Terminated"}
    /\ state = "SourceMigrating" => p.state \in {"SourceMigrating", "Terminated"} /\ p.listed
    /\ initWatch = "publishing" \/ exits[Init0] > 0 =>
         state = "Stopped" /\ terminated /\ ~handle /\ p.exited /\ watch[Init0] = "none"
    /\ initWatch # "none" => exits[Init0] = 0

LifeInv ==
    /\ LifeTypeOK
    /\ ~panicked
    /\ \A p \in Processes : SoundProcess(procs[p], watch[p], exits[p])
    /\ SoundInit
    /\ state = "SourceMigrating" => \A e \in Execs : ~procs[e].listed

ResInv ==
    /\ res \in Resources /\ world \in Worlds
    /\ ~gone => Covered(res, world)

RetryInv == procs[Init0].listed => Releasable(res, world, gone)

-----------------------------------------------------------------------------
(* The container and its processes.                                         *)

\* The container starts empty, or imported with an init process to resume.
LEMMA LifeInit == Init => LifeInv
<1> SUFFICES ASSUME Init PROVE LifeInv
    BY Zenon
<1> USE ExecsAssumption
<1>1. Init0 \in Processes
    BY Zenon DEF Processes
<1>2. LifeTypeOK /\ ~panicked
  <2>1. \A s \in ProcessStates : Proc(s) \in ProcessRecords
      BY Zenon DEF Proc, ProcessRecords
  <2>2. procs \in [Processes -> ProcessRecords] /\ state \in ContainerStates /\ handle \in BOOLEAN
      BY <2>1, Zenon DEF Init, Fresh, Imported, ProcessStates, ContainerStates
  <2> QED
      BY <1>1, <2>2, Zenon DEF Init, LifeTypeOK
<1>3. \A p \in Processes :
        /\ procs[p].state \in {"None", "DestinationMigrating"} /\ procs[p].exited = FALSE
        /\ procs[p].state = "None" => ~procs[p].listed
        /\ watch[p] = "none" /\ exits[p] = 0
  <2>1. /\ Proc("None").state = "None" /\ Proc("None").exited = FALSE /\ ~Proc("None").listed
        /\ Proc("DestinationMigrating").state = "DestinationMigrating"
        /\ Proc("DestinationMigrating").exited = FALSE
      BY Zenon DEF Proc
  <2>2. \A p \in Processes : procs[p] \in {Proc("None"), Proc("DestinationMigrating")}
      BY Zenon DEF Init, Fresh, Imported
  <2> QED
      BY <2>1, <2>2, Zenon DEF Init
<1>4. \A p \in Processes : SoundProcess(procs[p], watch[p], exits[p])
    BY <1>3 DEF SoundProcess
<1>5. \/ state = "NotCreated" /\ procs[Init0].state = "None"
      \/ state = "DestinationMigrating" /\ procs[Init0].state = "DestinationMigrating"
  <2>1. /\ Proc("None").state = "None"
        /\ Proc("DestinationMigrating").state = "DestinationMigrating"
      BY Zenon DEF Proc
  <2> QED
      BY <1>1, <2>1, Zenon DEF Init, Fresh, Imported
<1>6. SoundInit /\ state # "SourceMigrating"
    BY <1>1, <1>3, <1>5 DEF Init, SoundInit
<1> QED
    BY <1>2, <1>4, <1>6, Zenon DEF LifeInv

\* A step of the watcher of a process.
LEMMA LifeWatching ==
    ASSUME LifeInv, NEW p \in Processes, Watching(p)
    PROVE  LifeInv'
<1> USE ExecsAssumption DEF LifeInv
<1>1. Init0 \in Processes /\ Execs \subseteq Processes
    BY Zenon DEF Processes
<1>2. SoundProcess(procs[p], watch[p], exits[p])
    BY Zenon
<1>3. CASE ProcessExits(p)
  <2>1. procs[p].state \in {"Running", "SourceMigrating"} /\ exits[p] = 0
      BY <1>2, <1>3 DEF ProcessExits, SoundProcess, LifeTypeOK
  <2> DEFINE r == [procs[p] EXCEPT !.state = "Terminated"]
  <2>2. /\ r \in ProcessRecords /\ r.state = "Terminated" /\ r.exited = procs[p].exited
        /\ r.listed = procs[p].listed
      BY DEF LifeTypeOK, ProcessRecords, ProcessStates
  <2>3. procs' = [procs EXCEPT ![p] = r] /\ watch' = [watch EXCEPT ![p] = "recorded"]
      BY <1>3, <2>1, Zenon DEF ProcessExits
  <2> HIDE DEF r
  <2>4. LifeTypeOK' /\ ~panicked'
      BY <1>3, <2>2, <2>3, SMTT(30) DEF LifeTypeOK, ProcessExits, container
  <2>5. \A q \in Processes : SoundProcess(procs[q], watch[q], exits[q])'
      BY <1>2, <1>3, <2>1, <2>2, <2>3, SMTT(30) DEF SoundProcess, ProcessExits, LifeTypeOK
  <2>6. SoundInit'
      BY <1>1, <1>2, <1>3, <2>1, <2>2, <2>3
         DEF SoundInit, SoundProcess, ProcessExits, LifeTypeOK, container
  <2>7. (state = "SourceMigrating" => \A e \in Execs : ~procs[e].listed)'
      BY <1>1, <1>3, <2>2, <2>3, Zenon DEF ProcessExits, LifeTypeOK, container
  <2> QED
      BY <2>4, <2>5, <2>6, <2>7, Zenon
<1>4. CASE WakeUp(p)
  <2>1. procs[p].state = "Terminated" /\ ~procs[p].exited /\ exits[p] = 0
      BY <1>2, <1>4 DEF WakeUp, SoundProcess, LifeTypeOK
  <2> DEFINE r == [procs[p] EXCEPT !.exited = TRUE]
  <2>2. /\ r \in ProcessRecords /\ r.state = "Terminated" /\ r.exited
        /\ r.listed = procs[p].listed
      BY <2>1, Zenon DEF LifeTypeOK, ProcessRecords, ProcessStates
  <2>3. procs' = [procs EXCEPT ![p] = r] /\ panicked' = FALSE
      BY <1>4, <2>1, Zenon DEF WakeUp, LifeTypeOK, ProcessRecords
  <2> HIDE DEF r
  <2>4. LifeTypeOK'
      BY <1>4, <2>1, <2>2, <2>3, ZenonT(40) DEF LifeTypeOK, WakeUp, container
  <2>5. \A q \in Processes : SoundProcess(procs[q], watch[q], exits[q])'
      BY <1>2, <1>4, <2>1, <2>2, <2>3 DEF SoundProcess, WakeUp, LifeTypeOK
  <2>6. SoundInit'
      BY <1>1, <1>2, <1>4, <2>1, <2>2, <2>3, Zenon
         DEF SoundInit, SoundProcess, WakeUp, LifeTypeOK, container
  <2>7. (state = "SourceMigrating" => \A e \in Execs : ~procs[e].listed)'
      BY <1>1, <1>4, <2>2, <2>3, Zenon DEF WakeUp, LifeTypeOK, container
  <2> QED
      BY <2>3, <2>4, <2>5, <2>6, <2>7, Zenon
<1>5. CASE PublishExit(p)
  <2>1. p # Init0 /\ procs[p].exited /\ exits[p] = 0
      BY <1>2, <1>5 DEF PublishExit, SoundProcess, LifeTypeOK, SoundInit
  <2>2. LifeTypeOK' /\ ~panicked'
      BY <1>5, SMTT(30) DEF LifeTypeOK, PublishExit, container
  <2>3. \A q \in Processes : SoundProcess(procs[q], watch[q], exits[q])'
      BY <1>2, <1>5, <2>1 DEF SoundProcess, PublishExit, LifeTypeOK
  <2>4. SoundInit'
      BY <1>1, <1>5, <2>1, Zenon DEF SoundInit, PublishExit, LifeTypeOK, container
  <2> QED
      BY <1>5, <2>2, <2>3, <2>4, Zenon DEF PublishExit, container
<1> QED
    BY <1>3, <1>4, <1>5, Zenon DEF Watching

\* What a process is after its abort.
LEMMA AbortFacts ==
    ASSUME NEW p \in ProcessRecords
    PROVE  /\ Abort(p) \in ProcessRecords
           /\ Abort(p).state = "Terminated" /\ Abort(p).exited /\ Abort(p).listed = p.listed
    BY Zenon DEF Abort, ProcessRecords, ProcessStates

\* A new entry of the process table.
LEMMA ProcFacts ==
    ASSUME NEW s \in ProcessStates \ {"None"}
    PROVE  Proc(s) \in ProcessRecords /\ Proc(s).state = s /\ Proc(s).listed /\
             Proc(s).exited = FALSE
    BY Zenon DEF Proc, ProcessRecords, ProcessStates

\* A container that could not be created is Invalid and has no processes.
LEMMA LifeCreateFails == LifeInv /\ CreateFails => LifeInv'
<1> SUFFICES ASSUME LifeInv, CreateFails PROVE LifeInv'
    BY Zenon
<1> USE DEF LifeInv, CreateFails
<1>1. LifeTypeOK' /\ ~panicked'
    BY Zenon DEF LifeTypeOK, CloseContainer, processes, ContainerStates
<1>2. \A p \in Processes : SoundProcess(procs[p], watch[p], exits[p])'
    BY Zenon DEF processes
<1>3. SoundInit'
    BY Zenon DEF SoundInit, CloseContainer, processes
<1> QED
    BY <1>1, <1>2, <1>3, Zenon DEF processes

\* Create adds the init process.
LEMMA LifeCreate == LifeInv /\ Create => LifeInv'
<1> SUFFICES ASSUME LifeInv, Create PROVE LifeInv'
    BY Zenon
<1> USE DEF LifeInv
<1>1. Init0 \in Processes
    BY Zenon DEF Processes
<1>2. SoundProcess(procs[Init0], watch[Init0], exits[Init0])
    BY <1>1, Zenon
<1>3. procs[Init0].state = "None" /\ initWatch # "waiting"
    BY Zenon DEF Create, SoundInit
<1>4. watch[Init0] = "none" /\ exits[Init0] = 0 /\ initWatch = "none"
    BY <1>1, <1>2, <1>3 DEF SoundProcess, SoundInit, LifeTypeOK, Create
<1> DEFINE r == Proc("Created")
<1>5. r \in ProcessRecords /\ r.state = "Created" /\ r.exited = FALSE
    BY ProcFacts, Zenon DEF ProcessStates
<1>6. procs' = [procs EXCEPT ![Init0] = r]
    BY Zenon DEF Create
<1> HIDE DEF r
<1>7. LifeTypeOK' /\ ~panicked'
    BY <1>1, <1>5, <1>6, SMTT(30) DEF LifeTypeOK, Create, ContainerStates
<1>8. \A p \in Processes : SoundProcess(procs[p], watch[p], exits[p])'
    BY <1>4, <1>5, <1>6 DEF SoundProcess, Create, LifeTypeOK
<1>9. SoundInit' /\ state' # "SourceMigrating"
    BY <1>1, <1>4, <1>5, <1>6, Zenon DEF SoundInit, Create, LifeTypeOK
<1> QED
    BY <1>7, <1>8, <1>9, Zenon

\* Start runs the init process or leaves the container Invalid.
LEMMA LifeStart == LifeInv /\ Start => LifeInv'
<1> SUFFICES ASSUME LifeInv, Start PROVE LifeInv'
    BY Zenon
<1> USE DEF LifeInv
<1>1. Init0 \in Processes /\ procs[Init0] \in ProcessRecords
    BY Zenon DEF Processes, LifeTypeOK
<1>2. SoundProcess(procs[Init0], watch[Init0], exits[Init0])
    BY <1>1, Zenon
<1>3. /\ state = "Created" /\ initWatch = "none" /\ exits[Init0] = 0
      /\ procs[Init0].state \in {"Created", "Terminated"}
    BY <1>1 DEF Start, SoundInit, LifeTypeOK
<1>4. /\ exits' = exits /\ handle' = handle /\ terminated' = terminated /\ execs' = execs
      /\ deleters' = deleters /\ gone' = gone
    BY Zenon DEF Start
<1>5. CASE state' = "Invalid" /\ UNCHANGED <<procs, watch, initWatch, panicked>>
  <2>1. LifeTypeOK' /\ ~panicked'
      BY <1>4, <1>5, Zenon DEF LifeTypeOK, ContainerStates
  <2>2. \A p \in Processes : SoundProcess(procs[p], watch[p], exits[p])'
      BY <1>4, <1>5, Zenon
  <2>3. SoundInit'
      BY <1>3, <1>4, <1>5, Zenon DEF SoundInit
  <2> QED
      BY <1>5, <2>1, <2>2, <2>3, Zenon
<1>6. CASE procs[Init0].state = "Created" /\ Starts(Init0) /\ state' = "Running" /\
             initWatch' = "waiting"
  <2> DEFINE r == [procs[Init0] EXCEPT !.state = "Running"]
  <2>1. r \in ProcessRecords /\ r.state = "Running" /\ r.exited = procs[Init0].exited
      BY <1>1, Zenon DEF ProcessRecords, ProcessStates
  <2>2. /\ procs' = [procs EXCEPT ![Init0] = r] /\ watch' = [watch EXCEPT ![Init0] = "waiting"]
        /\ panicked' = panicked
      BY <1>6, Zenon DEF Starts
  <2> HIDE DEF r
  <2>3. ~r.exited
      BY <1>2, <1>6, <2>1, Zenon DEF SoundProcess
  <2>4. LifeTypeOK' /\ ~panicked'
      BY <1>1, <1>4, <1>6, <2>1, <2>2, Zenon DEF LifeTypeOK, ContainerStates
  <2>5. \A p \in Processes : SoundProcess(procs[p], watch[p], exits[p])'
      BY <1>3, <1>4, <2>1, <2>2, <2>3, Zenon DEF SoundProcess, LifeTypeOK
  <2>6. SoundInit'
      BY <1>1, <1>3, <1>4, <1>6, <2>1, <2>2, Zenon DEF SoundInit, LifeTypeOK
  <2> QED
      BY <1>6, <2>4, <2>5, <2>6, Zenon
<1>7. CASE procs[Init0].state = "Created" /\ StartFails(Init0) /\ state' = "Invalid" /\
             UNCHANGED initWatch
  <2> DEFINE r == Abort(procs[Init0])
  <2>1. r \in ProcessRecords /\ r.state = "Terminated" /\ r.exited
      BY <1>1, AbortFacts, Zenon
  <2>2. ~procs[Init0].exited /\ watch[Init0] = "none"
      BY <1>1, <1>2, <1>7, Zenon DEF SoundProcess, LifeTypeOK
  <2>3. procs' = [procs EXCEPT ![Init0] = r] /\ watch' = watch /\ panicked' = FALSE
      BY <1>1, <1>7, <2>2, Zenon DEF StartFails, Aborted, LifeTypeOK
  <2> HIDE DEF r
  <2>4. LifeTypeOK' /\ ~panicked'
      BY <1>1, <1>4, <1>7, <2>1, <2>3, Zenon DEF LifeTypeOK, ContainerStates
  <2>5. \A p \in Processes : SoundProcess(procs[p], watch[p], exits[p])'
      BY <1>3, <1>4, <2>1, <2>2, <2>3, Zenon DEF SoundProcess, LifeTypeOK
  <2>6. SoundInit'
      BY <1>1, <1>3, <1>4, <1>7, <2>1, <2>3, Zenon DEF SoundInit, LifeTypeOK
  <2> QED
      BY <1>7, <2>4, <2>5, <2>6, Zenon
<1> QED
    BY <1>5, <1>6, <1>7, Zenon DEF Start

\* The exit of the init process stops the container, and is then published.
LEMMA LifeInitExit == LifeInv /\ (InitStops \/ InitPublishes) => LifeInv'
<1> USE DEF LifeInv
<1>0. Init0 \in Processes
    BY Zenon DEF Processes
<1>1. ASSUME LifeInv, InitStops PROVE LifeInv'
  <2>1. SoundProcess(procs[Init0], watch[Init0], exits[Init0])
      BY <1>0, <1>1, Zenon
  <2>2. watch[Init0] = "none" /\ exits[Init0] = 0 /\ procs[Init0].exited
      BY <1>0, <1>1, <2>1, Zenon DEF SoundProcess, SoundInit, InitStops, LifeTypeOK
  <2>3. LifeTypeOK' /\ ~panicked'
      BY <1>1, Zenon DEF InitStops, LifeTypeOK, CloseContainer, ContainerStates
  <2>4. \A p \in Processes : SoundProcess(procs[p], watch[p], exits[p])'
      BY <1>1, Zenon DEF InitStops
  <2>5. SoundInit' /\ state' = "Stopped"
      BY <1>1, <2>2, Zenon DEF SoundInit, InitStops, CloseContainer
  <2> QED
      BY <2>3, <2>4, <2>5, Zenon
<1>2. ASSUME LifeInv, InitPublishes PROVE LifeInv'
  <2>1. /\ watch[Init0] = "none" /\ exits[Init0] = 0 /\ procs[Init0].exited /\ state = "Stopped"
        /\ terminated /\ ~handle
      BY <1>0, <1>2, Zenon DEF SoundInit, InitPublishes, LifeTypeOK
  <2>2. LifeTypeOK' /\ ~panicked'
      BY <1>0, <1>2, <2>1, SMTT(30) DEF InitPublishes, LifeTypeOK, container
  <2>3. \A p \in Processes : SoundProcess(procs[p], watch[p], exits[p])'
      BY <1>2, <2>1 DEF InitPublishes, SoundProcess, LifeTypeOK
  <2>4. SoundInit' /\ state' = "Stopped"
      BY <1>0, <1>2, <2>1, Zenon DEF SoundInit, InitPublishes, LifeTypeOK, container
  <2> QED
      BY <2>2, <2>3, <2>4, Zenon
<1> QED
    BY <1>1, <1>2, Zenon

\* The two halves of an exec request, and the start of an exec.
LEMMA LifeExec ==
    ASSUME LifeInv, NEW e \in Execs, NewProcess(e) \/ CreateExec(e) \/ StartExec(e)
    PROVE  LifeInv'
<1> USE ExecsAssumption DEF LifeInv
<1>1. e \in Processes /\ e # Init0 /\ procs[e] \in ProcessRecords /\ Execs \subseteq Processes
    BY Zenon DEF Processes, LifeTypeOK
<1>2. SoundProcess(procs[e], watch[e], exits[e])
    BY <1>1, Zenon
<1>3. CASE NewProcess(e)
  <2> DEFINE r == Proc("NotCreated")
  <2>1. r \in ProcessRecords /\ r.state = "NotCreated" /\ r.exited = FALSE
      BY ProcFacts, Zenon DEF ProcessStates
  <2>2. procs' = [procs EXCEPT ![e] = r]
      BY <1>3, Zenon DEF NewProcess
  <2> HIDE DEF r
  <2>3. watch[e] = "none" /\ exits[e] = 0
      BY <1>1, <1>2, <1>3, SMTT(30) DEF SoundProcess, LifeTypeOK, NewProcess
  <2>4. LifeTypeOK' /\ ~panicked'
      BY <1>1, <1>3, <2>1, <2>2 DEF LifeTypeOK, NewProcess, container
  <2>5. \A p \in Processes : SoundProcess(procs[p], watch[p], exits[p])'
      BY <1>3, <2>1, <2>2, <2>3, Zenon DEF SoundProcess, LifeTypeOK, NewProcess
  <2>6. SoundInit' /\ state' # "SourceMigrating"
      BY <1>1, <1>3, <2>2, SMTT(30) DEF SoundInit, NewProcess, container, LifeTypeOK
  <2> QED
      BY <2>4, <2>5, <2>6, Zenon
<1>4. CASE CreateExec(e)
  <2>1. PICK io \in BOOLEAN : procs' = [procs EXCEPT ![e] = CreateProcess(procs[e], io)]
      BY <1>4, Zenon DEF CreateExec, May
  <2> DEFINE r == CreateProcess(procs[e], io)
  <2>2. /\ r \in ProcessRecords /\ r.listed = procs[e].listed /\ r.exited = procs[e].exited
        /\ r.state = procs[e].state \/ (procs[e].state = "NotCreated" /\ r.state = "Created")
      BY <1>1, Zenon DEF CreateProcess, ProcessRecords, ProcessStates
  <2>3. procs' = [procs EXCEPT ![e] = r]
      BY <2>1, Zenon
  <2> HIDE DEF r
  <2>4. LifeTypeOK' /\ ~panicked'
      BY <1>1, <1>4, <2>2, <2>3, Zenon DEF LifeTypeOK, CreateExec, container
  <2>5. \A p \in Processes : SoundProcess(procs[p], watch[p], exits[p])'
      BY <1>2, <1>4, <2>2, <2>3, ZenonT(40) DEF SoundProcess, LifeTypeOK, CreateExec
  <2>6. SoundInit'
      BY <1>1, <1>4, <2>3 DEF SoundInit, CreateExec, container, LifeTypeOK
  <2>7. (state = "SourceMigrating" => \A f \in Execs : ~procs[f].listed)'
      BY <1>1, <1>4, <2>2, <2>3, Zenon DEF CreateExec, LifeTypeOK, container
  <2> QED
      BY <2>4, <2>5, <2>6, <2>7, Zenon
<1>5. CASE StartExec(e)
  <2>1. watch[e] = "none" /\ exits[e] = 0 /\ ~procs[e].exited
      BY <1>1, <1>2, <1>5, SMTT(30) DEF SoundProcess, LifeTypeOK, StartExec
  <2>2. PICK r \in ProcessRecords, w \in {"none", "waiting"} :
          /\ procs' = [procs EXCEPT ![e] = r] /\ watch' = [watch EXCEPT ![e] = w]
          /\ r.listed = procs[e].listed
          /\ w = "waiting" => r.state = "Running" /\ ~r.exited
          /\ w = "none" => r.state = "Terminated" /\ r.exited
          /\ panicked' = FALSE
    <3>1. CASE Starts(e)
      <4> DEFINE r == [procs[e] EXCEPT !.state = "Running"]
      <4>1. /\ r \in ProcessRecords /\ r.listed = procs[e].listed /\ r.exited = procs[e].exited
            /\ r.state = "Running"
          BY <1>1, Zenon DEF ProcessRecords, ProcessStates
      <4>2. /\ procs' = [procs EXCEPT ![e] = r] /\ watch' = [watch EXCEPT ![e] = "waiting"]
            /\ panicked' = FALSE
          BY <3>1, Zenon DEF Starts, LifeTypeOK
      <4> HIDE DEF r
      <4> QED
          BY <2>1, <4>1, <4>2, Zenon
    <3>2. CASE StartFails(e)
      <4>1. /\ procs' = [procs EXCEPT ![e] = Abort(procs[e])] /\
                 watch' = [watch EXCEPT ![e] = "none"]
            /\ panicked' = FALSE
          BY <1>1, <2>1, <3>2, Zenon DEF StartFails, Aborted, LifeTypeOK
      <4> QED
          BY <1>1, <4>1, AbortFacts, Zenon
    <3> QED
        BY <1>5, <3>1, <3>2, Zenon DEF StartExec
  <2>3. LifeTypeOK' /\ ~panicked'
      BY <1>1, <1>5, <2>2, Zenon DEF LifeTypeOK, StartExec, container
  <2>4. \A p \in Processes : SoundProcess(procs[p], watch[p], exits[p])'
      BY <1>5, <2>1, <2>2, ZenonT(40) DEF SoundProcess, LifeTypeOK, StartExec
  <2>5. SoundInit'
      BY <1>1, <1>5, <2>2 DEF SoundInit, StartExec, container, LifeTypeOK
  <2>6. (state = "SourceMigrating" => \A f \in Execs : ~procs[f].listed)'
      BY <1>1, <1>5, <2>2, Zenon DEF StartExec, LifeTypeOK, container
  <2> QED
      BY <2>3, <2>4, <2>5, <2>6, Zenon
<1> QED
    BY <1>3, <1>4, <1>5, Zenon

\* Kill aborts processes that have not started.
LEMMA LifeKill ==
    ASSUME LifeInv, NEW p \in Processes, KillProcess(p)
    PROVE  LifeInv'
<1> USE ExecsAssumption DEF LifeInv
<1>1. Init0 \in Processes
    BY Zenon DEF Processes
<1> DEFINE ps == {q \in IF p = Init0 THEN Processes ELSE {p} :
                    procs[q].listed /\ procs[q].state \in Abortable}
<1>0. Aborted(ps)
    BY Zenon DEF KillProcess
<1>2. /\ ps \subseteq Processes
      /\ \A q \in ps : procs[q].state \in {"NotCreated", "Created"}
      /\ procs' = [q \in Processes |-> IF q \in ps THEN Abort(procs[q]) ELSE procs[q]]
      /\ panicked' = (\E q \in ps : procs[q].exited)
  <2>1. ps \subseteq Processes /\ \A q \in ps : procs[q].state \in {"NotCreated", "Created"}
      BY Zenon DEF Abortable
  <2> HIDE DEF ps
  <2> QED
      BY <1>0, <2>1, Zenon DEF Aborted
<1> HIDE DEF ps
<1>3. \A q \in ps : watch[q] = "none" /\ ~procs[q].exited /\ exits[q] = 0
    BY <1>2 DEF SoundProcess, LifeTypeOK
<1>4. panicked' = FALSE
    BY <1>2, <1>3, Zenon
<1>5. \A q \in Processes :
        /\ procs'[q] \in ProcessRecords /\ procs'[q].listed = procs[q].listed
        /\ q \in ps => procs'[q].state = "Terminated" /\ procs'[q].exited
        /\ q \notin ps => procs'[q] = procs[q]
  <2> TAKE q \in Processes
  <2>1. procs[q] \in ProcessRecords /\ procs'[q] = IF q \in ps THEN Abort(procs[q]) ELSE procs[q]
      BY <1>2, Zenon DEF LifeTypeOK
  <2> QED
      BY <2>1, AbortFacts, Zenon
<1>6. LifeTypeOK' /\ ~panicked'
  <2>1. procs' = [q \in Processes |-> procs'[q]]
      BY <1>2, Zenon
  <2>2. procs' \in [Processes -> ProcessRecords]
      BY <1>5, <2>1, Zenon
  <2> QED
      BY <1>4, <2>2, ZenonT(40) DEF LifeTypeOK, KillProcess, container
<1>7. \A q \in Processes : SoundProcess(procs[q], watch[q], exits[q])'
    BY <1>3, <1>5 DEF SoundProcess, KillProcess
<1>8. SoundInit' /\ state' # "SourceMigrating"
    BY <1>1, <1>2, <1>3, <1>5, Zenon DEF SoundInit, KillProcess, container
<1> QED
    BY <1>6, <1>7, <1>8, Zenon

\* A call of DeleteProcess begins, or waits for the teardown.
LEMMA LifeDeleteWaits ==
    ASSUME LifeInv, NEW d \in Deleters,
           (\E p \in Processes : DeleteBegins(d, p)) \/ DeleteWaits(d)
    PROVE  LifeInv'
<1> USE DEF LifeInv
<1>1. deleters' \in [Deleters -> [pc : {"none", "waiting", "deleting"}, id : Processes]]
    BY SMTT(30) DEF DeleteBegins, DeleteWaits, Goes, LifeTypeOK
<1>2. UNCHANGED <<container, processes, exits, gone>>
    BY Zenon DEF DeleteBegins, DeleteWaits
<1>3. LifeTypeOK' /\ ~panicked'
    BY <1>1, <1>2, Zenon DEF LifeTypeOK, container, processes
<1>4. SoundInit'
    BY <1>2, Zenon DEF SoundInit, container, processes
<1> QED
    BY <1>2, <1>3, <1>4, Zenon DEF container, processes

\* DeleteProcess removes a process that has terminated, or is aborted for it.
LEMMA LifeDelete ==
    ASSUME LifeInv, NEW d \in Deleters, Delete(d)
    PROVE  LifeInv'
<1> USE ExecsAssumption DEF LifeInv
<1>1. Init0 \in Processes /\ Execs \subseteq Processes
    BY Zenon DEF Processes
<1> DEFINE p == deleters[d].id
<1>2. p \in Processes /\ procs[p] \in ProcessRecords
    BY Zenon DEF LifeTypeOK
<1>3. /\ deleters' \in [Deleters -> [pc : {"none", "waiting", "deleting"}, id : Processes]]
      /\ UNCHANGED <<state, watch, initWatch, execs, panicked, exits, gone>>
    BY ZenonT(40) DEF Delete, Goes, LifeTypeOK, container
<1>4. \/ UNCHANGED <<handle, terminated>>
      \/ handle' = FALSE /\ terminated' = TRUE
    BY Zenon DEF Delete, container, CloseContainer
<1>5. SoundProcess(procs[p], watch[p], exits[p])
    BY <1>2, Zenon
<1>6. \/ procs' = procs
      \/ /\ state # "SourceMigrating" /\ procs[p].state \in {"Terminated", "Created"}
         /\ \/ procs' = [procs EXCEPT ![p] = Unlisted(Deleted(procs[p]))]
            \/ procs' = [procs EXCEPT ![p] = Deleted(procs[p])]
    BY ZenonT(40) DEF Delete, Deletable
<1> HIDE DEF p
<1>7. CASE procs' = procs
  <2>1. LifeTypeOK' /\ ~panicked'
      BY <1>3, <1>4, <1>7, Zenon DEF LifeTypeOK
  <2>2. \A q \in Processes : SoundProcess(procs[q], watch[q], exits[q])'
      BY <1>3, <1>7, Zenon
  <2>3. SoundInit'
      BY <1>3, <1>4, <1>7 DEF SoundInit
  <2> QED
      BY <1>3, <1>7, <2>1, <2>2, <2>3, Zenon
<1>8. ASSUME procs' # procs PROVE LifeInv'
  <2>1. state # "SourceMigrating" /\ procs[p].state \in {"Terminated", "Created"}
      BY <1>6, <1>8, Zenon
  <2>2. PICK r \in ProcessRecords :
          /\ procs' = [procs EXCEPT ![p] = r]
          /\ r.state = "Terminated"
          /\ r.exited = (procs[p].exited \/ procs[p].state = "Created")
    <3> DEFINE x == Deleted(procs[p])
    <3>1. /\ x \in ProcessRecords /\ x.state = "Terminated"
          /\ x.exited = (procs[p].exited \/ procs[p].state = "Created")
      <4>1. CASE procs[p].state = "Created"
          BY <1>2, <4>1, AbortFacts, Zenon DEF Deleted, ProcessRecords
      <4>2. CASE procs[p].state = "Terminated"
          BY <1>2, <4>2, Zenon DEF Deleted, ProcessRecords
      <4> QED
          BY <2>1, <4>1, <4>2, Zenon
    <3> HIDE DEF x
    <3> DEFINE y == Unlisted(x)
    <3>2. y \in ProcessRecords /\ y.state = x.state /\ y.exited = x.exited
        BY <3>1, Zenon DEF Unlisted, ProcessRecords
    <3> HIDE DEF y
    <3>3. procs' = [procs EXCEPT ![p] = y] \/ procs' = [procs EXCEPT ![p] = x]
        BY <1>6, <1>8, Zenon DEF x, y
    <3> QED
        BY <3>1, <3>2, <3>3, Zenon
  <2>3. watch[p] \in {"none", "recorded", "publishing"} /\
          (procs[p].state = "Created" => watch[p] = "none" /\ exits[p] = 0)
      BY <1>2, <1>5, <2>1 DEF SoundProcess, LifeTypeOK
  <2>4. LifeTypeOK' /\ ~panicked'
      BY <1>2, <1>3, <1>4, <2>2, Zenon DEF LifeTypeOK
  <2>5. \A q \in Processes : SoundProcess(procs[q], watch[q], exits[q])'
      BY <1>3, <1>5, <2>1, <2>2, <2>3, ZenonT(40) DEF SoundProcess, LifeTypeOK
  <2>6. SoundInit'
    <3>1. CASE p # Init0
        BY <1>1, <1>3, <1>4, <2>2, <3>1, SMTT(30) DEF SoundInit, LifeTypeOK
    <3>2. CASE p = Init0
        BY <1>1, <1>3, <1>4, <2>1, <2>2, <3>2, SMTT(30) DEF SoundInit, LifeTypeOK
    <3> QED
        BY <3>1, <3>2, Zenon
  <2> QED
      BY <1>3, <2>1, <2>4, <2>5, <2>6, Zenon
<1> QED
    BY <1>7, <1>8, Zenon

\* Save freezes a container with nothing but its init process.
LEMMA LifeSave == LifeInv /\ Save => LifeInv'
<1> SUFFICES ASSUME LifeInv, Save PROVE LifeInv'
    BY Zenon
<1> USE ExecsAssumption DEF LifeInv
<1>1. Init0 \in Processes /\ Execs \subseteq Processes /\ procs[Init0] \in ProcessRecords
    BY Zenon DEF Processes, LifeTypeOK
<1>2. SoundProcess(procs[Init0], watch[Init0], exits[Init0])
    BY <1>1, Zenon
<1>3. procs[Init0].state \in {"Running", "SourceMigrating"} /\ procs[Init0].listed /\
        initWatch = "waiting"
    BY <1>1, Zenon DEF Save, OnlyInit, Listed, Alive, SoundInit
<1>4. \A e \in Execs : ~procs[e].listed
    BY <1>1, Zenon DEF Save, OnlyInit, Listed
<1> DEFINE r == SaveProcess(procs[Init0])
<1>5. /\ r \in ProcessRecords /\ r.state = "SourceMigrating" /\ r.listed = procs[Init0].listed
      /\ r.exited = procs[Init0].exited
    BY <1>1, Zenon DEF SaveProcess, ProcessRecords, ProcessStates
<1>6. procs' = [procs EXCEPT ![Init0] = r] /\ state' = "SourceMigrating"
    BY Zenon DEF Save
<1> HIDE DEF r
<1>7. LifeTypeOK' /\ ~panicked'
    BY <1>1, <1>5, <1>6, SMTT(30) DEF LifeTypeOK, Save, ContainerStates
<1>8. \A p \in Processes : SoundProcess(procs[p], watch[p], exits[p])'
    BY <1>2, <1>3, <1>5, <1>6, SMTT(30) DEF SoundProcess, Save, LifeTypeOK
<1>9. SoundInit'
    BY <1>1, <1>2, <1>3, <1>5, <1>6, Zenon DEF SoundInit, Save, LifeTypeOK
<1>10. \A e \in Execs : ~procs'[e].listed
    BY <1>1, <1>4, <1>6, Zenon DEF LifeTypeOK
<1> QED
    BY <1>7, <1>8, <1>9, <1>10, Zenon

\* Resume lifts the freeze of a source.
LEMMA LifeResumeSource == LifeInv /\ ResumeSource => LifeInv'
<1> SUFFICES ASSUME LifeInv, ResumeSource PROVE LifeInv'
    BY Zenon
<1> USE ExecsAssumption DEF LifeInv
<1>1. Init0 \in Processes /\ Execs \subseteq Processes /\ procs[Init0] \in ProcessRecords
    BY Zenon DEF Processes, LifeTypeOK
<1>2. procs[Init0].listed /\ \A e \in Execs : ~procs[e].listed
    BY Zenon DEF ResumeSource, FrozenSource, SoundInit
<1>3. Listed = {Init0}
    BY <1>1, <1>2, Zenon DEF Listed, Processes
<1>4. procs[Init0].state \in {"Running", "SourceMigrating"} /\ initWatch = "waiting"
    BY <1>3, Zenon DEF ResumeSource, FrozenSource, Alive, SoundInit
<1>5. SoundProcess(procs[Init0], watch[Init0], exits[Init0])
    BY <1>1, Zenon
<1> DEFINE r == ResumeProcess(procs[Init0])
<1>6. /\ r \in ProcessRecords /\ r.state = "Running" /\ r.listed = procs[Init0].listed
      /\ r.exited = procs[Init0].exited
    BY <1>1, Zenon DEF ResumeProcess, ProcessRecords, ProcessStates
<1>7. procs' = [procs EXCEPT ![Init0] = r] /\ state' = "Running"
    BY <1>1, <1>3, ZenonT(40) DEF ResumeSource, LifeTypeOK
<1> HIDE DEF r
<1>8. LifeTypeOK' /\ ~panicked'
    BY <1>1, <1>6, <1>7, SMTT(30) DEF LifeTypeOK, ResumeSource, ContainerStates
<1>9. \A p \in Processes : SoundProcess(procs[p], watch[p], exits[p])'
    BY <1>4, <1>5, <1>6, <1>7 DEF SoundProcess, ResumeSource, LifeTypeOK
<1>10. SoundInit'
    BY <1>1, <1>4, <1>6, <1>7, Zenon DEF SoundInit, ResumeSource, LifeTypeOK
<1> QED
    BY <1>7, <1>8, <1>9, <1>10, Zenon

\* Resume brings an imported container to life.
LEMMA LifeResumeDestination == LifeInv /\ ResumeDestination => LifeInv'
<1> SUFFICES ASSUME LifeInv, ResumeDestination PROVE LifeInv'
    BY Zenon
<1> USE DEF LifeInv
<1>1. Init0 \in Processes /\ procs[Init0] \in ProcessRecords
    BY Zenon DEF Processes, LifeTypeOK
<1>2. SoundProcess(procs[Init0], watch[Init0], exits[Init0])
    BY <1>1, Zenon
<1>3. state = "DestinationMigrating" /\ procs[Init0].state = "DestinationMigrating"
    BY Zenon DEF ResumeDestination, SoundInit
<1>4. ~procs[Init0].exited /\ exits[Init0] = 0
    BY <1>1, <1>2, <1>3 DEF SoundProcess, LifeTypeOK
<1> DEFINE r == [procs[Init0] EXCEPT !.state = "Running"]
<1>5. r \in ProcessRecords /\ r.state = "Running" /\ r.exited = procs[Init0].exited
    BY <1>1, Zenon DEF ProcessRecords, ProcessStates
<1>6. /\ procs' = [procs EXCEPT ![Init0] = r] /\ watch' = [watch EXCEPT ![Init0] = "waiting"]
      /\ panicked' = panicked
    BY Zenon DEF ResumeDestination, Starts
<1> HIDE DEF r
<1>7. LifeTypeOK' /\ ~panicked'
    BY <1>1, <1>5, <1>6, Zenon DEF LifeTypeOK, ResumeDestination, ContainerStates
<1>8. \A p \in Processes : SoundProcess(procs[p], watch[p], exits[p])'
    BY <1>4, <1>5, <1>6, Zenon DEF SoundProcess, ResumeDestination, LifeTypeOK
<1>9. SoundInit' /\ state' = "Running"
    BY <1>1, <1>4, <1>5, <1>6, Zenon DEF SoundInit, ResumeDestination, LifeTypeOK
<1> QED
    BY <1>7, <1>8, <1>9, Zenon

\* The exit of the VM and a stuttering step touch none of this.
LEMMA LifeRest == LifeInv /\ (VMExits \/ UNCHANGED vars) => LifeInv'
<1> SUFFICES ASSUME LifeInv, VMExits \/ UNCHANGED vars PROVE LifeInv'
    BY Zenon
<1> USE DEF LifeInv
<1>1. UNCHANGED <<container, processes, deleters, exits>> /\ gone' \in BOOLEAN
    BY Zenon DEF VMExits, vars, LifeTypeOK
<1>2. LifeTypeOK' /\ ~panicked'
    BY <1>1, Zenon DEF LifeTypeOK, container, processes
<1>3. SoundInit'
    BY <1>1, Zenon DEF SoundInit, container, processes
<1> QED
    BY <1>1, <1>2, <1>3, Zenon DEF container, processes

\* Every step preserves LifeInv.
LEMMA LifeStep == LifeInv /\ [Next]_vars => LifeInv'
<1> SUFFICES ASSUME LifeInv, [Next]_vars PROVE LifeInv'
    BY Zenon
<1>1. CASE \E e \in Execs : NewProcess(e) \/ CreateExec(e) \/ StartExec(e)
    BY <1>1, LifeExec, Zenon
<1>2. CASE \E p \in Processes : KillProcess(p) \/ Watching(p)
    BY <1>2, LifeKill, LifeWatching, Zenon
<1>3. CASE \E d \in Deleters : Deleting(d)
    BY <1>3, LifeDeleteWaits, LifeDelete, Zenon DEF Deleting
<1> QED
    BY <1>1, <1>2, <1>3, LifeCreate, LifeCreateFails, LifeStart, LifeInitExit, LifeSave,
       LifeResumeSource, LifeResumeDestination, LifeRest, Zenon DEF Next

\* LifeInv holds throughout.
LEMMA LifeAlways == Spec => []LifeInv
    BY LifeInit, LifeStep, PTL DEF Spec

\* However Kill, Delete, a failed Start and the exit of a process interleave,
\* abortInternal and handleProcessExit never close exitedCh twice.
THEOREM ContainerClosesOnce == Spec => []ClosedOnce
<1>1. LifeInv => ClosedOnce
    BY Zenon DEF LifeInv, ClosedOnce
<1> QED
    BY <1>1, LifeAlways, PTL

\* handleProcessExit and handleInitProcessExit publish the exit of a process
\* at most once, after its waiters are awake and, for the init process, after
\* the container is torn down.
THEOREM ContainerExitPublished == Spec => []ExitPublished
<1>1. LifeInv => ExitPublished
    BY Zenon DEF LifeInv, ExitPublished, SoundProcess, SoundInit
<1> QED
    BY <1>1, LifeAlways, PTL

\* Save and Resume keep the container and its processes in step: a frozen
\* container has no exec, and a running one no frozen init process.
THEOREM ContainerFreezeAgrees == Spec => []FreezeAgrees
<1>1. LifeInv => FreezeAgrees
    BY Zenon DEF LifeInv, FreezeAgrees, SoundInit
<1> QED
    BY <1>1, LifeAlways, PTL

-----------------------------------------------------------------------------
(* The resources of the container.                                          *)

\* A container starts with nothing, or with what came along with the VM.
LEMMA ResInit == Init => ResInv /\ RetryInv
<1> SUFFICES ASSUME Init PROVE ResInv /\ RetryInv
    BY Zenon
<1>0. Init0 \in Processes
    BY Zenon DEF Processes
<1>e. \A list \in {RoLayers, Disks, Shares, Devices} : <<>> \in Sublists(list)
  <2>1. ASSUME NEW list \in {RoLayers, Disks, Shares, Devices} PROVE <<>> \in Sublists(list)
    <3>1. list \in Seq(Reservations) /\ IsInjective(list)
        BY ReservationsAssumption, Zenon
    <3>2. 0 \in 0..Len(list)
        BY <3>1
    <3> QED
        BY <3>1, <3>2, PrefixSublist, Zenon
  <2> QED
      BY <2>1, Zenon
<1>1. CASE Fresh
  <2>1. res = NoResources /\ world = Nothing
      BY <1>1, Zenon DEF Fresh
  <2>2. NoResources \in Resources /\ Nothing \in Worlds
      BY <1>e, Zenon DEF NoResources, Resources, Nothing, Worlds
  <2>3. Covered(NoResources, Nothing)
      BY Zenon DEF Covered, NoResources, Nothing
  <2>4. ~procs[Init0].listed
      BY <1>0, <1>1, Zenon DEF Fresh, Proc
  <2> QED
      BY <2>1, <2>2, <2>3, <2>4, Zenon DEF ResInv, RetryInv
<1>2. CASE Imported
  <2>1. Allocated(Complete) \in Resources /\ Allocated(Complete).stateDeleted = FALSE
      BY AllocatedFacts, Zenon
  <2>2. res = [Allocated(Complete) EXCEPT !.plan9 = <<>>, !.devices = <<>>] /\
          world = Holding(res, TRUE)
      BY <1>2, Zenon DEF Imported
  <2>3. res \in Resources /\ res.stateDeleted = FALSE
      BY <1>e, <2>1, <2>2, Zenon DEF Resources
  <2>4. world \in Worlds /\ Covered(res, world) /\ Releasable(res, world, FALSE)
      BY <2>2, <2>3, HoldingFacts, ZenonT(40)
  <2> QED
      BY <2>3, <2>4, Zenon DEF ResInv, RetryInv, Init
<1> QED
    BY <1>1, <1>2, Zenon DEF Init

\* The entry of the init process stays in the table, or out of it.
SameInit ==
    /\ procs'[Init0].listed = procs[Init0].listed
    /\ procs'[Init0].state = "None" <=> procs[Init0].state = "None"

\* The resources go with the init process.
Teardown ==
    /\ gone' = gone /\ procs[Init0].listed /\ procs'[Init0].state # "None"
    /\ \E o \in ReleaseResources(res, world, gone) :
         res' = o.res /\ world' = o.world /\ (procs'[Init0].listed <=> o.err)

\* What a step can do to the resources.
LEMMA ResourceSteps ==
    ASSUME LifeInv, [Next]_vars
    PROVE  \/ UNCHANGED <<res, world, gone>> /\ SameInit
           \/ Create \/ CreateFails \/ VMExits \/ Teardown
<1> USE ExecsAssumption DEF LifeInv
<1>1. /\ Init0 \in Processes /\ Execs \subseteq Processes /\ procs[Init0] \in ProcessRecords
      /\ \A p \in Processes : procs[p] \in ProcessRecords
    BY Zenon DEF Processes, LifeTypeOK
<1>2. ASSUME UNCHANGED <<procs, res, world, gone>> PROVE UNCHANGED <<res, world, gone>> /\ SameInit
    BY <1>2, Zenon DEF SameInit
<1>3. CASE Start
  <2>1. procs[Init0].state \in {"Created", "Terminated"}
      BY <1>3, Zenon DEF Start, SoundInit
  <2>2. \/ procs' = procs
        \/ procs' = [procs EXCEPT ![Init0].state = "Running"]
        \/ procs' = [p \in Processes |-> IF p \in {Init0} THEN Abort(procs[p]) ELSE procs[p]]
      BY <1>3, Zenon DEF Start, Starts, StartFails, Aborted
  <2>3. SameInit
    <3>1. CASE procs' = procs
        BY <3>1, Zenon DEF SameInit
    <3>2. CASE procs' = [procs EXCEPT ![Init0].state = "Running"]
      <4>1. procs'[Init0] = [procs[Init0] EXCEPT !.state = "Running"]
          BY <1>1, <3>2, Zenon DEF LifeTypeOK
      <4> QED
          BY <1>1, <2>1, <4>1, Zenon DEF SameInit, ProcessRecords
    <3>3. CASE procs' = [p \in Processes |-> IF p \in {Init0} THEN Abort(procs[p]) ELSE procs[p]]
      <4>1. procs'[Init0] = Abort(procs[Init0])
          BY <1>1, <3>3, Zenon
      <4> QED
          BY <1>1, <2>1, <4>1, AbortFacts, Zenon DEF SameInit
    <3> QED
        BY <2>2, <3>1, <3>2, <3>3, Zenon
  <2> QED
      BY <1>3, <2>3, Zenon DEF Start, resources
<1>4. CASE InitStops \/ InitPublishes
    BY <1>2, <1>4, Zenon DEF InitStops, InitPublishes, resources
<1>5. CASE \E e \in Execs : NewProcess(e) \/ CreateExec(e) \/ StartExec(e)
  <2>1. PICK e \in Execs : NewProcess(e) \/ CreateExec(e) \/ StartExec(e)
      BY <1>5, Zenon
  <2>2. procs'[Init0] = procs[Init0]
    <3>1. CASE NewProcess(e)
        BY <1>1, <3>1, Zenon DEF NewProcess, LifeTypeOK
    <3>2. CASE CreateExec(e)
        BY <1>1, <3>2, Zenon DEF CreateExec, LifeTypeOK
    <3>3. CASE StartExec(e)
      <4>1. CASE Starts(e)
          BY <1>1, <4>1, Zenon DEF Starts, LifeTypeOK
      <4>2. CASE StartFails(e)
          BY <1>1, <4>2, Zenon DEF StartFails, Aborted
      <4> QED
          BY <3>3, <4>1, <4>2, Zenon DEF StartExec
    <3> QED
        BY <2>1, <3>1, <3>2, <3>3, Zenon
  <2> QED
      BY <2>1, <2>2, ZenonT(40) DEF SameInit, NewProcess, CreateExec, StartExec, resources
<1>6. CASE \E p \in Processes : KillProcess(p)
  <2>1. PICK p \in Processes : KillProcess(p)
      BY <1>6, Zenon
  <2> DEFINE ps == {q \in IF p = Init0 THEN Processes ELSE {p} :
                      procs[q].listed /\ procs[q].state \in Abortable}
  <2>2. Aborted(ps) /\ (Init0 \in ps => procs[Init0].state \in {"NotCreated", "Created"})
      BY <2>1, Zenon DEF KillProcess, Abortable
  <2> HIDE DEF ps
  <2>3. procs'[Init0] = IF Init0 \in ps THEN Abort(procs[Init0]) ELSE procs[Init0]
      BY <1>1, <2>2, Zenon DEF Aborted
  <2>4. SameInit
      BY <1>1, <2>2, <2>3, AbortFacts, Zenon DEF SameInit
  <2> QED
      BY <2>1, <2>4, Zenon DEF KillProcess, resources
<1>7. CASE \E p \in Processes : Watching(p)
  <2>1. PICK p \in Processes : Watching(p)
      BY <1>7, Zenon
  <2>2. SoundProcess(procs[Init0], watch[Init0], exits[Init0])
      BY <1>1, Zenon
  <2>3. SameInit
    <3>1. CASE ProcessExits(p)
      <4>1. CASE p = Init0
        <5>1. procs'[Init0] = [procs[Init0] EXCEPT !.state = "Terminated"] /\
                procs[Init0].state # "None"
            BY <1>1, <2>2, <3>1, <4>1, Zenon DEF ProcessExits, LifeTypeOK, SoundProcess
        <5> QED
            BY <1>1, <5>1, Zenon DEF SameInit, ProcessRecords
      <4>2. CASE p # Init0
          BY <1>1, <3>1, <4>2, Zenon DEF ProcessExits, LifeTypeOK, SameInit
      <4> QED
          BY <4>1, <4>2, Zenon
    <3>2. CASE WakeUp(p)
      <4>1. CASE p = Init0
        <5>1. procs'[Init0] = [procs[Init0] EXCEPT !.exited = TRUE]
            BY <1>1, <3>2, <4>1, Zenon DEF WakeUp, LifeTypeOK
        <5> QED
            BY <1>1, <5>1, Zenon DEF SameInit, ProcessRecords
      <4>2. CASE p # Init0
          BY <1>1, <3>2, <4>2, Zenon DEF WakeUp, LifeTypeOK, SameInit
      <4> QED
          BY <4>1, <4>2, Zenon
    <3>3. CASE PublishExit(p)
        BY <3>3, Zenon DEF PublishExit, SameInit
    <3> QED
        BY <2>1, <3>1, <3>2, <3>3, Zenon DEF Watching
  <2> QED
      BY <2>1, <2>3, Zenon DEF Watching, ProcessExits, WakeUp, PublishExit, resources
<1>8. CASE \E d \in Deleters : Deleting(d)
  <2>1. PICK d \in Deleters : Deleting(d)
      BY <1>8, Zenon
  <2>2. CASE (\E p \in Processes : DeleteBegins(d, p)) \/ DeleteWaits(d)
      BY <1>2, <2>2, Zenon DEF DeleteBegins, DeleteWaits, processes, resources
  <2>3. CASE Delete(d)
    <3> DEFINE p == deleters[d].id
               x == Deleted(procs[p])
    <3>1. p \in Processes /\ gone' = gone
        BY <2>3, Zenon DEF LifeTypeOK, Delete
    <3>2. CASE UNCHANGED <<procs, res, world>>
        BY <1>2, <3>1, <3>2, Zenon
    <3>3. CASE p # Init0 /\ procs' = [procs EXCEPT ![p] = Unlisted(x)] /\ UNCHANGED <<res, world>>
        BY <1>1, <3>1, <3>3, Zenon DEF SameInit, LifeTypeOK
    <3>4. ASSUME p = Init0, Deletable(p),
                 NEW o \in ReleaseResources(res, world, gone), res' = o.res, world' = o.world,
                 \/ ~o.err /\ procs' = [procs EXCEPT ![p] = Unlisted(x)]
                 \/ o.err /\ procs' = [procs EXCEPT ![p] = x]
          PROVE  Teardown
      <4>1. procs[Init0].listed /\ procs[Init0].state \in {"Terminated", "Created"}
          BY <3>4, Zenon DEF Deletable
      <4>2. x \in ProcessRecords /\ x.listed /\ x.state = "Terminated"
        <5>1. CASE procs[p].state = "Created"
            BY <1>1, <3>4, <4>1, <5>1, AbortFacts, ZenonT(40) DEF Deleted
        <5>2. CASE procs[p].state = "Terminated"
            BY <1>1, <3>4, <4>1, <5>2, Zenon DEF Deleted
        <5> QED
            BY <3>4, <4>1, <5>1, <5>2, Zenon
      <4> HIDE DEF x
      <4>3. Unlisted(x).listed = FALSE /\ Unlisted(x).state = "Terminated"
          BY <4>2, Zenon DEF Unlisted, ProcessRecords
      <4>4. \/ ~o.err /\ procs'[Init0] = Unlisted(x)
            \/ o.err /\ procs'[Init0] = x
          BY <1>1, <3>4, Zenon DEF LifeTypeOK
      <4>5. procs'[Init0].state # "None" /\ (procs'[Init0].listed <=> o.err)
          BY <4>2, <4>3, <4>4, Zenon
      <4> QED
          BY <3>1, <3>4, <4>1, <4>5, Zenon DEF Teardown
    <3> QED
        BY <2>3, <3>1, <3>2, <3>3, <3>4, Zenon DEF Delete, resources, Removes
  <2> QED
      BY <2>1, <2>2, <2>3, Zenon DEF Deleting
<1>9. CASE Save
  <2>1. procs'[Init0] = SaveProcess(procs[Init0]) /\ procs[Init0].state # "None"
      BY <1>1, <1>9, Zenon DEF Save, LifeTypeOK, Alive
  <2>2. SameInit
      BY <1>1, <2>1, Zenon DEF SameInit, SaveProcess, ProcessRecords
  <2> QED
      BY <1>9, <2>2, Zenon DEF Save, resources
<1>10. CASE ResumeSource
  <2>1. Init0 \in Listed => procs[Init0].state # "None"
      BY <1>10, Zenon DEF ResumeSource, Alive
  <2>2. procs'[Init0] = IF Init0 \in Listed THEN ResumeProcess(procs[Init0]) ELSE procs[Init0]
      BY <1>1, <1>10, Zenon DEF ResumeSource
  <2>3. SameInit
      BY <1>1, <2>1, <2>2, Zenon DEF SameInit, ResumeProcess, ProcessRecords
  <2> QED
      BY <1>10, <2>3, Zenon DEF ResumeSource, resources
<1>11. CASE ResumeDestination
  <2>1. procs'[Init0] = [procs[Init0] EXCEPT !.state = "Running"] /\ procs[Init0].state # "None"
      BY <1>1, <1>11, Zenon DEF ResumeDestination, Starts, LifeTypeOK, SoundInit
  <2>2. SameInit
      BY <1>1, <2>1, Zenon DEF SameInit, ProcessRecords
  <2> QED
      BY <1>11, <2>2, Zenon DEF ResumeDestination, resources
<1>12. CASE UNCHANGED vars
    BY <1>2, <1>12, Zenon DEF vars, processes, resources
<1> QED
    BY <1>3, <1>4, <1>5, <1>6, <1>7, <1>8, <1>9, <1>10, <1>11, <1>12, Zenon DEF Next

\* What a failed Create had allocated when it failed.
LEMMA FailedCreateFacts ==
    ASSUME NEW f \in FailedCreates
    PROVE  f.res \in Resources /\ f.world \in Worlds /\ Covered(f.res, f.world)
<1>1. \E r \in Resources, g \in BOOLEAN :
        r.stateDeleted = FALSE /\ f = [res |-> r, world |-> Holding(r, g)]
  <2>1. CASE f \in {[res |-> r,
               world |-> Holding(r, FALSE)] : r \in {Allocated(p) : p \in Interrupted}}
    <3>1. PICK p \in Interrupted : f = [res |-> Allocated(p),
                 world |-> Holding(Allocated(p), FALSE)]
        BY <2>1, Zenon
    <3>2. p \in Progress
        BY Zenon DEF Interrupted
    <3>3. Allocated(p) \in Resources /\ Allocated(p).stateDeleted = FALSE
        BY <3>2, AllocatedFacts, Zenon
    <3> QED
        BY <3>1, <3>3, Zenon
  <2>2. CASE f \in {[res |-> Allocated(Complete), world |-> Holding(Allocated(Complete), g)] :
                      g \in {g \in BOOLEAN : (IF g THEN "io" ELSE "guest") \in Faults}}
    <3>1. PICK g \in BOOLEAN : f = [res |-> Allocated(Complete),
                 world |-> Holding(Allocated(Complete), g)]
        BY <2>2, Zenon
    <3>2. Allocated(Complete) \in Resources /\ Allocated(Complete).stateDeleted = FALSE
        BY AllocatedFacts, Zenon
    <3> QED
        BY <3>1, <3>2, Zenon
  <2> QED
      BY <2>1, <2>2, Zenon DEF FailedCreates
<1>2. PICK r \in Resources, g \in BOOLEAN :
        r.stateDeleted = FALSE /\ f = [res |-> r, world |-> Holding(r, g)]
    BY <1>1, Zenon
<1>3. f.res = r /\ f.world = Holding(r, g)
    BY <1>2, Zenon
<1> QED
    BY <1>2, <1>3, HoldingFacts, Zenon

\* What a container has that was just created.
LEMMA CreateFacts ==
    ASSUME LifeInv, Create
    PROVE  /\ res' \in Resources /\ world' \in Worlds /\ Covered(res', world')
           /\ Releasable(res', world', gone') /\ procs'[Init0].listed
<1>1. Allocated(Complete) \in Resources /\ Allocated(Complete).stateDeleted = FALSE
    BY AllocatedFacts, Zenon
<1>2. res' = Allocated(Complete) /\ world' = Holding(res', TRUE) /\ gone' \in BOOLEAN
    BY Zenon DEF Create, LifeInv, LifeTypeOK
<1>3. /\ res' \in Resources /\ world' \in Worlds /\ Covered(res', world')
      /\ Releasable(res', world', gone')
    BY <1>1, <1>2, HoldingFacts, Zenon
<1>4. procs'[Init0] = Proc("Created")
    BY Zenon DEF Create, LifeInv, LifeTypeOK, Processes
<1>5. Proc("Created").listed
    BY Zenon DEF Proc
<1> QED
    BY <1>3, <1>4, <1>5, Zenon

\* Every step preserves ResInv.
LEMMA ResStep == LifeInv /\ ResInv /\ [Next]_vars => ResInv'
<1> SUFFICES ASSUME LifeInv, ResInv, [Next]_vars PROVE ResInv'
    BY Zenon
<1>0. gone \in BOOLEAN /\ res \in Resources /\ world \in Worlds
    BY Zenon DEF LifeInv, LifeTypeOK, ResInv
<1>1. CASE UNCHANGED <<res, world, gone>>
    BY <1>1, Zenon DEF ResInv
<1>2. CASE Create
    BY <1>2, CreateFacts, Zenon DEF ResInv
<1>3. CASE CreateFails
  <2>1. PICK f \in FailedCreates : \E o \in ReleaseResources(f.res, f.world, gone) :
          res' = o.res /\ world' = o.world
      BY <1>3, Zenon DEF CreateFails
  <2>2. PICK o \in ReleaseResources(f.res, f.world, gone) : res' = o.res /\ world' = o.world
      BY <2>1, Zenon
  <2>3. f.res \in Resources /\ f.world \in Worlds /\ Covered(f.res, f.world)
      BY FailedCreateFacts, Zenon
  <2>4. res' \in Resources /\ world' \in Worlds /\ (~gone => Covered(res', world'))
      BY <1>0, <2>2, <2>3, ReleaseCovered, Zenon
  <2> QED
      BY <1>3, <2>4, Zenon DEF ResInv, CreateFails
<1>4. CASE VMExits
  <2>1. world' \in Worlds
      BY <1>0, <1>4, Zenon DEF VMExits, Worlds
  <2> QED
      BY <1>0, <1>4, <2>1, Zenon DEF ResInv, VMExits
<1>5. CASE Teardown
  <2>1. PICK o \in ReleaseResources(res, world, gone) : res' = o.res /\ world' = o.world
      BY <1>5, Zenon DEF Teardown
  <2>2. res' \in Resources /\ world' \in Worlds /\ (~gone => Covered(res', world'))
      BY <1>0, <2>1, ReleaseCovered, Zenon DEF ResInv
  <2> QED
      BY <1>5, <2>2, Zenon DEF ResInv, Teardown
<1> QED
    BY <1>1, <1>2, <1>3, <1>4, <1>5, ResourceSteps, Zenon

\* LifeInv and ResInv hold throughout.
LEMMA ResAlways == Spec => [](LifeInv /\ ResInv)
    BY LifeInit, LifeStep, ResInit, ResStep, PTL DEF Spec

\* What is held for the container is in its lists: neither a Create that fails
\* half-way nor a releaseResources that fails half-way, once or again, makes the
\* container forget a reservation.
THEOREM ContainerTracked == Spec => []Tracked
<1>1. ResInv => Tracked
    BY Zenon DEF ResInv, Tracked, Covered
<1> QED
    BY <1>1, ResAlways, PTL

\* Every step preserves DeletedReleased.
LEMMA DeletedStep ==
    ASSUME DeleteStateSupported
    PROVE  LifeInv /\ ResInv /\ DeletedReleased /\ [Next]_vars => DeletedReleased'
<1> SUFFICES ASSUME LifeInv, ResInv, DeletedReleased, [Next]_vars PROVE DeletedReleased'
    BY Zenon
<1>0. gone \in BOOLEAN /\ res \in Resources /\ world \in Worlds
    BY Zenon DEF LifeInv, LifeTypeOK, ResInv
<1>1. CASE UNCHANGED <<res, world, gone>> /\ SameInit
    BY <1>1, Zenon DEF DeletedReleased, SameInit
<1>2. CASE Create
    BY <1>2, CreateFacts, Zenon DEF DeletedReleased
<1>3. CASE CreateFails
  <2>1. procs' = procs /\ procs[Init0].state = "None"
      BY <1>3, Zenon DEF CreateFails, processes, LifeInv, SoundInit
  <2> QED
      BY <2>1, Zenon DEF DeletedReleased
<1>4. CASE VMExits
    BY <1>4, Zenon DEF DeletedReleased, VMExits
<1>5. CASE Teardown
  <2>1. PICK o \in ReleaseResources(res, world, gone) :
          res' = o.res /\ world' = o.world /\ (procs'[Init0].listed <=> o.err)
      BY <1>5, Zenon DEF Teardown
  <2>2. ~gone /\ ~o.err => o.world = Nothing
      BY <1>0, <2>1, ReleaseCovered, Zenon DEF ResInv
  <2> QED
      BY <1>5, <2>1, <2>2, Zenon DEF DeletedReleased, Teardown
<1> QED
    BY <1>1, <1>2, <1>3, <1>4, <1>5, ResourceSteps, Zenon

\* With a guest that supports DeleteContainerState, DeleteProcess removes the
\* init process only when nothing of the container is left on either side.
THEOREM ContainerDeletedReleased ==
    ASSUME DeleteStateSupported
    PROVE  Spec => []DeletedReleased
<1>1. Init => DeletedReleased
  <2> SUFFICES ASSUME Init PROVE DeletedReleased
      BY Zenon
  <2>0. Init0 \in Processes
      BY Zenon DEF Processes
  <2>1. procs[Init0] \in {Proc("None"), Proc("DestinationMigrating")}
      BY <2>0, Zenon DEF Init, Fresh, Imported
  <2>2. Proc("None").state = "None" /\ Proc("DestinationMigrating").listed
      BY Zenon DEF Proc
  <2> QED
      BY <2>1, <2>2, Zenon DEF DeletedReleased
<1>2. LifeInv /\ ResInv /\ DeletedReleased /\ [Next]_vars => DeletedReleased'
    BY DeletedStep, Zenon
<1> QED
    BY <1>1, <1>2, ResAlways, PTL DEF Spec

\* Every step preserves RetryInv.
LEMMA RetryStep ==
    ASSUME LayersFlaky
    PROVE  LifeInv /\ ResInv /\ RetryInv /\ [Next]_vars => RetryInv'
<1> SUFFICES ASSUME LifeInv, ResInv, RetryInv, [Next]_vars PROVE RetryInv'
    BY Zenon
<1>0. gone \in BOOLEAN /\ res \in Resources /\ world \in Worlds
    BY Zenon DEF LifeInv, LifeTypeOK, ResInv
<1>1. CASE UNCHANGED <<res, world, gone>> /\ SameInit
    BY <1>1, Zenon DEF RetryInv, SameInit
<1>2. CASE Create
    BY <1>2, CreateFacts, Zenon DEF RetryInv
<1>3. CASE CreateFails
  <2>1. procs' = procs /\ procs[Init0].state = "None" /\ Init0 \in Processes
      BY <1>3, Zenon DEF CreateFails, processes, LifeInv, SoundInit, Processes
  <2>2. ~procs[Init0].listed
      BY <2>1, Zenon DEF LifeInv, SoundProcess
  <2> QED
      BY <2>1, <2>2, Zenon DEF RetryInv
<1>4. CASE VMExits
  <2>1. world'.held = world.held /\ res' = res /\ gone' = TRUE /\ procs' = procs
      BY <1>0, <1>4, Zenon DEF VMExits, processes, Worlds
  <2> QED
      BY <2>1, Zenon DEF RetryInv, Releasable
<1>5. CASE Teardown
  <2>1. PICK o \in ReleaseResources(res, world, gone) :
          res' = o.res /\ world' = o.world /\ (procs'[Init0].listed <=> o.err)
      BY <1>5, Zenon DEF Teardown
  <2>2. Releasable(res, world, gone) /\ gone' = gone
      BY <1>5, Zenon DEF Teardown, RetryInv
  <2>3. o.err => Releasable(o.res, o.world, gone)
      BY <1>0, <2>1, <2>2, ReleaseRetried, Zenon
  <2> QED
      BY <2>1, <2>2, <2>3, Zenon DEF RetryInv
<1> QED
    BY <1>1, <1>2, <1>3, <1>4, <1>5, ResourceSteps, Zenon

\* If no release but those of the overlay, the scratch layer and the layers can
\* fail, DeleteProcess of a terminated init process can succeed however often it
\* failed before.
THEOREM ContainerDeletePossible ==
    ASSUME LayersFlaky
    PROVE  Spec => []DeletePossible
<1>1. LifeInv /\ ResInv /\ RetryInv => DeletePossible
  <2> SUFFICES ASSUME LifeInv, ResInv, RetryInv, Deletable(Init0)
               PROVE  \E r \in ReleaseResources(res, world, gone) : ~r.err
      BY Zenon DEF DeletePossible
  <2>1. Releasable(res, world, gone)
      BY Zenon DEF Deletable, RetryInv
  <2>2. gone \in BOOLEAN /\ res \in Resources /\ world \in Worlds
      BY Zenon DEF LifeInv, LifeTypeOK, ResInv
  <2> QED
      BY <2>1, <2>2, ReleaseRetried, Zenon
<1>2. LifeInv /\ ResInv /\ RetryInv /\ [Next]_vars => RetryInv'
    BY RetryStep, Zenon
<1> QED
    BY <1>1, <1>2, ResInit, ResAlways, PTL DEF Spec
=============================================================================

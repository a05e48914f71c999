---------------------------- MODULE DeviceProofs ----------------------------
(***************************************************************************)
(* The device controllers of a VM: each keeps what it gave to a caller     *)
(* until the caller releases it, counts its callers and reclaims what      *)
(* nobody holds, for any number of callers and devices.  An invariant for  *)
(* each controller, which its own steps keep; together they are the        *)
(* invariant of VmDevices.                                                 *)
(***************************************************************************)
EXTENDS VmDevices, ScsiProofs

-----------------------------------------------------------------------------
(* Least and greatest elements.                                             *)

\* A set of natural numbers has a least element.
LEMMA LeastExists ==
  ASSUME NEW T \in SUBSET Nat, T # {}
  PROVE  \E x \in T : \A y \in T : x <= y
<1>1. PICK x \in T : \A y \in T : ~(<<y, x>> \in OpToRel(<, Nat))
  BY NatLessThanWellFounded, WFMin, Zenon
<1>2. \A y \in T : ~(y < x)
  BY <1>1, Zenon DEF OpToRel
<1> QED  BY <1>2, SMTT(30)

\* A bounded one has a greatest.
LEMMA GreatestExists ==
  ASSUME NEW T \in SUBSET Nat, T # {}, NEW b \in Nat, \A y \in T : y <= b
  PROVE  \E x \in T : \A y \in T : y <= x
<1> DEFINE D == {b - y : y \in T}
<1>1. D \in SUBSET Nat /\ D # {}
  <2>1. \A y \in T : b - y \in Nat
    OBVIOUS
  <2>2. PICK y \in T : b - y \in D
    BY Zenon
  <2> QED  BY <2>1, <2>2, Zenon
<1>2. PICK d \in D : \A e \in D : d <= e
  BY <1>1, LeastExists, Zenon
<1>3. PICK x \in T : d = b - x
  BY <1>2, Zenon
<1>4. \A y \in T : b - x <= b - y
  BY <1>2, <1>3, Zenon
<1> QED  BY <1>4, SMTT(30)

-----------------------------------------------------------------------------
(* The vPCI controller.                                                      *)

\* The callers that hold a reference to a device.
Assigned(g) == {c \in Assigners : assigning[c] = [phase |-> "assigned", guid |-> g]}

\* The shape of the vPCI controller's records.
VpciTypeOK ==
    /\ vpciDevices \in [Guids -> [state : {"nil", "Reserved", "Ready", "AssignedInvalid",
         "Removed"},
                                  refCount : Nat]]
    /\ deviceToGUID \in [PciDevices -> Guids \cup {NoGuid}]
    /\ vmDevices \subseteq Guids /\ readyDevices \subseteq Guids
    /\ assigning \in [Assigners -> [phase : {"idle", "reserved", "assigned", "releasing"},
                                    guid : Guids \cup {NoGuid}]]
    /\ \A c \in Assigners : assigning[c].phase # "idle" => assigning[c].guid \in Guids

\* The inductive invariant.  Only a device that is ready is assigned to anybody,
\* and a caller that is releasing without having been given it has seen a device
\* that is not, and never will be, ready under that GUID.
VpciInv ==
    /\ VpciTypeOK
    /\ vmDevices = {g \in Guids : vpciDevices[g].state \in {"Ready", "AssignedInvalid"}}
    /\ {g \in Guids : vpciDevices[g] # Untracked} = {deviceToGUID[d] : d \in PciDevices} \ {NoGuid}
    /\ \A g \in Guids : vpciDevices[g].refCount = Cardinality(Assigned(g))
    /\ \A g \in Guids : vpciDevices[g].state = "Ready" => g \in readyDevices
    /\ \A c \in Assigners :
          /\ assigning[c].phase = "assigned" => vpciDevices[assigning[c].guid].state = "Ready"
          /\ assigning[c].phase = "releasing" =>
                vpciDevices[assigning[c].guid].state \notin {"Reserved", "Ready"}

\* A controller that has just been made has no device.
LEMMA VpciInitInv == VpciInit => VpciInv
<1> SUFFICES ASSUME VpciInit PROVE VpciInv
  BY Zenon
<1>1. VpciTypeOK
  BY Zenon DEF VpciInit, VpciTypeOK, Untracked, NotAssigning
<1>2. \A g \in Guids : Assigned(g) = {}
  BY Zenon DEF VpciInit, Assigned, NotAssigning
<1>3. {deviceToGUID[d] : d \in PciDevices} \ {NoGuid} = {}
  BY Zenon DEF VpciInit
<1> QED  BY <1>1, <1>2, <1>3, FS_EmptySet, Zenon DEF VpciInit, VpciInv, Untracked, NotAssigning

\* The callers of a device can be counted.
LEMMA AssignedFinite ==
  ASSUME NEW g
  PROVE  IsFiniteSet(Assigned(g)) /\ Cardinality(Assigned(g)) \in Nat
BY VpciAssumption, FS_Subset, FS_CardinalityType, Zenon DEF Assigned

\* Reserve.
LEMMA ReserveDeviceInv ==
  ASSUME VpciInv, NEW c \in Assigners, NEW d \in PciDevices, ReserveDevice(c, d)
  PROVE  VpciInv'
<1>1. PICK g \in Guids :
        /\ IF deviceToGUID[d] # NoGuid
             THEN g = deviceToGUID[d] /\ UNCHANGED <<vpciDevices, deviceToGUID>>
             ELSE /\ Fresh(g)
                  /\ vpciDevices' = [vpciDevices EXCEPT ![g] = [state |-> "Reserved",
                       refCount |-> 0]]
                  /\ deviceToGUID' = [deviceToGUID EXCEPT ![d] = g]
        /\ assigning' = [assigning EXCEPT ![c] = [phase |-> "reserved", guid |-> g]]
  BY Zenon DEF ReserveDevice
<1>2. assigning[c].phase = "idle" /\ UNCHANGED <<vmDevices, readyDevices>>
  BY Zenon DEF ReserveDevice
<1>3. \A h \in Guids : Assigned(h)' = Assigned(h)
  BY <1>1, <1>2, SMTT(30) DEF VpciInv, VpciTypeOK, Assigned
<1>4. VpciTypeOK'
  <2>1. /\ vpciDevices' \in [Guids -> [state : {"nil", "Reserved", "Ready", "AssignedInvalid",
             "Removed"},
                                       refCount : Nat]]
        /\ deviceToGUID' \in [PciDevices -> Guids \cup {NoGuid}]
    <3>1. CASE deviceToGUID[d] # NoGuid
      BY <1>1, <3>1, Zenon DEF VpciInv, VpciTypeOK
    <3>2. CASE deviceToGUID[d] = NoGuid
      BY <1>1, <3>2, SMTT(30) DEF VpciInv, VpciTypeOK
    <3> QED  BY <3>1, <3>2, Zenon
  <2> QED  BY <1>1, <1>2, <2>1, Zenon DEF VpciInv, VpciTypeOK
<1>5. CASE deviceToGUID[d] # NoGuid
  BY <1>1, <1>2, <1>3, <1>4, <1>5, SMTT(30) DEF VpciInv, VpciTypeOK
<1>6. CASE deviceToGUID[d] = NoGuid
  <2>1. vpciDevices[g] = Untracked /\ \A k \in Assigners : assigning[k].guid # g
    BY <1>1, <1>6, Zenon DEF Fresh
  <2>2. {h \in Guids : vpciDevices'[h] # Untracked} =
            {h \in Guids : vpciDevices[h] # Untracked} \cup {g}
    BY <1>1, <1>6, <2>1, SMTT(30) DEF VpciInv, VpciTypeOK, Untracked
  <2>3. {deviceToGUID'[e] : e \in PciDevices} \ {NoGuid}
          = ({deviceToGUID[e] : e \in PciDevices} \ {NoGuid}) \cup {g}
    BY <1>1, <1>6, SMTT(30) DEF VpciInv, VpciTypeOK, Guids, NoGuid
  <2>4. \A h \in Guids : vpciDevices'[h].refCount = Cardinality(Assigned(h)')
    BY <1>1, <1>3, <1>6, <2>1, SMTT(30) DEF VpciInv, VpciTypeOK, Untracked
  <2>5. vmDevices' = {h \in Guids : vpciDevices'[h].state \in {"Ready", "AssignedInvalid"}}
    BY <1>1, <1>2, <1>6, <2>1, SMTT(30) DEF VpciInv, VpciTypeOK, Untracked
  <2>6. \A h \in Guids : vpciDevices'[h].state = "Ready" => h \in readyDevices'
    BY <1>1, <1>2, <1>6, SMTT(30) DEF VpciInv, VpciTypeOK
  <2>7. \A k \in Assigners :
          /\ assigning'[k].phase = "assigned" => vpciDevices'[assigning'[k].guid].state = "Ready"
          /\ assigning'[k].phase = "releasing" =>
                vpciDevices'[assigning'[k].guid].state \notin {"Reserved", "Ready"}
    BY <1>1, <1>2, <1>6, <2>1, Zenon DEF VpciInv, VpciTypeOK
  <2> QED  BY <1>4, <2>2, <2>3, <2>4, <2>5, <2>6, <2>7, ZenonT(40) DEF VpciInv
<1> QED  BY <1>5, <1>6, Zenon

\* AddToVM, whichever of its calls fails.
LEMMA AddToVMInv ==
  ASSUME VpciInv, NEW c \in Assigners, AddToVM(c)
  PROVE  VpciInv'
<1>0. PICK g \in Guids : g = assigning[c].guid
  BY Zenon DEF AddToVM, RemoveFromVM, VpciInv, VpciTypeOK
<1>1. assigning[c].phase = "reserved" /\ g \in Guids /\ UNCHANGED deviceToGUID
  BY <1>0, Zenon DEF AddToVM, VpciInv, VpciTypeOK
<1>2. CASE DeviceReady(c, g)
  <2>1. /\ vpciDevices[g].state \in {"Reserved", "Ready"}
        /\ vpciDevices' = [vpciDevices EXCEPT ![g] = [state |-> "Ready",
             refCount |-> vpciDevices[g].refCount + 1]]
        /\ vmDevices' = vmDevices \cup {g} /\ readyDevices' = readyDevices \cup {g}
        /\ assigning' = [assigning EXCEPT ![c].phase = "assigned"]
    BY <1>2, Zenon DEF DeviceReady
  <2>2. assigning'[c] = [phase |-> "assigned", guid |-> g]
    BY <1>0, <2>1, SMTT(30) DEF VpciInv, VpciTypeOK
  <2>3. Assigned(g)' = Assigned(g) \cup {c} /\ c \notin Assigned(g)
    BY <1>0, <1>1, <2>1, <2>2, SMTT(30) DEF VpciInv, VpciTypeOK, Assigned
  <2>4. \A h \in Guids : h # g => Assigned(h)' = Assigned(h)
    BY <1>0, <1>1, <2>1, <2>2, SMTT(30) DEF VpciInv, VpciTypeOK, Assigned
  <2>5. VpciTypeOK'
    BY <1>0, <1>1, <2>1, SMTT(30) DEF VpciInv, VpciTypeOK
  <2>6. {h \in Guids : vpciDevices'[h] # Untracked} = {h \in Guids : vpciDevices[h] # Untracked}
    BY <1>0, <1>1, <2>1, SMTT(30) DEF VpciInv, VpciTypeOK, Untracked
  <2>7. \A h \in Guids : vpciDevices'[h].refCount = Cardinality(Assigned(h)')
    <3>1. Cardinality(Assigned(g) \cup {c}) = Cardinality(Assigned(g)) + 1
      BY <2>3, AssignedFinite, FS_AddElement, Zenon
    <3> QED  BY <1>0, <1>1, <2>1, <2>3, <2>4, <3>1, Zenon DEF VpciInv, VpciTypeOK
  <2>8. vmDevices' = {h \in Guids : vpciDevices'[h].state \in {"Ready", "AssignedInvalid"}}
    BY <1>0, <1>1, <2>1, Zenon DEF VpciInv, VpciTypeOK
  <2>9. \A h \in Guids : vpciDevices'[h].state = "Ready" => h \in readyDevices'
    BY <1>0, <1>1, <2>1, ZenonT(40) DEF VpciInv, VpciTypeOK
  <2>10. \A k \in Assigners :
          /\ assigning'[k].phase = "assigned" => vpciDevices'[assigning'[k].guid].state = "Ready"
          /\ assigning'[k].phase = "releasing" =>
                vpciDevices'[assigning'[k].guid].state \notin {"Reserved", "Ready"}
    BY <1>0, <1>1, <2>1, <2>2, SMTT(30) DEF VpciInv, VpciTypeOK
  <2> QED  BY <1>0, <1>1, <2>5, <2>6, <2>7, <2>8, <2>9, <2>10, ZenonT(40) DEF VpciInv
<1>3. CASE DeviceFails(c, g)
  <2>1. /\ assigning' = [assigning EXCEPT ![c].phase = "releasing"]
        /\ UNCHANGED readyDevices
    BY <1>3, ZenonT(40) DEF DeviceFails
  <2>2. PICK s \in {"Removed", "AssignedInvalid", vpciDevices[g].state} :
          /\ vpciDevices' = [vpciDevices EXCEPT ![g].state = s]
          /\ s \notin {"Reserved", "Ready"}
          /\ s = vpciDevices[g].state \/ vpciDevices[g].state = "Reserved"
          /\ vmDevices' = IF s = "AssignedInvalid" THEN vmDevices \cup {g} ELSE vmDevices
    BY <1>0, <1>1, <1>3, SMTT(30) DEF DeviceFails, VpciInv, VpciTypeOK
  <2>3. \A h \in Guids : Assigned(h)' = Assigned(h)
    BY <1>0, <1>1, <2>1, SMTT(30) DEF VpciInv, VpciTypeOK, Assigned
  <2>4. vpciDevices[g].state # "Ready"
    BY <2>2, Zenon
  <2>5. VpciTypeOK'
    BY <1>0, <1>1, <2>1, <2>2, SMTT(30) DEF VpciInv, VpciTypeOK
  <2>6. {h \in Guids : vpciDevices'[h] # Untracked} = {h \in Guids : vpciDevices[h] # Untracked}
    BY <1>0, <1>1, <2>2, SMTT(30) DEF VpciInv, VpciTypeOK, Untracked
  <2>7. \A h \in Guids : vpciDevices'[h].refCount = Cardinality(Assigned(h)')
    BY <1>0, <1>1, <2>2, <2>3, SMTT(30) DEF VpciInv, VpciTypeOK
  <2>8. vmDevices' = {h \in Guids : vpciDevices'[h].state \in {"Ready", "AssignedInvalid"}}
    BY <1>0, <1>1, <2>2, SMTT(30) DEF VpciInv, VpciTypeOK
  <2>9. \A h \in Guids : vpciDevices'[h].state = "Ready" => h \in readyDevices'
    BY <1>0, <1>1, <2>1, <2>2, SMTT(30) DEF VpciInv, VpciTypeOK
  <2>10. \A k \in Assigners :
          /\ assigning'[k].phase = "assigned" => vpciDevices'[assigning'[k].guid].state = "Ready"
          /\ assigning'[k].phase = "releasing" =>
                vpciDevices'[assigning'[k].guid].state \notin {"Reserved", "Ready"}
    BY <1>0, <1>1, <2>1, <2>2, <2>4, SMTT(30) DEF VpciInv, VpciTypeOK
  <2> QED  BY <1>0, <1>1, <2>5, <2>6, <2>7, <2>8, <2>9, <2>10, SMTT(30) DEF VpciInv
<1> QED  BY <1>0, <1>2, <1>3, Zenon DEF AddToVM

\* A device that goes has been given to nobody but the caller that removes it.
LEMMA LastAssigned ==
  ASSUME VpciInv, NEW c \in Assigners,
         assigning[c].phase \in {"assigned", "releasing"},
           LastOfDevice(vpciDevices[assigning[c].guid])
  PROVE  Assigned(assigning[c].guid) \subseteq {c}
<1> DEFINE g == assigning[c].guid
<1>1. g \in Guids /\ vpciDevices[g].refCount \in Nat
      /\ vpciDevices[g].refCount = Cardinality(Assigned(g))
  BY Zenon DEF VpciInv, VpciTypeOK
<1>2. CASE vpciDevices[g].state # "Ready"
  BY <1>1, <1>2, SMTT(30) DEF VpciInv, VpciTypeOK, Assigned
<1>3. CASE vpciDevices[g].state = "Ready"
  <2>1. c \in Assigned(g)
    BY <1>3, Zenon DEF VpciInv, VpciTypeOK, Assigned
  <2>2. vpciDevices[g].refCount <= 1
    BY <1>3, Zenon DEF LastOfDevice
  <2>3. Cardinality(Assigned(g) \ {c}) = Cardinality(Assigned(g)) - 1 /\
          IsFiniteSet(Assigned(g) \ {c})
    BY <2>1, AssignedFinite, FS_RemoveElement, ZenonT(40)
  <2>4. Cardinality(Assigned(g) \ {c}) = 0
    BY <1>1, <2>2, <2>3, FS_CardinalityType, SMTT(30)
  <2>5. Assigned(g) \ {c} = {}
    BY <2>3, <2>4, FS_EmptySet, Zenon
  <2> QED  BY <2>5, Zenon
<1> QED  BY <1>2, <1>3, Zenon

\* RemoveFromVM, whether or not the device can be removed.
LEMMA RemoveFromVMInv ==
  ASSUME VpciInv, NEW c \in Assigners, RemoveFromVM(c)
  PROVE  VpciInv'
<1>0. PICK g \in Guids : g = assigning[c].guid
  BY Zenon DEF AddToVM, RemoveFromVM, VpciInv, VpciTypeOK
<1>1. assigning[c].phase \in {"assigned", "releasing"} /\ g \in Guids
  BY <1>0, Zenon DEF RemoveFromVM, VpciInv, VpciTypeOK
<1>2. CASE RemoveReleases(c, g) /\ LastOfDevice(vpciDevices[g])
  <2>1. /\ vpciDevices' = [vpciDevices EXCEPT ![g] = Untracked]
        /\ deviceToGUID' =
              [d \in PciDevices |-> IF deviceToGUID[d] = g THEN NoGuid ELSE deviceToGUID[d]]
        /\ vmDevices' = vmDevices \ {g} /\ readyDevices' = readyDevices \ {g}
        /\ assigning' = [assigning EXCEPT ![c] = NotAssigning]
    BY <1>2, Zenon DEF RemoveReleases, untrack
  <2>2. Assigned(g) \subseteq {c}
    BY <1>0, <1>1, <1>2, LastAssigned, ZenonT(40)
  <2>3. Assigned(g)' = {} /\ \A h \in Guids : h # g => Assigned(h)' = Assigned(h)
    BY <1>0, <1>1, <2>1, <2>2, SMTT(30) DEF VpciInv, VpciTypeOK, Assigned, NotAssigning
  <2>4. VpciTypeOK'
    BY <1>0, <1>1, <2>1, Zenon DEF VpciInv, VpciTypeOK, Untracked, NotAssigning
  <2>5. {h \in Guids : vpciDevices'[h] # Untracked} =
            {h \in Guids : vpciDevices[h] # Untracked} \ {g}
    BY <1>0, <1>1, <2>1, Zenon DEF VpciInv, VpciTypeOK
  <2>6. {deviceToGUID'[d] : d \in PciDevices} \ {NoGuid}
          = ({deviceToGUID[d] : d \in PciDevices} \ {NoGuid}) \ {g}
    BY <1>0, <1>1, <2>1, SMTT(30) DEF VpciInv, VpciTypeOK, Guids, NoGuid
  <2>7. \A h \in Guids : vpciDevices'[h].refCount = Cardinality(Assigned(h)')
    BY <1>0, <1>1, <2>1, <2>3, FS_EmptySet, ZenonT(40) DEF VpciInv, VpciTypeOK, Untracked
  <2>8. vmDevices' = {h \in Guids : vpciDevices'[h].state \in {"Ready", "AssignedInvalid"}}
    BY <1>0, <1>1, <2>1, Zenon DEF VpciInv, VpciTypeOK, Untracked
  <2>9. \A h \in Guids : vpciDevices'[h].state = "Ready" => h \in readyDevices'
    BY <1>0, <1>1, <2>1, Zenon DEF VpciInv, VpciTypeOK, Untracked
  <2>10. \A k \in Assigners :
          /\ assigning'[k].phase = "assigned" => vpciDevices'[assigning'[k].guid].state = "Ready"
          /\ assigning'[k].phase = "releasing" =>
                vpciDevices'[assigning'[k].guid].state \notin {"Reserved", "Ready"}
    BY <1>0, <1>1, <2>1, <2>2, Zenon DEF VpciInv, VpciTypeOK, Assigned, Untracked, NotAssigning
  <2> QED  BY <2>4, <2>5, <2>6, <2>7, <2>8, <2>9, <2>10, ZenonT(40) DEF VpciInv
<1>3. CASE RemoveReleases(c, g) /\ ~LastOfDevice(vpciDevices[g])
  <2>1. /\ vpciDevices' = [vpciDevices EXCEPT ![g].refCount = vpciDevices[g].refCount - 1]
        /\ UNCHANGED <<deviceToGUID, vmDevices, readyDevices>>
        /\ assigning' = [assigning EXCEPT ![c] = NotAssigning]
    BY <1>3, Zenon DEF RemoveReleases
  <2>2. vpciDevices[g].state = "Ready" /\ vpciDevices[g].refCount \in Nat /\
          vpciDevices[g].refCount > 1
    BY <1>0, <1>1, <1>3, SMTT(30) DEF LastOfDevice, VpciInv, VpciTypeOK
  <2>3. c \in Assigned(g)
    BY <1>0, <1>1, <2>2, Zenon DEF VpciInv, VpciTypeOK, Assigned
  <2>4. Assigned(g)' = Assigned(g) \ {c} /\ \A h \in Guids : h # g => Assigned(h)' = Assigned(h)
    BY <1>0, <1>1, <2>1, SMTT(30) DEF VpciInv, VpciTypeOK, Assigned, NotAssigning
  <2>5. VpciTypeOK'
    BY <1>0, <1>1, <2>1, <2>2, SMTT(30) DEF VpciInv, VpciTypeOK, NotAssigning
  <2>6. {h \in Guids : vpciDevices'[h] # Untracked} = {h \in Guids : vpciDevices[h] # Untracked}
    BY <1>0, <1>1, <2>1, <2>2, SMTT(30) DEF VpciInv, VpciTypeOK, Untracked
  <2>7. \A h \in Guids : vpciDevices'[h].refCount = Cardinality(Assigned(h)')
    <3>1. Cardinality(Assigned(g) \ {c}) = Cardinality(Assigned(g)) - 1
      BY <2>3, AssignedFinite, FS_RemoveElement, Zenon
    <3>2. vpciDevices'[g].refCount = Cardinality(Assigned(g)) - 1
      BY <2>1 DEF VpciInv, VpciTypeOK
    <3>3. \A h \in Guids : h # g => vpciDevices'[h].refCount = Cardinality(Assigned(h))
      BY <2>1, Zenon DEF VpciInv, VpciTypeOK
    <3> QED  BY <2>4, <3>1, <3>2, <3>3, Zenon
  <2>8. vmDevices' = {h \in Guids : vpciDevices'[h].state \in {"Ready", "AssignedInvalid"}}
    BY <1>0, <1>1, <2>1, SMTT(30) DEF VpciInv, VpciTypeOK
  <2>9. \A h \in Guids : vpciDevices'[h].state = "Ready" => h \in readyDevices'
    BY <1>0, <1>1, <2>1, SMTT(30) DEF VpciInv, VpciTypeOK
  <2>10. \A k \in Assigners :
          /\ assigning'[k].phase = "assigned" => vpciDevices'[assigning'[k].guid].state = "Ready"
          /\ assigning'[k].phase = "releasing" =>
                vpciDevices'[assigning'[k].guid].state \notin {"Reserved", "Ready"}
    BY <1>0, <1>1, <2>1, <2>2, SMTT(30) DEF VpciInv, VpciTypeOK, NotAssigning
  <2> QED  BY <2>1, <2>5, <2>6, <2>7, <2>8, <2>9, <2>10, SMTT(30) DEF VpciInv
<1>4. CASE RemoveFails(c, g) /\ vpciDevices[g] = Untracked
  <2>1. g \notin vmDevices
    BY <1>0, <1>1, <1>4, SMTT(30) DEF VpciInv, Untracked
  <2>2. assigning' = [assigning EXCEPT ![c].phase = "releasing"]
        /\ UNCHANGED <<vpciDevices, deviceToGUID, vmDevices, readyDevices>>
    BY <1>4, <2>1, Zenon DEF RemoveFails
  <2>3. assigning[c].phase = "releasing"
    BY <1>0, <1>1, <1>4, SMTT(30) DEF VpciInv, Untracked
  <2>4. assigning' = assigning
    BY <2>2, <2>3, SMTT(30) DEF VpciInv, VpciTypeOK
  <2> QED  BY <2>2, <2>4, SMTT(30) DEF VpciInv, VpciTypeOK, Assigned
<1>5. CASE RemoveFails(c, g) /\ vpciDevices[g] # Untracked
  <2>1. /\ g \in vmDevices /\ LastOfDevice(vpciDevices[g])
        /\ vpciDevices' = [vpciDevices EXCEPT ![g] = [state |-> "AssignedInvalid", refCount |-> 0]]
        /\ assigning' = [assigning EXCEPT ![c].phase = "releasing"]
        /\ UNCHANGED <<deviceToGUID, vmDevices, readyDevices>>
    BY <1>5, Zenon DEF RemoveFails
  <2>2. Assigned(g) \subseteq {c}
    BY <1>0, <1>1, <2>1, LastAssigned, ZenonT(40)
  <2>3. Assigned(g)' = {} /\ \A h \in Guids : h # g => Assigned(h)' = Assigned(h)
    BY <1>0, <1>1, <2>1, <2>2, SMTT(30) DEF VpciInv, VpciTypeOK, Assigned
  <2>4. VpciTypeOK'
    BY <1>0, <1>1, <2>1, SMTT(30) DEF VpciInv, VpciTypeOK
  <2>5. {h \in Guids : vpciDevices'[h] # Untracked} = {h \in Guids : vpciDevices[h] # Untracked}
    BY <1>0, <1>1, <1>5, <2>1, Zenon DEF VpciInv, VpciTypeOK, Untracked
  <2>7. \A h \in Guids : vpciDevices'[h].refCount = Cardinality(Assigned(h)')
    <3>1. Cardinality({}) = 0 /\ 0 # 1
      BY FS_EmptySet
    <3>2. vpciDevices'[g].refCount = 0 /\ \A h \in Guids : h # g => vpciDevices'[h] = vpciDevices[h]
      BY <1>0, <1>1, <2>1, Zenon DEF VpciInv, VpciTypeOK
    <3> QED  BY <1>0, <2>3, <3>1, <3>2, Zenon DEF VpciInv
  <2>8. vmDevices' = {h \in Guids : vpciDevices'[h].state \in {"Ready", "AssignedInvalid"}}
    BY <1>0, <1>1, <2>1, Zenon DEF VpciInv, VpciTypeOK
  <2>9. \A h \in Guids : vpciDevices'[h].state = "Ready" => h \in readyDevices'
    BY <1>0, <1>1, <2>1, ZenonT(40) DEF VpciInv, VpciTypeOK
  <2>10. \A k \in Assigners :
          /\ assigning'[k].phase = "assigned" => vpciDevices'[assigning'[k].guid].state = "Ready"
          /\ assigning'[k].phase = "releasing" =>
                vpciDevices'[assigning'[k].guid].state \notin {"Reserved", "Ready"}
    BY <1>0, <1>1, <2>1, <2>2, SMTT(30) DEF VpciInv, VpciTypeOK, Assigned
  <2> QED  BY <2>1, <2>4, <2>5, <2>7, <2>8, <2>9, <2>10, SMTT(30) DEF VpciInv
<1> QED  BY <1>0, <1>2, <1>3, <1>4, <1>5, ZenonT(40) DEF RemoveFromVM

\* Every step of the vPCI controller keeps its invariant.
LEMMA VpciStep ==
  ASSUME VpciInv, [VpciNext]_vpciVars
  PROVE  VpciInv'
<1>1. CASE VpciNext
  BY <1>1, ReserveDeviceInv, AddToVMInv, RemoveFromVMInv, ZenonT(40) DEF VpciNext
<1>2. CASE UNCHANGED vpciVars
  BY <1>2 DEF vpciVars, VpciInv, VpciTypeOK, Assigned
<1> QED  BY <1>1, <1>2, Zenon

\* What the invariant says of the devices callers were given.
LEMMA VpciServes == VpciInv => DevicesReady /\ DevicesTracked
BY Zenon DEF VpciInv, VpciTypeOK, DevicesReady, DevicesTracked, Assigned

-----------------------------------------------------------------------------
(* The Plan9 controller.                                                     *)

\* The callers that have a reservation on a path.
Users(p) == {c \in Sharers : sharing[c].phase # "idle" /\ sharing[c].path = p}

\* The records of the Plan9 controller.
ShareMounts == [state : {"nil", "Reserved", "Mounted", "Invalid"}, refCount : Nat]
Shares == [state : {"nil", "Reserved", "Added", "Invalid"}, name : Names \cup {NoName},
           config : ShareConfigs \cup {NoConfig}, mount : ShareMounts]

\* What a caller knows of its share.
Callers == [phase : {"idle", "reserved", "mapped", "releasing"},
            path : HostPaths \cup {NoName}, name : Names \cup {NoName}]

\* The shape of the Plan9 controller's records.
Plan9TypeOK ==
    /\ sharesByHostPath \in [HostPaths -> Shares]
    /\ vmShares \subseteq Names /\ guestShares \subseteq Names
    /\ sharing \in [Sharers -> Callers]
    /\ \A c \in Sharers : sharing[c].phase # "idle" => sharing[c].path \in HostPaths

\* A share that is not there has no users; one that is there has a name, a
\* mount, and one reference for each user.
SoundShare(s, users) ==
    IF s.state = "nil" THEN s = NilShare /\ users = {}
    ELSE /\ s.name \in Names
         /\ s.mount.state # "nil" /\ s.mount.refCount >= 1
         /\ s.mount.refCount = Cardinality(users)
         /\ s.mount.state = "Mounted" => s.state = "Added"

\* A caller that has called MapToGuest has seen a share that is not Reserved
\* any more, and one that succeeded has the mount of the share.
SoundCaller(r, s) ==
    /\ r.phase \in {"mapped", "releasing"} => s.state \in {"Added", "Invalid"}
    /\ r.phase = "mapped" => r.name = s.name /\ s.mount.state = "Mounted"

\* The paths whose share the VM has, and those whose share is mounted.
Added == {p \in HostPaths : sharesByHostPath[p].state = "Added"}
Mounted == {p \in HostPaths : sharesByHostPath[p].mount.state = "Mounted"}

\* The inductive invariant.
Plan9Inv ==
    /\ Plan9TypeOK
    /\ \A p \in HostPaths : SoundShare(sharesByHostPath[p], Users(p))
    /\ \A c \in Sharers :
          sharing[c].phase # "idle" => SoundCaller(sharing[c], sharesByHostPath[sharing[c].path])
    /\ \A p, q \in HostPaths :
          sharesByHostPath[p].state # "nil" /\ sharesByHostPath[q].state # "nil" /\ p # q =>
              sharesByHostPath[p].name # sharesByHostPath[q].name
    /\ vmShares = {sharesByHostPath[p].name : p \in Added}
    /\ guestShares = {sharesByHostPath[p].name : p \in Mounted}

\* No share is called NoName.
LEMMA NoNameIsNone == NoName \notin Names
BY Plan9Assumption DEF NoName

\* The callers on a path can be counted.
LEMMA UsersFinite ==
  ASSUME NEW p
  PROVE  IsFiniteSet(Users(p)) /\ Cardinality(Users(p)) \in Nat
BY Plan9Assumption, FS_Subset, FS_CardinalityType, Zenon DEF Users

\* A controller that has just been made has no share.
LEMMA Plan9InitInv == Plan9Init => Plan9Inv
<1> SUFFICES ASSUME Plan9Init PROVE Plan9Inv
  BY Zenon
<1>1. Plan9TypeOK
  BY Zenon DEF Plan9Init, Plan9TypeOK, NilShare, NilShareMount, NotSharing, Shares,
     ShareMounts, Callers
<1>2. \A p \in HostPaths : SoundShare(sharesByHostPath[p], Users(p))
  BY Zenon DEF Plan9Init, SoundShare, Users, NilShare, NotSharing
<1>3. Added = {} /\ Mounted = {}
  BY Zenon DEF Plan9Init, Added, Mounted, NilShare, NilShareMount
<1> QED  BY <1>1, <1>2, <1>3, Zenon DEF Plan9Init, Plan9Inv, NotSharing, NilShare

\* A step of a caller on a path: the share becomes t, the caller's record r, and
\* the VM and the guest have the name of the share or not.
ShareUpdate(p, c, t, r) ==
    /\ sharesByHostPath' = [sharesByHostPath EXCEPT ![p] = t]
    /\ sharing' = [sharing EXCEPT ![c] = r]
    /\ r.phase # "idle" => r.path = p
    /\ sharing[c].phase # "idle" => sharing[c].path = p
    /\ SoundShare(t, Users(p)')
    /\ r.phase # "idle" => SoundCaller(r, t)
    /\ \A k \in Users(p) : k # c => SoundCaller(sharing[k], t)
    /\ t.state # "nil" => \A q \in HostPaths :
          q # p /\ sharesByHostPath[q].state # "nil" => sharesByHostPath[q].name # t.name
    /\ t.state = "Added" => sharesByHostPath[p].state # "nil" /\ t.name = sharesByHostPath[p].name
    /\ vmShares' = IF t.state = "Added" THEN vmShares \cup {t.name}
                   ELSE vmShares \ {sharesByHostPath[p].name}
    /\ guestShares' = IF t.mount.state = "Mounted" THEN guestShares \cup {t.name}
                      ELSE guestShares \ {sharesByHostPath[p].name}

\* Every step of a caller is such an update, and such an update keeps the
\* invariant.
LEMMA Plan9Update ==
  ASSUME Plan9Inv, NEW p \in HostPaths, NEW c \in Sharers, NEW t \in Shares, NEW r \in Callers,
         ShareUpdate(p, c, t, r)
  PROVE  Plan9Inv'
<1> USE DEF ShareUpdate
<1> DEFINE s == sharesByHostPath[p]
<1>1. \A q \in HostPaths : sharesByHostPath'[q] = IF q = p THEN t ELSE sharesByHostPath[q]
  BY Zenon DEF Plan9Inv, Plan9TypeOK
<1>2. \A k \in Sharers : sharing'[k] = IF k = c THEN r ELSE sharing[k]
  BY Zenon DEF Plan9Inv, Plan9TypeOK
<1>3. t.mount.state = "Mounted" => t.state = "Added"
  BY DEF SoundShare, NilShare, NilShareMount
<1>4. t.state = "Added" => t.name \in Names
  BY Zenon DEF SoundShare
<1>5. Plan9TypeOK'
  <2>1. sharesByHostPath' \in [HostPaths -> Shares] /\ sharing' \in [Sharers -> Callers]
    BY Zenon DEF Plan9Inv, Plan9TypeOK
  <2>2. vmShares' \subseteq Names /\ guestShares' \subseteq Names
    BY <1>3, <1>4, Zenon DEF Plan9Inv, Plan9TypeOK
  <2>3. \A k \in Sharers : sharing'[k].phase # "idle" => sharing'[k].path \in HostPaths
    BY <1>2, Zenon DEF Plan9Inv, Plan9TypeOK
  <2> QED  BY <2>1, <2>2, <2>3, Zenon DEF Plan9TypeOK
<1>6. \A q \in HostPaths : q # p => Users(q)' = Users(q)
  BY <1>2, SMTT(30) DEF Users
<1>7. \A q \in HostPaths : SoundShare(sharesByHostPath'[q], Users(q)')
  <2> TAKE q \in HostPaths
  <2>1. CASE q = p
    BY <2>1, <1>1, Zenon DEF Users
  <2>2. CASE q # p
    <3>1. SoundShare(sharesByHostPath[q], Users(q))
      BY Zenon DEF Plan9Inv
    <3>2. sharesByHostPath'[q] = sharesByHostPath[q] /\ Users(q)' = Users(q)
      BY <2>2, <1>1, <1>6, Zenon
    <3> QED  BY <3>1, <3>2, Zenon
  <2> QED  BY <2>1, <2>2, Zenon
<1>8. \A k \in Sharers :
        sharing'[k].phase # "idle" => SoundCaller(sharing'[k], sharesByHostPath'[sharing'[k].path])
  <2> SUFFICES ASSUME NEW k \in Sharers, sharing'[k].phase # "idle"
               PROVE  SoundCaller(sharing'[k], sharesByHostPath'[sharing'[k].path])
    BY ZenonT(40)
  <2>1. CASE k = c
    <3>1. sharing'[k] = r /\ sharesByHostPath'[p] = t
      BY <1>1, <1>2, <2>1, Zenon
    <3> QED  BY <3>1, Zenon
  <2>2. CASE k # c /\ sharing[k].path = p
    <3>1. sharing'[k] = sharing[k] /\ sharesByHostPath'[p] = t
      BY <1>1, <1>2, <2>2, Zenon
    <3>2. k \in Users(p)
      BY <3>1, <2>2, Zenon DEF Users
    <3> QED  BY <3>1, <3>2, <2>2, Zenon
  <2>3. CASE k # c /\ sharing[k].path # p
    BY <1>1, <1>2, <2>3, ZenonT(40) DEF Plan9Inv, Plan9TypeOK
  <2> QED  BY <2>1, <2>2, <2>3, ZenonT(40)
<1>9. \A q, u \in HostPaths :
        sharesByHostPath'[q].state # "nil" /\ sharesByHostPath'[u].state # "nil" /\ q # u =>
            sharesByHostPath'[q].name # sharesByHostPath'[u].name
  <2> TAKE q, u \in HostPaths
  <2>1. CASE q # p /\ u # p
    <3>1. sharesByHostPath'[q] = sharesByHostPath[q] /\ sharesByHostPath'[u] = sharesByHostPath[u]
      BY <2>1, <1>1, Zenon
    <3> QED  BY <3>1, Zenon DEF Plan9Inv
  <2>2. CASE q = p /\ u # p
    <3>1. sharesByHostPath'[q] = t /\ sharesByHostPath'[u] = sharesByHostPath[u]
      BY <2>2, <1>1, Zenon
    <3> QED  BY <3>1, <2>2, Zenon
  <2>3. CASE q # p /\ u = p
    <3>1. sharesByHostPath'[u] = t /\ sharesByHostPath'[q] = sharesByHostPath[q]
      BY <2>3, <1>1, Zenon
    <3> QED  BY <3>1, <2>3, Zenon
  <2> QED  BY <2>1, <2>2, <2>3, Zenon
<1>10. \A q \in HostPaths : q # p /\ sharesByHostPath[q].state # "nil" =>
         sharesByHostPath[q].name # s.name
  BY NoNameIsNone, SMTT(30) DEF Plan9Inv, SoundShare, NilShare
<1>11. vmShares' = {sharesByHostPath'[q].name : q \in Added'}
  <2>1. \A q \in HostPaths : q \in Added' <=> IF q = p THEN t.state = "Added" ELSE q \in Added
    BY <1>1, Zenon DEF Added
  <2>2. Added \subseteq HostPaths /\ Added' \subseteq HostPaths
    BY Zenon DEF Added
  <2>3. \A q \in Added : q # p => sharesByHostPath[q].name # s.name
    BY <1>10, Zenon DEF Added
  <2>4. CASE t.state = "Added"
    <3>1. \A n : n \in vmShares' <=> n = t.name \/ \E q \in Added : n = sharesByHostPath[q].name
      BY <2>4, Zenon DEF Plan9Inv
    <3>2. \A n : n \in {sharesByHostPath'[q].name : q \in Added'} <=>
                 n = t.name \/ \E q \in Added : q # p /\ n = sharesByHostPath[q].name
      BY <1>1, <2>1, <2>2, <2>4, SMTT(30)
    <3>3. s.name = t.name
      BY <2>4, Zenon
    <3>4. \A n : n \in vmShares' <=> n \in {sharesByHostPath'[q].name : q \in Added'}
      <4>1. \A q \in Added : q = p => sharesByHostPath[q].name = t.name
        BY <3>3, Zenon
      <4> DEFINE V == {sharesByHostPath'[q].name : q \in Added'}
      <4>2. \A n : n \in V <=> n = t.name \/ \E q \in Added : q # p /\ n = sharesByHostPath[q].name
        BY <3>2, Zenon
      <4> HIDE DEF s, V, ShareUpdate
      <4>3. \A n : n \in vmShares' <=> n \in V
        BY <3>1, <4>1, <4>2, ZenonT(40)
      <4> QED  BY <4>3, Zenon DEF V
    <3> QED  BY <3>4, Zenon
  <2>5. CASE t.state # "Added"
    <3>1. \A n : n \in vmShares' <=> n # s.name /\ \E q \in Added : n = sharesByHostPath[q].name
      BY <2>5, ZenonT(40) DEF Plan9Inv
    <3>2. \A n : n \in {sharesByHostPath'[q].name : q \in Added'} <=>
                 \E q \in Added : q # p /\ n = sharesByHostPath[q].name
      BY <1>1, <2>1, <2>2, <2>5, SMTT(30)
    <3>4. \A n : n \in vmShares' <=> n \in {sharesByHostPath'[q].name : q \in Added'}
      <4>1. \A q \in Added : q = p => sharesByHostPath[q].name = s.name
        BY Zenon
      <4> DEFINE V == {sharesByHostPath'[q].name : q \in Added'}
      <4>2. \A n : n \in V <=> \E q \in Added : q # p /\ n = sharesByHostPath[q].name
        BY <3>2, Zenon
      <4> HIDE DEF s, V, ShareUpdate
      <4>3. \A n : n \in vmShares' <=> n \in V
        BY <2>3, <3>1, <4>1, <4>2, Zenon
      <4> QED  BY <4>3, Zenon DEF V
    <3> QED  BY <3>4, Zenon
  <2> QED  BY <2>4, <2>5, Zenon
<1>12. guestShares' = {sharesByHostPath'[q].name : q \in Mounted'}
  <2>1. \A q \in HostPaths : q \in Mounted' <=>
          IF q = p THEN t.mount.state = "Mounted" ELSE q \in Mounted
    BY <1>1, Zenon DEF Mounted
  <2>2. Mounted \subseteq HostPaths /\ Mounted' \subseteq HostPaths
    BY ZenonT(40) DEF Mounted
  <2>3. \A q \in Mounted : q # p => sharesByHostPath[q].name # s.name
    BY <1>10, SMTT(30) DEF Mounted, Plan9Inv, SoundShare, NilShare, NilShareMount
  <2>4. CASE t.mount.state = "Mounted"
    <3>1. \A n : n \in guestShares' <=> n = t.name \/
            \E q \in Mounted : n = sharesByHostPath[q].name
      BY <2>4, ZenonT(40) DEF Plan9Inv
    <3>2. \A n : n \in {sharesByHostPath'[q].name : q \in Mounted'} <=>
                 n = t.name \/ \E q \in Mounted : q # p /\ n = sharesByHostPath[q].name
      BY <1>1, <2>1, <2>2, <2>4, SMTT(30)
    <3>3. s.name = t.name
      BY <1>3, <2>4, ZenonT(40)
    <3>4. \A n : n \in guestShares' <=> n \in {sharesByHostPath'[q].name : q \in Mounted'}
      <4>1. \A q \in Mounted : q = p => sharesByHostPath[q].name = t.name
        BY <3>3, Zenon
      <4> DEFINE V == {sharesByHostPath'[q].name : q \in Mounted'}
      <4>2. \A n : n \in V <=> n = t.name \/ \E q \in Mounted : q # p /\
              n = sharesByHostPath[q].name
        BY <3>2, Zenon
      <4> HIDE DEF s, V, ShareUpdate
      <4>3. \A n : n \in guestShares' <=> n \in V
        BY <3>1, <4>1, <4>2, ZenonT(40)
      <4> QED  BY <4>3, Zenon DEF V
    <3> QED  BY <3>4, Zenon
  <2>5. CASE t.mount.state # "Mounted"
    <3>1. \A n : n \in guestShares' <=> n # s.name /\
            \E q \in Mounted : n = sharesByHostPath[q].name
      BY <2>5, ZenonT(40) DEF Plan9Inv
    <3>2. \A n : n \in {sharesByHostPath'[q].name : q \in Mounted'} <=>
                 \E q \in Mounted : q # p /\ n = sharesByHostPath[q].name
      BY <1>1, <2>1, <2>2, <2>5, SMTT(30)
    <3>4. \A n : n \in guestShares' <=> n \in {sharesByHostPath'[q].name : q \in Mounted'}
      <4>1. \A q \in Mounted : q = p => sharesByHostPath[q].name = s.name
        BY Zenon
      <4> DEFINE V == {sharesByHostPath'[q].name : q \in Mounted'}
      <4>2. \A n : n \in V <=> \E q \in Mounted : q # p /\ n = sharesByHostPath[q].name
        BY <3>2, Zenon
      <4> HIDE DEF s, V, ShareUpdate
      <4>3. \A n : n \in guestShares' <=> n \in V
        BY <2>3, <3>1, <4>1, <4>2, Zenon
      <4> QED  BY <4>3, Zenon DEF V
    <3> QED  BY <3>4, Zenon
  <2> QED  BY <2>4, <2>5, Zenon
<1> QED  BY <1>5, <1>7, <1>8, <1>9, <1>11, <1>12, ZenonT(40) DEF Plan9Inv

\* There is always a name that nobody knows, and nameCounter gives it.
LEMMA NextNameUnused == Plan9Inv => NextName \in Names /\ Unused(NextName)
<1> SUFFICES ASSUME Plan9Inv PROVE NextName \in Names /\ Unused(NextName)
  BY Zenon
<1> DEFINE f == [p \in HostPaths |-> sharesByHostPath[p].name]
           g == [c \in Sharers |-> sharing[c].name]
           Known == Range(f) \cup Range(g)
           Free == {n \in Names : n \notin Known}
<1>1. IsFiniteSet(Range(f)) /\ Cardinality(Range(f)) <= Cardinality(HostPaths)
      /\ Cardinality(Range(f)) \in Nat
  <2>1. f \in Surjection(HostPaths, Range(f))
    BY Zenon DEF Surjection, Range
  <2> QED  BY <2>1, Plan9Assumption, FS_Surjection, FS_CardinalityType, ZenonT(40)
<1>2. IsFiniteSet(Range(g)) /\ Cardinality(Range(g)) <= Cardinality(Sharers)
      /\ Cardinality(Range(g)) \in Nat
  <2>1. g \in Surjection(Sharers, Range(g))
    BY Zenon DEF Surjection, Range
  <2> QED  BY <2>1, Plan9Assumption, FS_Surjection, FS_CardinalityType, ZenonT(40)
<1>3. IsFiniteSet(Known) /\ Cardinality(Known) <= Cardinality(HostPaths) + Cardinality(Sharers)
  <2>1. IsFiniteSet(Range(f) \cup Range(g)) /\ Cardinality(Range(f) \cup Range(g))
          = Cardinality(Range(f)) + Cardinality(Range(g)) - Cardinality(Range(f) \cap Range(g))
    BY <1>1, <1>2, FS_Union, Zenon
  <2>2. Cardinality(Range(f) \cap Range(g)) \in Nat
    BY <1>1, FS_Intersection, FS_CardinalityType, Zenon
  <2>3. Cardinality(HostPaths) \in Nat /\ Cardinality(Sharers) \in Nat
    BY Plan9Assumption, FS_CardinalityType, Zenon
  <2> HIDE DEF f, g
  <2> QED  BY <1>1, <1>2, <2>1, <2>2, <2>3, SMTT(30)
<1>4. Free # {}
  <2> SUFFICES ASSUME Free = {} PROVE FALSE
    BY Zenon
  <2>1. Names \in SUBSET Known
    BY Zenon
  <2> HIDE DEF Known
  <2>2. IsFiniteSet(Names) /\ Cardinality(Names) <= Cardinality(Known)
    BY <1>3, <2>1, FS_Subset, Zenon
  <2>3. /\ Cardinality(HostPaths) \in Nat /\ Cardinality(Sharers) \in Nat
        /\ Cardinality(Names) \in Nat /\ Cardinality(Known) \in Nat
    BY <1>3, <2>2, Plan9Assumption, FS_CardinalityType, ZenonT(40)
  <2> QED  BY <1>3, <2>2, <2>3, Plan9Assumption, SMTT(30)
<1>5. \A n \in Free : Unused(n)
  <2> SUFFICES ASSUME NEW n \in Free PROVE Unused(n)
    BY Zenon
  <2>1. \A p \in HostPaths : sharesByHostPath[p].name # n
    BY Zenon DEF Range
  <2>2. \A c \in Sharers : sharing[c].name # n
    BY Zenon DEF Range
  <2>3. n \notin vmShares \cup guestShares
    BY <2>1, Zenon DEF Plan9Inv, Added, Mounted
  <2> QED  BY <2>1, <2>2, <2>3, Zenon DEF Unused
<1> DEFINE T == {n \in Names : Unused(n)}
<1>6. T \in SUBSET Nat /\ T # {}
  BY <1>4, <1>5, Plan9Assumption, Zenon
<1>7. PICK x \in T : \A y \in T : x <= y
  BY <1>6, LeastExists, Zenon
<1> HIDE DEF f, g, Known, Free
<1> QED  BY <1>7, Zenon DEF NextName

\* What a caller of UnmapFromGuest or MapToGuest finds.
LEMMA CallerShare ==
  ASSUME Plan9Inv, NEW c \in Sharers, sharing[c].phase # "idle"
  PROVE  LET p == sharing[c].path IN
         /\ p \in HostPaths /\ c \in Users(p)
         /\ sharesByHostPath[p] \in Shares /\ sharing[c] \in Callers
         /\ sharesByHostPath[p].state # "nil" /\ SoundShare(sharesByHostPath[p], Users(p))
         /\ SoundCaller(sharing[c], sharesByHostPath[p])
         /\ \A k \in Users(p) : SoundCaller(sharing[k], sharesByHostPath[p])
BY Zenon DEF Plan9Inv, Plan9TypeOK, SoundShare, Users

\* The name of a share that is not in the VM, or not mounted, is not there.
LEMMA NameAbsent ==
  ASSUME Plan9Inv, NEW p \in HostPaths, sharesByHostPath[p].state # "nil"
  PROVE  /\ sharesByHostPath[p].state # "Added" => sharesByHostPath[p].name \notin vmShares
         /\ sharesByHostPath[p].mount.state # "Mounted" =>
              sharesByHostPath[p].name \notin guestShares
<1>1. \A q \in Added : sharesByHostPath[q].name = sharesByHostPath[p].name => q = p
  BY ZenonT(40) DEF Plan9Inv, Added
<1>2. \A q \in Mounted : sharesByHostPath[q].name = sharesByHostPath[p].name => q = p
  BY DEF Plan9Inv, Mounted, SoundShare, NilShare, NilShareMount
<1> QED  BY <1>1, <1>2, Zenon DEF Plan9Inv, Added, Mounted

\* Reserve takes a name no share has: there are more names than shares.
LEMMA ReserveShareInv ==
  ASSUME Plan9Inv, NEW c \in Sharers, NEW p \in HostPaths, NEW cfg \in ShareConfigs,
         ReserveShare(c, p, cfg)
  PROVE  Plan9Inv'
<1> DEFINE r == [phase |-> "reserved", path |-> p, name |-> NoName]
<1>1. /\ sharing[c].phase = "idle"
      /\ sharing' = [sharing EXCEPT ![c] = r]
      /\ UNCHANGED <<vmShares, guestShares>>
  BY Zenon DEF ReserveShare
<1>2. r \in Callers
  BY Zenon DEF Callers
<1>3. Users(p)' = Users(p) \cup {c} /\ c \notin Users(p)
  BY <1>1, Zenon DEF Users, Plan9Inv, Plan9TypeOK
<1>4. Cardinality(Users(p)') = Cardinality(Users(p)) + 1 /\ Cardinality(Users(p)) \in Nat
  BY <1>3, UsersFinite, FS_AddElement, ZenonT(40)
<1>5. CASE sharesByHostPath[p] # NilShare
  <2> DEFINE s == sharesByHostPath[p]
             t == [s EXCEPT !.mount.refCount = @ + 1]
  <2>1. s \in Shares /\ s.state # "nil" /\ SoundShare(s, Users(p))
    BY <1>5, ZenonT(40) DEF Plan9Inv, Plan9TypeOK, SoundShare
  <2>2. s.mount # NilShareMount
    BY <2>1, SMTT(30) DEF SoundShare, NilShareMount
  <2>3. sharesByHostPath' = [sharesByHostPath EXCEPT ![p] = t] /\ MayReserveMount(s)
    BY <1>5, <2>2, ZenonT(40) DEF ReserveShare, ReserveShareMount
  <2>4. t \in Shares /\ t.state = s.state /\ t.name = s.name /\ t.mount.state = s.mount.state
        /\ t.mount.refCount = s.mount.refCount + 1
    BY <2>1, SMTT(30) DEF Shares, ShareMounts
  <2> HIDE DEF t
  <2>5. SoundShare(t, Users(p)')
    BY <1>4, <2>1, <2>4, SMTT(30) DEF SoundShare
  <2>6. SoundCaller(r, t)
    BY Zenon DEF SoundCaller
  <2>7. \A k \in Users(p) : SoundCaller(sharing[k], t)
    BY <2>4, ZenonT(40) DEF Plan9Inv, Users, SoundCaller
  <2>8. \A q \in HostPaths : q # p /\ sharesByHostPath[q].state # "nil" =>
          sharesByHostPath[q].name # t.name
    BY <2>1, <2>4, Zenon DEF Plan9Inv
  <2>9. vmShares' = IF t.state = "Added" THEN vmShares \cup {t.name} ELSE vmShares \ {s.name}
    BY <1>1, <2>1, <2>4, NameAbsent, ZenonT(40) DEF Plan9Inv, Added
  <2>10. guestShares' = IF t.mount.state = "Mounted" THEN guestShares \cup {t.name}
                        ELSE guestShares \ {s.name}
    BY <1>1, <2>1, <2>4, NameAbsent, ZenonT(40) DEF Plan9Inv, Mounted
  <2> HIDE DEF s, r
  <2>11. r.path = p
    BY Zenon DEF r
  <2>20. ShareUpdate(p, c, t, r)
    BY <1>1, <1>2, <2>1, <2>3, <2>4, <2>5, <2>6, <2>7, <2>8, <2>9, <2>10, <2>11, ZenonT(40)
       DEF ShareUpdate, s
  <2> QED  BY <1>1, <1>2, <2>1, <2>3, <2>4, <2>5, <2>6, <2>7, <2>8, <2>9, <2>10, <2>11, <2>20,
              Plan9Update, ZenonT(40)
<1>6. CASE sharesByHostPath[p] = NilShare
  <2> DEFINE t == [state |-> "Reserved", name |-> NextName, config |-> cfg,
                   mount |-> [state |-> "Reserved", refCount |-> 1]]
  <2>1. sharesByHostPath' = [sharesByHostPath EXCEPT ![p] = t]
    <3>1. ReserveShareMount(NewShare(cfg)) = t
      BY Zenon DEF ReserveShareMount, NewShare, NilShareMount
    <3> QED  BY <1>6, <3>1, Zenon DEF ReserveShare
  <2>2. NextName \in Names /\ Unused(NextName)
    BY NextNameUnused, Zenon
  <2>3. t \in Shares
    BY <2>2, ZenonT(40) DEF Shares, ShareMounts
  <2>7. Users(p) = {}
    BY <1>6, SMTT(30) DEF Plan9Inv, SoundShare, NilShare
  <2>4. Cardinality(Users(p)) = 0
    BY <2>7, FS_EmptySet, Zenon
  <2>5. SoundShare(t, Users(p)')
    BY <1>4, <2>2, <2>4, SMTT(30) DEF SoundShare
  <2>6. SoundCaller(r, t)
    BY Zenon DEF SoundCaller
  <2>8. \A q \in HostPaths : q # p /\ sharesByHostPath[q].state # "nil" =>
          sharesByHostPath[q].name # t.name
    BY <2>2, ZenonT(40) DEF Unused
  <2>9. vmShares' = vmShares \ {sharesByHostPath[p].name} /\
          guestShares' = guestShares \ {sharesByHostPath[p].name}
    BY <1>1, <1>6, NoNameIsNone, SMTT(30) DEF Plan9Inv, Plan9TypeOK, NilShare
  <2>10. t.state = "Reserved" /\ t.mount.state = "Reserved" /\ r.path = p
    BY Zenon
  <2> HIDE DEF t, r
  <2>20. ShareUpdate(p, c, t, r)
    BY <1>1, <1>2, <2>1, <2>3, <2>5, <2>6, <2>7, <2>8, <2>9, <2>10, ZenonT(40) DEF ShareUpdate
  <2> QED  BY <1>1, <1>2, <2>1, <2>3, <2>5, <2>6, <2>7, <2>8, <2>9, <2>10, <2>20, Plan9Update,
              ZenonT(40)
<1> QED  BY <1>5, <1>6, Zenon

\* MapToGuest adds and mounts the share, whichever call fails.
LEMMA MapShareInv ==
  ASSUME Plan9Inv, NEW c \in Sharers, MapShare(c)
  PROVE  Plan9Inv'
<1>1. PICK p \in HostPaths : p = sharing[c].path
  BY CallerShare, Zenon DEF MapShare
<1>2. PICK s \in Shares : s = sharesByHostPath[p]
  BY <1>1, Zenon DEF Plan9Inv, Plan9TypeOK
<1>3. sharing[c].phase = "reserved" /\ s.state # "nil" /\ SoundShare(s, Users(p)) /\
        sharing[c] \in Callers
      /\ c \in Users(p) /\ \A k \in Users(p) : SoundCaller(sharing[k], s)
  BY <1>1, <1>2, CallerShare, ZenonT(40) DEF MapShare
<1>4. ShareAddFails(c, p, s) \/ ShareMountFails(c, p, s) \/ ShareMapped(c, p, s)
  BY <1>1, <1>2, Zenon DEF MapShare
<1>5. \A q \in HostPaths : q # p /\ sharesByHostPath[q].state # "nil" =>
        sharesByHostPath[q].name # s.name
  BY <1>2, <1>3, Zenon DEF Plan9Inv
<1>6. /\ s.state # "Added" => s.name \notin vmShares
      /\ s.mount.state # "Mounted" => s.name \notin guestShares
      /\ s.state = "Added" => s.name \in vmShares
      /\ s.mount.state = "Mounted" => s.name \in guestShares
  BY <1>2, <1>3, NameAbsent, ZenonT(40) DEF Plan9Inv, Added, Mounted
<1>7. ASSUME NEW r \in Callers, r.phase # "idle", r.path = p, sharing' = [sharing EXCEPT ![c] = r]
      PROVE  Users(p)' = Users(p)
  BY <1>1, <1>3, <1>7, Zenon DEF Users, Plan9Inv, Plan9TypeOK
<1>8. CASE ShareAddFails(c, p, s)
  <2> DEFINE t == IF s.state = "Reserved" THEN [s EXCEPT !.state = "Invalid"] ELSE s
             r == [sharing[c] EXCEPT !.phase = "releasing"]
  <2>1. /\ s.state # "Added" /\ sharesByHostPath' = [sharesByHostPath EXCEPT ![p] = t]
        /\ sharing' = [sharing EXCEPT ![c] = r]
        /\ UNCHANGED <<vmShares, guestShares>>
    BY <1>8, Zenon DEF ShareAddFails, SetShare, SetPhase
  <2>2. t \in Shares /\ t.state = "Invalid" /\ t.name = s.name /\ t.mount = s.mount
    BY <1>3, <2>1, Zenon DEF Shares
  <2>3. r \in Callers /\ r.phase = "releasing" /\ r.path = p
    BY <1>1, <1>3, Zenon DEF Callers
  <2> HIDE DEF t, r
  <2>4. SoundShare(t, Users(p)')
    BY <1>3, <1>7, <2>1, <2>2, <2>3, ZenonT(40) DEF SoundShare
  <2>5. SoundCaller(r, t) /\ \A k \in Users(p) : SoundCaller(sharing[k], t)
    BY <1>3, <2>1, <2>2, <2>3, ZenonT(40) DEF SoundCaller, SoundShare
  <2>6. s.mount.state # "Mounted"
    BY <1>3, <2>1, Zenon DEF SoundShare
  <2>7. vmShares' = vmShares \ {s.name} /\ guestShares' = guestShares \ {s.name}
    BY <1>6, <2>1, <2>6, Zenon
  <2>20. ShareUpdate(p, c, t, r)
    BY <1>1, <1>2, <1>5, <2>1, <2>2, <2>3, <2>4, <2>5, <2>6, <2>7, ZenonT(40) DEF ShareUpdate
  <2> QED  BY <1>1, <1>2, <1>5, <2>1, <2>2, <2>3, <2>4, <2>5, <2>6, <2>7, <2>20, Plan9Update,
              ZenonT(40)
<1>9. CASE ShareMountFails(c, p, s)
  <2> DEFINE t == [s EXCEPT !.state = "Added",
        !.mount.state = IF s.mount.state = "Reserved" THEN "Invalid" ELSE s.mount.state]
             r == [sharing[c] EXCEPT !.phase = "releasing"]
  <2>1. /\ s.state \in {"Reserved", "Added"} /\ s.mount.state # "Mounted"
        /\ sharesByHostPath' = [sharesByHostPath EXCEPT ![p] = t]
        /\ sharing' = [sharing EXCEPT ![c] = r]
        /\ vmShares' = vmShares \cup {s.name} /\ UNCHANGED guestShares
    BY <1>9, Zenon DEF ShareMountFails, SetShare, SetPhase
  <2>2. /\ t \in Shares /\ t.state = "Added" /\ t.name = s.name /\
             t.mount.refCount = s.mount.refCount
        /\ t.mount.state \notin {"nil", "Mounted"}
    BY <1>3, <2>1, ZenonT(40) DEF Shares, ShareMounts, SoundShare
  <2>3. r \in Callers /\ r.phase = "releasing" /\ r.path = p
    BY <1>1, <1>3, Zenon DEF Callers
  <2> HIDE DEF t, r
  <2>4. SoundShare(t, Users(p)')
    BY <1>3, <1>7, <2>1, <2>2, <2>3, ZenonT(40) DEF SoundShare
  <2>5. SoundCaller(r, t) /\ \A k \in Users(p) : SoundCaller(sharing[k], t)
    BY <1>3, <2>1, <2>2, <2>3, ZenonT(40) DEF SoundCaller
  <2>7. guestShares' = guestShares \ {s.name}
    BY <1>6, <2>1, Zenon
  <2>20. ShareUpdate(p, c, t, r)
    BY <1>1, <1>2, <1>3, <1>5, <2>1, <2>2, <2>3, <2>4, <2>5, <2>7, ZenonT(40) DEF ShareUpdate
  <2> QED  BY <1>1, <1>2, <1>3, <1>5, <2>1, <2>2, <2>3, <2>4, <2>5, <2>7, <2>20, Plan9Update,
              ZenonT(40)
<1>10. CASE ShareMapped(c, p, s)
  <2> DEFINE t == [s EXCEPT !.state = "Added", !.mount.state = "Mounted"]
             r == [sharing[c] EXCEPT !.phase = "mapped", !.name = s.name]
  <2>1. /\ s.state \in {"Reserved", "Added"}
        /\ sharesByHostPath' = [sharesByHostPath EXCEPT ![p] = t]
        /\ sharing' = [sharing EXCEPT ![c] = r]
        /\ vmShares' = vmShares \cup {s.name} /\ guestShares' = guestShares \cup {s.name}
    BY <1>10, Zenon DEF ShareMapped, SetShare, Plan9Inv, Plan9TypeOK
  <2>2. /\ t \in Shares /\ t.state = "Added" /\ t.name = s.name /\
             t.mount.refCount = s.mount.refCount
        /\ t.mount.state = "Mounted"
    BY <1>3, <2>1, Zenon DEF Shares, ShareMounts
  <2>3. r \in Callers /\ r.phase = "mapped" /\ r.path = p /\ r.name = s.name
    BY <1>1, <1>3, Zenon DEF Callers, Shares, SoundShare
  <2> HIDE DEF t, r
  <2>4. SoundShare(t, Users(p)')
    BY <1>3, <1>7, <2>1, <2>2, <2>3, ZenonT(40) DEF SoundShare
  <2>5. SoundCaller(r, t) /\ \A k \in Users(p) : SoundCaller(sharing[k], t)
    BY <1>3, <2>1, <2>2, <2>3, Zenon DEF SoundCaller
  <2>20. ShareUpdate(p, c, t, r)
    BY <1>1, <1>2, <1>3, <1>5, <2>1, <2>2, <2>3, <2>4, <2>5, ZenonT(40) DEF ShareUpdate
  <2> QED  BY <1>1, <1>2, <1>3, <1>5, <2>1, <2>2, <2>3, <2>4, <2>5, <2>20, Plan9Update,
              ZenonT(40)
<1> QED  BY <1>4, <1>8, <1>9, <1>10, ZenonT(40)

\* UnmapFromGuest unmounts the share and removes it with its last caller.
LEMMA UnmapShareInv ==
  ASSUME Plan9Inv, "removeShare" \notin Plan9Faults, NEW c \in Sharers, UnmapShare(c)
  PROVE  Plan9Inv'
<1>1. PICK p \in HostPaths : p = sharing[c].path
  BY CallerShare, ZenonT(40) DEF UnmapShare
<1>2. PICK s \in Shares : s = sharesByHostPath[p]
  BY <1>1, Zenon DEF Plan9Inv, Plan9TypeOK
<1>3. /\ sharing[c].phase \in {"mapped", "releasing"} /\ s.state \in {"Added", "Invalid"}
      /\ SoundShare(s, Users(p)) /\ sharing[c] \in Callers
      /\ c \in Users(p) /\ \A k \in Users(p) : SoundCaller(sharing[k], s)
  BY <1>1, <1>2, CallerShare, Zenon DEF UnmapShare, SoundCaller
<1>5. \A q \in HostPaths : q # p /\ sharesByHostPath[q].state # "nil" =>
        sharesByHostPath[q].name # s.name
  BY <1>2, <1>3, Zenon DEF Plan9Inv
<1>6. /\ s.state # "Added" => s.name \notin vmShares
      /\ s.mount.state # "Mounted" => s.name \notin guestShares
      /\ s.state = "Added" => s.name \in vmShares
      /\ s.mount.state = "Mounted" => s.name \in guestShares
  BY <1>2, <1>3, NameAbsent, ZenonT(40) DEF Plan9Inv, Added, Mounted
<1>7. s.mount.refCount \in Nat /\ s.mount.state # "nil" /\ s # NilShare /\ s.mount # NilShareMount
  BY <1>3, SMTT(30) DEF Shares, ShareMounts, SoundShare, NilShare, NilShareMount
<1> DEFINE back == [sharing[c] EXCEPT !.phase = "releasing"]
<1>8. \/ /\ sharing' = [sharing EXCEPT ![c] = back]
         /\ UNCHANGED <<sharesByHostPath, vmShares, guestShares>>
      \/ /\ sharesByHostPath' = [sharesByHostPath EXCEPT ![p] =
                                    IF RemovesShare(Unmounted(s)) THEN NilShare ELSE Unmounted(s)]
         /\ sharing' = [sharing EXCEPT ![c] = NotSharing]
         /\ guestShares' = IF Unmounts(s) THEN guestShares \ {s.name} ELSE guestShares
         /\ vmShares' = IF RemovesShare(Unmounted(s)) THEN vmShares \ {s.name} ELSE vmShares
  BY <1>1, <1>2, <1>7, ZenonT(40) DEF UnmapShare, SetShare, SetPhase
<1>9. CASE sharing' = [sharing EXCEPT ![c] = back] /\ UNCHANGED <<sharesByHostPath, vmShares,
             guestShares>>
  <2>1. back \in Callers /\ back.phase = "releasing" /\ back.path = p
    BY <1>1, <1>3, Zenon DEF Callers
  <2> HIDE DEF back
  <2>2. Users(p)' = Users(p)
    BY <1>1, <1>3, <1>9, <2>1, ZenonT(40) DEF Users, Plan9Inv, Plan9TypeOK
  <2>3. SoundShare(s, Users(p)')
    BY <1>3, <2>2, Zenon DEF SoundShare
  <2>4. SoundCaller(back, s)
    BY <1>3, <2>1, Zenon DEF SoundCaller
  <2>5. sharesByHostPath' = [sharesByHostPath EXCEPT ![p] = s]
    BY <1>2, <1>9, Zenon DEF Plan9Inv, Plan9TypeOK
  <2>6. /\ vmShares' = IF s.state = "Added" THEN vmShares \cup {s.name} ELSE vmShares \ {s.name}
        /\ guestShares' = IF s.mount.state = "Mounted" THEN guestShares \cup
             {s.name} ELSE guestShares \ {s.name}
    BY <1>6, <1>9, Zenon
  <2>20. ShareUpdate(p, c, s, back)
    BY <1>1, <1>2, <1>3, <1>5, <1>9, <2>1, <2>3, <2>4, <2>5, <2>6, ZenonT(40) DEF ShareUpdate
  <2> QED  BY <1>1, <1>2, <1>3, <1>5, <1>9, <2>1, <2>3, <2>4, <2>5, <2>6, <2>20, Plan9Update,
              ZenonT(40)
<1>10. CASE /\ sharesByHostPath' = [sharesByHostPath EXCEPT ![p] =
                                    IF RemovesShare(Unmounted(s)) THEN NilShare ELSE Unmounted(s)]
            /\ sharing' = [sharing EXCEPT ![c] = NotSharing]
            /\ guestShares' = IF Unmounts(s) THEN guestShares \ {s.name} ELSE guestShares
            /\ vmShares' = IF RemovesShare(Unmounted(s)) THEN vmShares \ {s.name} ELSE vmShares
  <2>1. NotSharing \in Callers /\ NotSharing.phase = "idle"
    BY Zenon DEF NotSharing, Callers
  <2>2. Users(p)' = Users(p) \ {c}
    BY <1>10, ZenonT(40) DEF Users, Plan9Inv, Plan9TypeOK, NotSharing
  <2>3. Cardinality(Users(p)') = Cardinality(Users(p)) - 1 /\ IsFiniteSet(Users(p)')
    BY <1>3, <2>2, UsersFinite, FS_RemoveElement, SMTT(30)
  <2>4. s.mount.refCount = Cardinality(Users(p)) /\ s.mount.refCount >= 1
    BY <1>3, ZenonT(40) DEF SoundShare
  <2>5. CASE s.mount.refCount <= 1
    <3>1. Unmounted(s).mount = NilShareMount /\ RemovesShare(Unmounted(s))
      BY <2>5, Zenon DEF Unmounted, RemovesShare, Shares
    <3>2. Unmounts(s) <=> s.mount.state = "Mounted"
      BY <3>1, Zenon DEF Unmounts
    <3>3. Users(p)' = {}
      BY <1>7, <2>3, <2>4, <2>5, FS_EmptySet, SMTT(30)
    <3>4. NilShare \in Shares /\ NilShare.state = "nil" /\ NilShare.mount.state = "nil"
      BY Zenon DEF NilShare, NilShareMount, Shares, ShareMounts
    <3>5. SoundShare(NilShare, Users(p)')
      BY <3>3, <3>4, Zenon DEF SoundShare
    <3>6. Users(p) \subseteq {c}
      BY <2>2, <3>3, Zenon
    <3>7. vmShares' = vmShares \ {s.name} /\ guestShares' = guestShares \ {s.name}
      BY <1>6, <1>10, <3>1, <3>2, ZenonT(40)
    <3>8. sharesByHostPath' = [sharesByHostPath EXCEPT ![p] = NilShare]
      BY <1>10, <3>1, Zenon
    <3>20. ShareUpdate(p, c, NilShare, NotSharing)
      BY <1>1, <1>2, <1>10, <2>1, <3>4, <3>5, <3>6, <3>7, <3>8, ZenonT(40) DEF ShareUpdate
    <3> QED  BY <1>1, <1>2, <1>10, <2>1, <3>4, <3>5, <3>6, <3>7, <3>8, <3>20, Plan9Update,
                ZenonT(40)
  <2>6. CASE s.mount.refCount > 1
    <3> DEFINE t == [s EXCEPT !.mount.refCount = s.mount.refCount - 1]
    <3>1. Unmounted(s) = t
      BY <1>7, <2>6, SMTT(30) DEF Unmounted
    <3>2. /\ t \in Shares /\ t.state = s.state /\ t.name = s.name /\ t.mount.state = s.mount.state
          /\ t.mount.refCount = s.mount.refCount - 1
      BY <1>7, <2>6, SMTT(30) DEF Shares, ShareMounts
    <3> HIDE DEF t
    <3>3. t.mount # NilShareMount
      BY <1>7, <3>2, SMTT(30) DEF NilShareMount
    <3>4. ~RemovesShare(t) /\ ~Unmounts(s)
      BY <1>3, <3>1, <3>2, <3>3, ZenonT(40) DEF RemovesShare, Unmounts
    <3>5. SoundShare(t, Users(p)')
      BY <1>3, <1>7, <2>3, <2>4, <2>6, <3>2, SMTT(30) DEF SoundShare
    <3>6. \A k \in Users(p) : SoundCaller(sharing[k], t)
      BY <1>3, <3>2, Zenon DEF SoundCaller
    <3>7. /\ vmShares' = IF t.state = "Added" THEN vmShares \cup {t.name} ELSE vmShares \ {s.name}
          /\ guestShares' = IF t.mount.state = "Mounted" THEN guestShares \cup
               {t.name} ELSE guestShares \ {s.name}
      BY <1>6, <1>10, <3>1, <3>2, <3>4, ZenonT(40)
    <3>8. sharesByHostPath' = [sharesByHostPath EXCEPT ![p] = t]
      BY <1>10, <3>1, <3>4, Zenon
    <3>9. \A q \in HostPaths : q # p /\ sharesByHostPath[q].state # "nil" =>
            sharesByHostPath[q].name # t.name
      BY <1>5, <3>2, Zenon
    <3>10. sharesByHostPath[p].state # "nil" /\ t.name = sharesByHostPath[p].name
      BY <1>2, <1>3, <3>2, Zenon
    <3>20. ShareUpdate(p, c, t, NotSharing)
      BY <1>1, <1>2, <1>10, <2>1, <3>2, <3>5, <3>6, <3>7, <3>8, <3>9, <3>10, ZenonT(40)
         DEF ShareUpdate
    <3> QED  BY <1>1, <1>2, <1>10, <2>1, <3>2, <3>5, <3>6, <3>7, <3>8, <3>9, <3>10, <3>20,
                Plan9Update, ZenonT(40)
  <2> QED  BY <1>7, <2>5, <2>6, SMTT(30)
<1> QED  BY <1>8, <1>9, <1>10, Zenon

\* Every step of the Plan9 controller keeps its invariant.
LEMMA Plan9Step ==
  ASSUME "removeShare" \notin Plan9Faults, Plan9Inv, [Plan9Next]_plan9Vars
  PROVE  Plan9Inv'
<1>1. CASE Plan9Next
  BY <1>1, ReserveShareInv, MapShareInv, UnmapShareInv, ZenonT(40) DEF Plan9Next
<1>2. CASE UNCHANGED plan9Vars
  BY <1>2, Zenon DEF plan9Vars, Plan9Inv, Plan9TypeOK, SoundShare, Users, Added, Mounted
<1> QED  BY <1>1, <1>2, Zenon

\* What the invariant says of the shares callers were given.
LEMMA Plan9Serves == Plan9Inv => SharesMounted /\ SharesTracked
<1> SUFFICES ASSUME Plan9Inv PROVE SharesMounted /\ SharesTracked
  BY Zenon
<1>1. SharesMounted
  <2> SUFFICES ASSUME NEW c \in Sharers, sharing[c].phase = "mapped"
               PROVE  sharing[c].name \in vmShares \cap guestShares
    BY Zenon DEF SharesMounted
  <2> DEFINE p == sharing[c].path
  <2>1. /\ p \in HostPaths /\ sharing[c].name = sharesByHostPath[p].name
        /\ sharesByHostPath[p].state = "Added" /\ sharesByHostPath[p].mount.state = "Mounted"
    BY Zenon DEF Plan9Inv, Plan9TypeOK, SoundCaller, SoundShare, NilShare, NilShareMount
  <2> QED  BY <2>1, Zenon DEF Plan9Inv, Added, Mounted
<1>2. ASSUME NEW p \in HostPaths, sharesByHostPath[p] # NilShare
      PROVE  \E c \in Sharers : sharing[c].path = p
  <2>1. Cardinality(Users(p)) # 0
    BY <1>2, SMTT(30) DEF Plan9Inv, SoundShare
  <2>2. Users(p) # {}
    BY <2>1, FS_EmptySet, Zenon
  <2> QED  BY <2>2, ZenonT(40) DEF Users
<1> QED  BY <1>1, <1>2, Zenon DEF SharesTracked, Plan9Inv, Added, Mounted

-----------------------------------------------------------------------------
(* The network controller.                                                   *)

\* What NicsWired says of the NICs of a network that is up.
Wired ==
    /\ {b.endpoint : b \in vmEndpoints} = Namespace(onHost)
    /\ Cardinality(vmEndpoints) = Cardinality(EndpointNames)
    /\ vmEndpoints \subseteq vmNics
    /\ guestNics = IF supported THEN NicsOf(vmEndpoints) ELSE {}

\* The inductive invariant.  A network that is up, or frozen on the source,
\* stays wired unless it came from another host and was not reset yet; until
\* then the VM has no NIC but those of a reset that failed.
NetworkInv ==
    /\ migratedNamespace \in BOOLEAN /\ podMigrating \in BOOLEAN /\ supported \in BOOLEAN
    /\ NicsTracked /\ (dropped => netState = "TornDown")
    /\ ~supported => guestNics = {}
    /\ netState = "NotConfigured" => vmEndpoints = {} /\ vmNics = {} /\ ~migratedNamespace
    /\ netState = "SourceMigrating" => netSaved = vmEndpoints /\ ~migratedNamespace
    /\ netState \in {"SourceMigrating", "DestinationMigrating"} => podMigrating
    /\ netState = "DestinationMigrating" => vmNics = {}
    /\ migratedNamespace => podMigrating /\ (vmNics = {} \/ halfReset)
    /\ netState \in {"Configured", "SourceMigrating"} /\ ~migratedNamespace => Wired

\* A network that was not set up has no NIC.
LEMMA NetworkInitInv == NetworkInit => NetworkInv
BY Zenon DEF NetworkInit, NetworkInv, NicsTracked, NicsOf

\* What the invariant says of the NICs of a pod.
LEMMA NetworkServes == NetworkInv => NicsWired /\ NicsTracked
BY Zenon DEF NetworkInv, NicsWired, Wired

\* The endpoints of a namespace, as many as it has names.
LEMMA NamespaceSize ==
  ASSUME NEW h
  PROVE  /\ IsFiniteSet(Namespace(h)) /\ Cardinality(EndpointNames) \in Nat
         /\ Cardinality(Namespace(h)) = Cardinality(EndpointNames)
<1>1. IsFiniteSet({h}) /\ Cardinality({h}) = 1
  BY FS_Singleton, Zenon
<1>2. IsFiniteSet(EndpointNames) /\ Cardinality(EndpointNames) \in Nat
  BY NetworkAssumption, FS_CardinalityType, Zenon
<1>3. IsFiniteSet({h} \X EndpointNames)
      /\ Cardinality({h} \X EndpointNames) = Cardinality({h}) * Cardinality(EndpointNames)
  BY <1>1, <1>2, FS_Product, ZenonT(40)
<1>4. 1 * Cardinality(EndpointNames) = Cardinality(EndpointNames)
  BY <1>2, SMTT(30)
<1> QED  BY <1>1, <1>2, <1>3, <1>4, ZenonT(40) DEF Namespace

\* All endpoints of a namespace, each with a NIC of its own.
LEMMA BoundAll ==
  ASSUME NEW h, NEW order \in Fetched(h), NEW B, B = Bound(order, Cardinality(EndpointNames))
  PROVE  {b.endpoint : b \in B} = Namespace(h) /\ Cardinality(B) = Cardinality(EndpointNames)
<1> DEFINE N == Cardinality(EndpointNames)
           f == [i \in 1 .. N |-> [nic |-> LastNic + i, endpoint |-> order[i]]]
<1>1. N \in Nat /\ IsFiniteSet(Namespace(h)) /\ Cardinality(Namespace(h)) = N
  BY NamespaceSize, Zenon
<1>7. B = {[nic |-> LastNic + i, endpoint |-> order[i]] : i \in 1 .. N}
  BY Zenon DEF Bound
<1>2. order \in [1 .. N -> Namespace(h)] /\ \A i, j \in 1 .. N : order[i] = order[j] => i = j
  BY Zenon DEF Fetched
<1> HIDE DEF N
<1>3. IsFiniteSet(1 .. N) /\ Cardinality(1 .. N) = N
  BY <1>1, FS_Interval, SMTT(30)
<1>4. order \in Injection(1 .. N, Namespace(h))
  BY <1>2, Zenon DEF Injection, IsInjective
<1>5. order \in Surjection(1 .. N, Namespace(h))
  BY <1>1, <1>3, <1>4, FS_Injection, ZenonT(40)
<1>6. \A e : e \in Namespace(h) <=> \E i \in 1 .. N : e = order[i]
  BY <1>2, <1>5, SMTT(30) DEF Surjection
<1>8. {b.endpoint : b \in B} = Namespace(h)
  <2>1. \A b \in B : \E i \in 1 .. N : b.endpoint = order[i]
    BY <1>7, SMTT(30)
  <2>2. \A i \in 1 .. N : f[i] \in B /\ f[i].endpoint = order[i]
    BY <1>7, Zenon
  <2>3. {b.endpoint : b \in B} \subseteq Namespace(h)
    BY <1>6, <2>1, Zenon
  <2>4. Namespace(h) \subseteq {b.endpoint : b \in B}
    <3> HIDE DEF f
    <3> SUFFICES ASSUME NEW e \in Namespace(h)  PROVE \E b \in B : e = b.endpoint
      BY Zenon
    <3> QED  BY <1>6, <2>2, ZenonT(40)
  <2> QED  BY <2>3, <2>4, ZenonT(40)
<1>9. f \in Injection(1 .. N, B) /\ f \in Surjection(1 .. N, B)
  BY <1>2, <1>7, Zenon DEF Injection, IsInjective, Surjection
<1>10. f \in Bijection(1 .. N, B)
  BY <1>9, Zenon DEF Bijection
<1>11. Cardinality(B) = N
  BY <1>1, <1>10, FS_CountingElements, Zenon DEF ExistsBijection
<1> QED  BY <1>8, <1>11, Zenon DEF N

\* One more NIC.
LEMMA Interval ==
  ASSUME NEW c \in Nat, NEW k \in 0 .. c
  PROVE  k \in Nat /\ 1 .. k \subseteq 1 .. (k + 1)
OBVIOUS

\* What AddEndpoints leaves: what it kept and what it wired, all of it when it
\* succeeds.
LEMMA AddedEndpoints ==
  ASSUME NEW h, NEW order \in Fetched(h), NEW kept, NEW inGuest, NEW ok \in BOOLEAN,
         AddEndpoints(order, kept, inGuest, ok)
  PROVE  \E wired, got :
           /\ got \subseteq wired
           /\ vmEndpoints' = kept \cup wired /\ vmNics' = vmNics \cup wired
           /\ guestNics' = IF supported THEN inGuest \cup NicsOf(got) ELSE inGuest
           /\ ok => /\ got = wired
                    /\ {b.endpoint : b \in wired} = Namespace(h)
                    /\ Cardinality(wired) = Cardinality(EndpointNames)
<1>1. PICK n \in 0 .. Cardinality(EndpointNames), fails \in {"", "addNic", "addInterface"} :
        /\ ok <=> n = Cardinality(EndpointNames)
        /\ ok <=> fails = ""
        /\ LET wired == Bound(order, IF fails = "addInterface" THEN n + 1 ELSE n)
           IN /\ vmEndpoints' = kept \cup wired
              /\ vmNics' = vmNics \cup wired
              /\ \E got \in {Bound(order, n), wired} :
                    guestNics' = IF supported THEN inGuest \cup NicsOf(got) ELSE inGuest
  BY Zenon DEF AddEndpoints, TrackedEarly
<1> DEFINE wired == Bound(order, IF fails = "addInterface" THEN n + 1 ELSE n)
<1>2. Bound(order, n) \subseteq wired
  <2>1. n \in Nat /\ 1 .. n \subseteq 1 .. (n + 1)
    <3>1. Cardinality(EndpointNames) \in Nat
      BY NamespaceSize, Zenon
    <3> QED  BY <3>1, Interval, Zenon
  <2> QED  BY <2>1, Zenon DEF Bound
<1>3. PICK got \in {Bound(order, n), wired} :
        guestNics' = IF supported THEN inGuest \cup NicsOf(got) ELSE inGuest
  BY <1>1, Zenon
<1>4. ok => wired = Bound(order, Cardinality(EndpointNames)) /\ got = wired
  BY <1>1, <1>3, Zenon
<1>5. ok => /\ {b.endpoint : b \in wired} = Namespace(h)
            /\ Cardinality(wired) = Cardinality(EndpointNames)
  <2> HIDE DEF wired
  <2> SUFFICES ASSUME ok
               PROVE  /\ {b.endpoint : b \in wired} = Namespace(h)
                      /\ Cardinality(wired) = Cardinality(EndpointNames)
    BY Zenon
  <2>1. wired = Bound(order, Cardinality(EndpointNames))
    BY <1>4, Zenon
  <2> QED  BY <2>1, BoundAll, Zenon
<1>6. got \subseteq wired
  BY <1>2, <1>3, Zenon
<1>7. vmEndpoints' = kept \cup wired /\ vmNics' = vmNics \cup wired
  BY <1>1, Zenon
<1> HIDE DEF wired
<1> QED  BY <1>3, <1>4, <1>5, <1>6, <1>7, ZenonT(40)

\* The same of a controller that had no NIC, nor the guest.
LEMMA AddedFromNone ==
  ASSUME NEW order \in Fetched(onHost), NEW ok \in BOOLEAN, AddEndpoints(order, {}, {}, ok)
  PROVE  \E wired, got :
           /\ got \subseteq wired
           /\ vmEndpoints' = wired /\ vmNics' = vmNics \cup wired
           /\ guestNics' = IF supported THEN NicsOf(got) ELSE {}
           /\ ok => /\ got = wired
                    /\ {b.endpoint : b \in wired} = Namespace(onHost)
                    /\ Cardinality(wired) = Cardinality(EndpointNames)
<1>1. PICK none : none = {}
  BY Zenon
<1>2. AddEndpoints(order, none, none, ok)
  BY <1>1, ZenonT(40)
<1>3. PICK wired, got :
           /\ got \subseteq wired
           /\ vmEndpoints' = none \cup wired /\ vmNics' = vmNics \cup wired
           /\ guestNics' = IF supported THEN none \cup NicsOf(got) ELSE none
           /\ ok => /\ got = wired
                    /\ {b.endpoint : b \in wired} = Namespace(onHost)
                    /\ Cardinality(wired) = Cardinality(EndpointNames)
  BY <1>2, AddedEndpoints, SMTT(30)
<1>4. vmEndpoints' = wired /\ guestNics' = IF supported THEN NicsOf(got) ELSE {}
  BY <1>1, <1>3, Zenon
<1> QED  BY <1>3, <1>4, ZenonT(40)

\* Setup adds the endpoints one by one and may stop at any of them.
LEMMA SetupInv ==
  ASSUME NetworkInv, Setup
  PROVE  NetworkInv'
<1>1. netState = "NotConfigured" /\ vmEndpoints = {} /\ vmNics = {} /\ guestNics = {} /\
        ~migratedNamespace
  BY Zenon DEF Setup, NetworkInv, NicsTracked, NicsOf
<1>2. UNCHANGED <<migratedNamespace, podMigrating, supported, netSaved, onHost, halfReset,
        dropped>>
  BY Zenon DEF Setup
<1>3. CASE netState' = "Invalid" /\ UNCHANGED <<vmEndpoints, vmNics, guestNics>>
  BY <1>1, <1>2, <1>3, Zenon DEF NetworkInv, NicsTracked, NicsOf
<1>4. CASE \E order \in Fetched(onHost), ok \in BOOLEAN :
             /\ AddEndpoints(order, vmEndpoints, guestNics, ok)
             /\ netState' = IF ok THEN "Configured" ELSE "Invalid"
  <2>1. PICK order \in Fetched(onHost), ok \in BOOLEAN :
             /\ AddEndpoints(order, vmEndpoints, guestNics, ok)
             /\ netState' = IF ok THEN "Configured" ELSE "Invalid"
    BY <1>4, ZenonT(40)
  <2>2. PICK wired, got :
           /\ got \subseteq wired
           /\ vmEndpoints' = vmEndpoints \cup wired /\ vmNics' = vmNics \cup wired
           /\ guestNics' = IF supported THEN guestNics \cup NicsOf(got) ELSE guestNics
           /\ ok => /\ got = wired
                    /\ {b.endpoint : b \in wired} = Namespace(onHost)
                    /\ Cardinality(wired) = Cardinality(EndpointNames)
    BY <2>1, AddedEndpoints, SMTT(30)
  <2>3. vmEndpoints' = wired /\ vmNics' = wired /\
          guestNics' = IF supported THEN NicsOf(got) ELSE {}
    BY <1>1, <2>2, Zenon
  <2>4. NicsTracked'
    BY <2>2, <2>3, ZenonT(40) DEF NicsTracked, NicsOf
  <2>5. ok => Wired'
    BY <1>2, <2>2, <2>3, ZenonT(40) DEF Wired, Namespace
  <2>6. netState' \in {"Configured", "Invalid"} /\ (netState' = "Configured" => ok)
    BY <2>1, Zenon
  <2> QED  BY <1>1, <1>2, <2>3, <2>4, <2>5, <2>6, ZenonT(40) DEF NetworkInv
<1> QED  BY <1>3, <1>4, ZenonT(40) DEF Setup

\* Teardown removes the NICs one by one and may stop at any of them.
LEMMA TeardownInv ==
  ASSUME NetworkInv, Teardown
  PROVE  NetworkInv'
<1>1. UNCHANGED <<migratedNamespace, podMigrating, supported, netSaved, onHost, halfReset>>
  BY Zenon DEF Teardown
<1>2. CASE TeardownMigrating
  BY <1>1, <1>2, Zenon DEF TeardownMigrating, NetworkInv, NicsTracked, NicsOf
<1>3. CASE TeardownNics
  <2>1. PICK inGuest \in SUBSET vmEndpoints : \E inVM \in SUBSET (vmEndpoints \ inGuest) :
          /\ vmEndpoints' = inGuest \cup inVM
          /\ vmNics' = vmNics \ (vmEndpoints \ vmEndpoints')
          /\ guestNics' = IF supported THEN guestNics \ NicsOf(vmEndpoints \ inGuest) ELSE guestNics
    BY <1>3, Zenon DEF TeardownNics
  <2>2. netState' \in {"TornDown", "Invalid"} /\ ~dropped /\ UNCHANGED dropped
    BY <1>3, Zenon DEF TeardownNics, MayTearDown, NetworkInv
  <2>3. guestNics' \subseteq NicsOf(inGuest) /\ inGuest \subseteq vmEndpoints'
    <3>1. guestNics \subseteq NicsOf(inGuest) \cup NicsOf(vmEndpoints \ inGuest)
      BY <2>2, Zenon DEF NetworkInv, NicsTracked, NicsOf
    <3>2. ~supported => guestNics' = {}
      BY <2>1, Zenon DEF NetworkInv
    <3> QED  BY <2>1, <3>1, <3>2, ZenonT(40)
  <2>4. NicsTracked'
    BY <1>1, <2>1, <2>2, <2>3, ZenonT(40) DEF NetworkInv, NicsTracked, NicsOf
  <2>5. vmNics' \subseteq vmNics /\ guestNics' \subseteq guestNics
    BY <2>1, Zenon
  <2> QED  BY <1>1, <2>2, <2>4, <2>5, ZenonT(40) DEF NetworkInv
<1>4. CASE TeardownNothing
  BY <1>1, <1>4, Zenon DEF TeardownNothing, NetworkInv, NicsTracked, NicsOf, Wired
<1> QED  BY <1>2, <1>3, <1>4, Zenon DEF Teardown

\* What saves, imports and patches a network.
LEMMA MigrateInv ==
  ASSUME NetworkInv, SaveNetwork \/ ImportNetwork \/ PatchNetwork
  PROVE  NetworkInv'
<1>1. CASE SaveNetwork
  <2>1. ~migratedNamespace /\ netState \in {"Configured", "SourceMigrating"}
    BY <1>1, Zenon DEF SaveNetwork, NetworkInv
  <2>2. Wired'
    BY <1>1, <2>1, Zenon DEF SaveNetwork, NetworkInv, Wired, NicsOf, Namespace
  <2> QED  BY <1>1, <2>1, <2>2, ZenonT(40) DEF SaveNetwork, NetworkInv, NicsTracked, NicsOf
<1>2. CASE ImportNetwork
  <2>1. netSaved = vmEndpoints /\ podMigrating
    BY <1>2, Zenon DEF ImportNetwork, NetworkInv
  <2> QED  BY <1>2, <2>1, Zenon DEF ImportNetwork, NetworkInv, NicsTracked, NicsOf
<1>3. CASE PatchNetwork
  BY <1>3, Zenon DEF PatchNetwork, NetworkInv, NicsTracked, NicsOf
<1> QED  BY <1>1, <1>2, <1>3, ZenonT(40)

\* A reset takes every NIC the controller has from the guest, which has no other.
LEMMA AllStale == NetworkInv /\ ~dropped => StaleRemoved(vmEndpoints) = {}
BY Zenon DEF NetworkInv, NicsTracked, StaleRemoved

\* The resume of a pod replaces the NICs of a network that has moved.
LEMMA ResumePodInv ==
  ASSUME NetworkInv, ResumePod
  PROVE  NetworkInv'
<1>1. /\ podMigrating /\ netState' = "Configured"
      /\ UNCHANGED <<supported, netSaved, onHost, dropped>>
      /\ netState \in {"Configured", "SourceMigrating", "DestinationMigrating"}
      /\ netState = "DestinationMigrating" => migratedNamespace
      /\ ~dropped
  BY Zenon DEF ResumePod, ResumeNetwork, NetworkInv
<1>2. ~migratedNamespace => Wired
  BY <1>1, Zenon DEF NetworkInv
<1>3. ASSUME UNCHANGED <<vmEndpoints, vmNics, guestNics, halfReset>>,
             ~migratedNamespace \/ migratedNamespace'
      PROVE  NicsTracked' /\ (~supported' => guestNics' = {}) /\ (~migratedNamespace' => Wired')
  BY <1>1, <1>2, <1>3, Zenon DEF NetworkInv, NicsTracked, NicsOf, Wired, Namespace
<1>4. CASE UNCHANGED <<vmEndpoints, vmNics, guestNics, halfReset, migratedNamespace, podMigrating>>
  BY <1>1, <1>3, <1>4, Zenon DEF NetworkInv
<1>5. ASSUME NEW ok \in BOOLEAN, ResetAfterMigration(ok),
             migratedNamespace' = (migratedNamespace /\ ~ok), podMigrating' = ~ok
      PROVE  NetworkInv'
  <2>1. CASE ok /\ ~migratedNamespace /\ UNCHANGED <<vmEndpoints, vmNics, guestNics, halfReset>>
    BY <1>1, <1>3, <1>5, <2>1, ZenonT(40) DEF NetworkInv
  <2>2. CASE /\ ok /\ migratedNamespace
             /\ \E order \in Fetched(onHost) : AddEndpoints(order, {}, StaleRemoved(vmEndpoints),
                  TRUE)
             /\ UNCHANGED halfReset
    <3>1. PICK order \in Fetched(onHost) : AddEndpoints(order, {}, {}, ok)
      BY <2>2, <1>1, AllStale, Zenon
    <3>2. PICK wired, got :
           /\ got \subseteq wired
           /\ vmEndpoints' = wired /\ vmNics' = vmNics \cup wired
           /\ guestNics' = IF supported THEN NicsOf(got) ELSE {}
           /\ ok => /\ got = wired
                    /\ {b.endpoint : b \in wired} = Namespace(onHost)
                    /\ Cardinality(wired) = Cardinality(EndpointNames)
      BY <2>2, <3>1, AddedFromNone, ZenonT(40)
    <3>3. vmEndpoints' = wired /\ guestNics' = IF supported THEN NicsOf(wired) ELSE {}
      BY <2>2, <3>2, ZenonT(40)
    <3>4. NicsTracked'
      BY <2>2, <3>2, <3>3, ZenonT(40) DEF NetworkInv, NicsTracked
    <3>5. Wired'
      BY <1>1, <2>2, <3>2, <3>3, ZenonT(40) DEF Wired, Namespace
    <3> QED  BY <1>1, <1>5, <2>2, <3>3, <3>4, <3>5, ZenonT(40) DEF NetworkInv
  <2>3. CASE ~ok /\ migratedNamespace /\ ResetFails
    <3>1. CASE \E stale \in SUBSET vmEndpoints :
                 /\ vmEndpoints' = vmEndpoints \ stale /\ guestNics' = StaleRemoved(stale)
                 /\ UNCHANGED <<vmNics, halfReset>>
      <4>1. PICK stale \in SUBSET vmEndpoints :
                 /\ vmEndpoints' = vmEndpoints \ stale /\ guestNics' = StaleRemoved(stale)
                 /\ UNCHANGED <<vmNics, halfReset>>
        BY <3>1, Zenon
      <4>2. guestNics' \subseteq NicsOf(vmEndpoints')
        BY <1>1, <4>1, Zenon DEF NetworkInv, NicsTracked, NicsOf, StaleRemoved
      <4>3. vmNics = {} \/ halfReset
        BY <2>3, Zenon DEF NetworkInv
      <4>4. ~supported => guestNics' = {}
        BY <4>1, Zenon DEF NetworkInv, StaleRemoved
      <4> QED  BY <1>1, <1>5, <2>3, <4>1, <4>2, <4>3, <4>4, ZenonT(40)
                  DEF NetworkInv, NicsTracked
    <3>2. CASE vmEndpoints' = {} /\ guestNics' = StaleRemoved(vmEndpoints) /\ UNCHANGED <<vmNics,
                 halfReset>>
      BY <1>1, <1>5, <2>3, <3>2, AllStale, ZenonT(40) DEF NetworkInv, NicsTracked
    <3>3. CASE /\ \E order \in Fetched(onHost) : AddEndpoints(order, {},
                    StaleRemoved(vmEndpoints), FALSE)
               /\ halfReset' = (halfReset \/ vmNics' # vmNics)
      <4>1. PICK order \in Fetched(onHost) : AddEndpoints(order, {}, {}, ok)
        <5>1. \E order \in Fetched(onHost) : AddEndpoints(order, {}, {}, FALSE)
          BY <3>3, <1>1, AllStale, Zenon
        <5> QED  BY <2>3, <5>1, ZenonT(40)
      <4>2. PICK wired, got :
             /\ got \subseteq wired
             /\ vmEndpoints' = wired /\ vmNics' = vmNics \cup wired
             /\ guestNics' = IF supported THEN NicsOf(got) ELSE {}
        BY <4>1, AddedFromNone, Zenon
      <4>3. vmEndpoints' = wired /\ guestNics' = IF supported THEN NicsOf(got) ELSE {}
        BY <4>2, Zenon
      <4>4. guestNics' \subseteq NicsOf(vmEndpoints')
        BY <4>2, <4>3, Zenon DEF NicsOf
      <4>5. vmNics = {} \/ halfReset
        BY <2>3, Zenon DEF NetworkInv
      <4>6. vmNics' = {} \/ halfReset'
        BY <3>3, <4>5, ZenonT(40)
      <4> QED  BY <1>1, <1>5, <2>3, <3>3, <4>3, <4>4, <4>6, ZenonT(40)
                  DEF NetworkInv, NicsTracked
    <3> QED  BY <2>3, <3>1, <3>2, <3>3, ZenonT(40) DEF ResetFails
  <2> QED  BY <1>5, <2>1, <2>2, <2>3, ZenonT(40) DEF ResetAfterMigration
<1> QED  BY <1>4, <1>5, Zenon DEF ResumePod

\* Every step of the network controller keeps its invariant.
LEMMA NetworkStep ==
  ASSUME NetworkInv, [NetworkNext]_netVars
  PROVE  NetworkInv'
<1>1. CASE NetworkNext
  BY <1>1, SetupInv, TeardownInv, MigrateInv, ResumePodInv, ZenonT(40) DEF NetworkNext
<1>2. CASE UNCHANGED netVars
  BY <1>2, Zenon DEF netVars, NetworkInv, NicsTracked, NicsOf, Wired, Namespace
<1> QED  BY <1>1, <1>2, Zenon

-----------------------------------------------------------------------------
(* The devices of a VM.                                                      *)

\* The calls whose failure leaves something behind that no caller has a
\* reservation on do not fail, see FewFaults; nor does the removal of a share.
Reclaimable == FewFaults /\ "removeShare" \notin Plan9Faults

\* The inductive invariant: each controller has its own.
DevicesInv == CountInv /\ Plan9Inv /\ VpciInv /\ NetworkInv

\* A VM starts with nothing given to anybody.
LEMMA DevicesInitInv == DevicesInit => DevicesInv
BY CountInit, Plan9InitInv, VpciInitInv, NetworkInitInv, ZenonT(40) DEF DevicesInit, DevicesInv

\* A step of the VM's devices is a step of one controller, and the others
\* stay.
LEMMA DevicesStep ==
  ASSUME Reclaimable, DevicesInv, [DevicesNext]_deviceVars
  PROVE  DevicesInv'
<1>1. /\ [Next]_vars /\ [Plan9Next]_plan9Vars
      /\ [VpciNext]_vpciVars /\ [NetworkNext]_netVars
  BY Zenon DEF DevicesNext, deviceVars
<1> QED  BY <1>1, CountStep, Plan9Step, VpciStep, NetworkStep, ZenonT(40)
            DEF DevicesInv, Reclaimable

\* The invariants of the controllers together are what the callers are
\* promised.
LEMMA DevicesServe == DevicesInv => DevicesServed /\ DevicesReclaimed
BY CountServes, Plan9Serves, VpciServes, NetworkServes, ZenonT(40)
   DEF DevicesInv, DevicesServed, DevicesReclaimed

\* All four invariants hold in every state.
LEMMA DevicesAlwaysInv == ASSUME Reclaimable PROVE DevicesSpec => []DevicesInv
<1>1. DevicesInit => DevicesInv
  BY DevicesInitInv, Zenon
<1>2. DevicesInv /\ [DevicesNext]_deviceVars => DevicesInv'
  BY DevicesStep, Zenon
<1> QED  BY <1>1, <1>2, PTL DEF DevicesSpec

\* A container keeps the disk, the share and the device it was given until it
\* starts to release it, and a pod has the NICs of its namespace before and
\* after a migration (Controller.MapToGuest of scsi and plan9, AddToVM of
\* vpci, ResumePod of network), for any number of callers, paths, slots and
\* endpoints.
THEOREM DevicesAlwaysServed == ASSUME Reclaimable PROVE DevicesSpec => []DevicesServed
<1>1. DevicesInv => DevicesServed
  BY DevicesServe, Zenon
<1> QED  BY <1>1, DevicesAlwaysInv, PTL

\* What the VM and the guest have is known to a controller that counts one
\* reference for each caller, and a slot or a share nobody has a reservation
\* on is free again (UnmapFromGuest, RemoveFromVM, Teardown), for any number
\* of them.
THEOREM DevicesAlwaysReclaimed == ASSUME Reclaimable PROVE DevicesSpec => []DevicesReclaimed
<1>1. DevicesInv => DevicesReclaimed
  BY DevicesServe, Zenon
<1> QED  BY <1>1, DevicesAlwaysInv, PTL
=============================================================================

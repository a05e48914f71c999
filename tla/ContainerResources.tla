------------------------ MODULE ContainerResources -------------------------
(***************************************************************************)
(* The resources of one Linux container: how Create allocates them and how *)
(* releaseResources gives them back (internal/controller/linuxcontainer).  *)
(*                                                                         *)
(* A container's bookkeeping is a record: ro, scsi, plan9 and devices are  *)
(* its lists of reservations, scratch the reservation of its scratch layer *)
(* (None when it is the zero GUID), combined the layersCombined flag and   *)
(* stateDeleted the isContainerStateDeleted flag.  What the other side     *)
(* holds for it is a second record, the world: the reservations the device *)
(* controllers know (held), the overlay mounted in the guest, and whether  *)
(* the guest knows the container.                                          *)
(***************************************************************************)
EXTENDS Naturals, Sequences, Functions

CONSTANTS
    RoLayers,              \* the read-only layers, in order
    Scratch,               \* the scratch layer
    Disks, Shares,         \* the mounts that are disks and Plan9 shares, in order
    Devices,               \* the vPCI devices, in order
    DeleteStateSupported,  \* the guest supports DeleteContainerState
    Flaky,                 \* the releases that may fail
    None

Overlay == "overlay"
GuestState == "state"
Reservations == Range(RoLayers) \cup {Scratch} \cup Range(Disks) \cup Range(Shares) \cup Range(Devices)

\* Every reservation has an ID of its own, which is no zero GUID.
ASSUME ReservationsAssumption ==
    /\ DeleteStateSupported \in BOOLEAN
    /\ \A list \in {RoLayers, Disks, Shares, Devices} :
          list \in Seq(Reservations) /\ IsInjective(list) /\ Scratch \notin Range(list)
    /\ Range(RoLayers) \cap (Range(Disks) \cup Range(Shares) \cup Range(Devices)) = {}
    /\ Range(Disks) \cap (Range(Shares) \cup Range(Devices)) = {}
    /\ Range(Shares) \cap Range(Devices) = {}
    /\ {None, Overlay, GuestState} \cap Reservations = {} /\ None \notin {Overlay, GuestState}

NoResources ==
    [ro |-> <<>>, scratch |-> None, scsi |-> <<>>, plan9 |-> <<>>, devices |-> <<>>,
     combined |-> FALSE, stateDeleted |-> FALSE]
Nothing == [held |-> {}, overlay |-> FALSE, inGuest |-> FALSE]

-----------------------------------------------------------------------------
(* Allocation: the layers in order, the scratch layer, the overlay, the     *)
(* mounts in the order of the OCI spec, whatever it is, and the devices.  A *)
(* reservation is recorded as soon as it is made, before it is mapped into  *)
(* the guest.                                                               *)

\* How far it got.
Progress ==
    {p \in [ro : 0..Len(RoLayers), scratch : BOOLEAN, combined : BOOLEAN, scsi : 0..Len(Disks),
            plan9 : 0..Len(Shares), devices : 0..Len(Devices)] :
        /\ p.scratch => p.ro = Len(RoLayers)
        /\ p.combined => p.scratch
        /\ p.scsi + p.plan9 + p.devices > 0 => p.combined
        /\ p.devices > 0 => p.scsi = Len(Disks) /\ p.plan9 = Len(Shares)}
Complete ==
    [ro |-> Len(RoLayers), scratch |-> TRUE, combined |-> TRUE, scsi |-> Len(Disks),
     plan9 |-> Len(Shares), devices |-> Len(Devices)]

\* The last step was a reservation, not the overlay.
Reserved(p) == IF p.combined THEN p.scsi + p.plan9 + p.devices > 0 ELSE p.scratch \/ p.ro > 0

Allocated(p) ==
    [ro |-> SubSeq(RoLayers, 1, p.ro), scratch |-> IF p.scratch THEN Scratch ELSE None,
     scsi |-> SubSeq(Disks, 1, p.scsi), plan9 |-> SubSeq(Shares, 1, p.plan9),
     devices |-> SubSeq(Devices, 1, p.devices), combined |-> p.combined, stateDeleted |-> FALSE]

\* The reservations in the container's lists.
Known(r) ==
    ({r.scratch} \ {None}) \cup Range(r.ro) \cup Range(r.scsi) \cup Range(r.plan9) \cup Range(r.devices)

Holding(r, inGuest) == [held |-> Known(r), overlay |-> r.combined, inGuest |-> inGuest]

-----------------------------------------------------------------------------
(* Release.                                                                 *)

\* What releaseResources attempts, in order.
Attempts(r) ==
    (IF r.combined THEN <<Overlay>> ELSE <<>>)
    \o (IF DeleteStateSupported /\ ~r.stateDeleted THEN <<GuestState>> ELSE <<>>)
    \o (IF r.scratch # None THEN <<r.scratch>> ELSE <<>>)
    \o r.ro \o r.scsi \o r.plan9 \o r.devices

\* A reservation the device controller does not know is an error, and so is a
\* container the guest does not know: its not-found is none of the errors that
\* isResourceAlreadyReleased accepts.  Once the VM is gone every other error
\* means that the resource went with it.
MaySucceed(x, w, gone) ==
    CASE x = Overlay -> TRUE
      [] x = GuestState -> w.inGuest \/ gone
      [] OTHER -> x \in w.held
MayFail(x, w, gone) == ~MaySucceed(x, w, gone) \/ (x \in Flaky /\ ~gone)

\* Mutant: the entry whose release failed is dropped from its list.
KeptAfter(list, failed) ==
    IF failed \in Range(list)
    THEN SubSeq(list, 1 + CHOOSE i \in DOMAIN list : list[i] = failed, Len(list))
    ELSE list

\* The list whose release failed keeps its unprocessed tail; the other lists
\* are left as they are.
Kept(list, failed) ==
    IF failed \in Range(list)
    THEN SubSeq(list, CHOOSE i \in DOMAIN list : list[i] = failed, Len(list))
    ELSE list

\* Mutant: an unmapped scratch layer is not forgotten.
ScratchKept(scratch, done) == scratch
ScratchLeft(scratch, done) == IF scratch \in done THEN None ELSE scratch

\* The outcome when the k-th attempt fails, or none if k is past the last.
\* The guest evicts the container even if deleting its state fails.
Released(r, w, gone, k) ==
    LET a == Attempts(r)
        done == Range(SubSeq(a, 1, k - 1))
        failed == IF k <= Len(a) THEN a[k] ELSE None
    IN [err |-> k <= Len(a),
        res |-> [ro |-> Kept(r.ro, failed), scratch |-> ScratchLeft(r.scratch, done),
                 scsi |-> Kept(r.scsi, failed), plan9 |-> Kept(r.plan9, failed),
                 devices |-> Kept(r.devices, failed),
                 combined |-> r.combined /\ Overlay \notin done,
                 stateDeleted |-> r.stateDeleted \/ GuestState \in done],
        world |-> [held |-> IF gone THEN w.held ELSE w.held \ done,
                   overlay |-> w.overlay /\ Overlay \notin done,
                   inGuest |-> w.inGuest /\ GuestState \notin done \cup {failed}]]

\* releaseResources: the outcomes it can have.
ReleaseResources(r, w, gone) ==
    LET a == Attempts(r) IN
    {Released(r, w, gone, k) : k \in
        {j \in 1..Len(a) + 1 : /\ \A i \in 1..j - 1 : MaySucceed(a[i], w, gone)
                               /\ j <= Len(a) => MayFail(a[j], w, gone)}}
=============================================================================

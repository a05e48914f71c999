--------------------------- MODULE ScsiController ---------------------------
(***************************************************************************)
(* The SCSI device controller of the LCOW v2 shim                          *)
(* (internal/controller/device/scsi): reservations, the disk held in each  *)
(* controller slot, the guest mounts of its partitions, and the freeze,    *)
(* snapshot and path rewriting used by live migration.  Every operation    *)
(* runs under one mutex, so each is one action.                            *)
(*                                                                         *)
(* Two variables record what is outside the controller: the VM's SCSI bus  *)
(* and the partitions the guest has mounted.  phase and want record what   *)
(* the holder of a reservation is entitled to: it reserves, maps once, and *)
(* unmaps until that succeeds (the contract in controller.go:22-34).       *)
(***************************************************************************)
EXTENDS Integers, FiniteSets

CONSTANTS
    Ids,          \* reservation GUIDs
    Paths,        \* host paths of the disks callers reserve
    NumSlots,     \* controllers * LUNs per controller
    Partitions,   \* partition indexes
    DiskConfigs,  \* the part of disk.Config other than the path
    MountConfigs, \* the part of mount.Config other than the partition
    Rootfs,       \* boot attachments: function from some slots to their paths
    Faults,       \* the host and guest calls that may fail
    MaxPending,   \* callers that may be between Reserve and MapToGuest
    MaxSaves,     \* migration attempts
    RefModulus,   \* 2^32: reference counts are saved as uint32
    None          \* no path, no configuration

Slots == 0 .. NumSlots - 1
NoSlot == -1
RootPaths == {Rootfs[s] : s \in DOMAIN Rootfs}
AllPaths == Paths \cup RootPaths
Calls == {"add", "mount", "unmount", "eject", "remove"}

ASSUME ScsiAssumption ==
    /\ NumSlots \in Nat
    /\ DOMAIN Rootfs \subseteq Slots
    /\ \A s, t \in DOMAIN Rootfs : Rootfs[s] = Rootfs[t] => s = t
    /\ RootPaths \cap Paths = {}
    /\ None \notin AllPaths
    /\ Faults \subseteq Calls
    /\ MaxPending \in Nat /\ MaxSaves \in Nat
    /\ RefModulus \in Nat \ {0}

VARIABLES
    reservations,    \* id -> the slot and partition it holds
    disksByPath,     \* host path -> slot
    controllerSlots, \* slot -> disk
    mounts,          \* slot and partition -> mount
    isMigrating,     \* set by Save and Import, cleared by Resume
    saved,           \* the snapshot Save returned last
    saves,           \* how many snapshots were taken
    side,            \* "source", "importing" (before the VM exists), "destination"
    patched,         \* slots whose path the destination has rewritten
    crashed,         \* a nil slot was dereferenced
    bus,             \* slot -> path of the disk on the VM's SCSI bus
    guestMounts,     \* partitions mounted in the guest
    phase,           \* id -> "idle", "reserved", "mapped", "releasing"
    want             \* id -> the path its caller reserved

scsi == <<reservations, disksByPath, controllerSlots, mounts>>
env == <<bus, guestMounts>>
vars == <<scsi, isMigrating, saved, saves, side, patched, crashed, env, phase, want>>

NoReservation == [slot |-> NoSlot, partition |-> None]
NilDisk == [state |-> "nil", path |-> None, config |-> None]
NilMount == [state |-> "nil", refCount |-> 0, config |-> None]

\* disk.NewReserved and mount.NewReserved.
NewDisk(path, cfg) == [state |-> "Reserved", path |-> path, config |-> cfg]
NewMount(cfg) == [state |-> "Reserved", refCount |-> 1, config |-> cfg]

Occupied == {s \in Slots : controllerSlots[s].state # "nil"}

\* What Save serialises.
Snapshot == [reservations |-> reservations, disks |-> controllerSlots,
             mounts |-> mounts]
NoSnapshot == [reservations |-> None, disks |-> None, mounts |-> None]

\* The outcomes a host or guest call can have.
Outcomes(call) == IF call \in Faults THEN BOOLEAN ELSE {TRUE}

-----------------------------------------------------------------------------
(* The controller newSCSIController builds: New, then ReserveForRootfs for  *)
(* each attachment of the document the VM was booted from.                  *)

Init ==
    /\ reservations = [id \in Ids |-> NoReservation]
    /\ controllerSlots = [s \in Slots |->
          IF s \in DOMAIN Rootfs THEN NewDisk(Rootfs[s], None) ELSE NilDisk]
    /\ disksByPath = [p \in AllPaths |->
          IF p \in RootPaths
          THEN CHOOSE s \in DOMAIN Rootfs : Rootfs[s] = p ELSE NoSlot]
    /\ mounts = [m \in Slots \X Partitions |-> NilMount]
    /\ isMigrating = FALSE
    /\ saved = NoSnapshot
    /\ saves = 0
    /\ side = "source"
    /\ patched = {}
    /\ crashed = FALSE
    /\ bus = [s \in Slots |-> IF s \in DOMAIN Rootfs THEN Rootfs[s] ELSE None]
    /\ guestMounts = {}
    /\ phase = [id \in Ids |-> "idle"]
    /\ want = [id \in Ids |-> None]

-----------------------------------------------------------------------------
(* Reserve.  The caller's GUID is fresh.  A rejected Reserve changes        *)
(* nothing, so only the accepting paths are actions.                        *)

Accepting(id) ==
    /\ ~crashed
    /\ ~isMigrating
    /\ phase[id] = "idle"
    /\ Cardinality({i \in Ids : phase[i] = "reserved"}) < MaxPending

Granted(id, s, path, p) ==
    /\ reservations' = [reservations EXCEPT ![id] = [slot |-> s, partition |-> p]]
    /\ phase' = [phase EXCEPT ![id] = "reserved"]
    /\ want' = [want EXCEPT ![id] = path]
    /\ UNCHANGED <<isMigrating, saved, saves, side, patched, crashed, env>>

\* Mount.Reserve on an existing mount, mount.NewReserved otherwise.
ReservableMount(m, cfg) ==
    m.state # "nil" => m.config = cfg /\ m.state \in {"Reserved", "Mounted"}
\* Mutant: sharing a mount does not count the new reference.
ReserveMountUncounted(m, cfg) == IF m.state = "nil" THEN NewMount(cfg) ELSE m
ReserveMount(m, cfg) ==
    IF m.state = "nil" THEN NewMount(cfg) ELSE [m EXCEPT !.refCount = @ + 1]

\* The path is indexed: share the disk.
ReserveExisting(id, path, cfg, p, mcfg) ==
    LET s == disksByPath[path] IN
    /\ Accepting(id)
    /\ s # NoSlot
    /\ controllerSlots[s].config = cfg
    /\ controllerSlots[s].state \in {"Reserved", "Attached"}
    /\ ReservableMount(mounts[<<s, p>>], mcfg)
    /\ mounts' = [mounts EXCEPT ![<<s, p>>] = ReserveMount(@, mcfg)]
    /\ UNCHANGED <<disksByPath, controllerSlots>>
    /\ Granted(id, s, path, p)

\* The path is not indexed: take the first free slot.
FirstFree(s) ==
    /\ s \in Slots \ Occupied
    /\ \A t \in Slots : t < s => t \in Occupied

ReserveNew(id, path, cfg, p, mcfg) ==
    /\ Accepting(id)
    /\ disksByPath[path] = NoSlot
    /\ \E s \in Slots :
          /\ FirstFree(s)
          /\ controllerSlots' = [controllerSlots EXCEPT ![s] = NewDisk(path, cfg)]
          /\ mounts' = [m \in Slots \X Partitions |->
                IF m[1] # s THEN mounts[m]
                ELSE IF m[2] = p THEN NewMount(mcfg) ELSE NilMount]
          /\ disksByPath' = [disksByPath EXCEPT ![path] = s]
          /\ Granted(id, s, path, p)

Reserve(id) ==
    \E path \in Paths, cfg \in DiskConfigs, p \in Partitions, mcfg \in MountConfigs :
        \/ ReserveExisting(id, path, cfg, p, mcfg)
        \/ ReserveNew(id, path, cfg, p, mcfg)

-----------------------------------------------------------------------------
(* MapToGuest.                                                              *)

\* Mutant: the disk is recorded as attached before AddSCSIDisk answers.
AttachOptimistic(d, ok) ==
    IF d.state = "Reserved" THEN [d EXCEPT !.state = "Attached"] ELSE d

\* Disk.AttachToVM: the disk afterwards, ok being the outcome of AddSCSIDisk.
\* An Ejected disk falls through without error and is refused by the mount.
AttachToVM(d, ok) ==
    IF d.state = "Reserved"
    THEN [d EXCEPT !.state = IF ok THEN "Attached" ELSE "Detached"]
    ELSE d

\* Disk.MountPartitionToGuest and Mount.MountToGuest on an attached disk.
MountToGuest(m, ok) ==
    IF m.state = "Reserved"
    THEN [m EXCEPT !.state = IF ok THEN "Mounted" ELSE "Unmounted"]
    ELSE m

Held(id) == controllerSlots[reservations[id].slot]

\* Frozen: the call is refused, and the caller has to release the reservation.
MapRefused(id) ==
    /\ ~crashed
    /\ phase[id] = "reserved"
    /\ isMigrating
    /\ phase' = [phase EXCEPT ![id] = "releasing"]
    /\ UNCHANGED <<scsi, isMigrating, saved, saves, side, patched, crashed, env, want>>

\* Attach, then mount; succeeds when the disk is attached and the partition
\* mounted afterwards.
MapToGuest(id) ==
    /\ ~crashed
    /\ phase[id] = "reserved"
    /\ ~isMigrating
    /\ Held(id).state # "nil"
    /\ \E addOk \in Outcomes("add"), mountOk \in Outcomes("mount") :
         LET s == reservations[id].slot
             p == reservations[id].partition
             d == AttachToVM(Held(id), addOk)
             m == IF d.state = "Attached" THEN MountToGuest(mounts[<<s, p>>], mountOk)
                  ELSE mounts[<<s, p>>]
             ok == d.state = "Attached" /\ m.state = "Mounted"
         IN
         /\ controllerSlots' = [controllerSlots EXCEPT ![s] = d]
         /\ mounts' = [mounts EXCEPT ![<<s, p>>] = m]
         /\ bus' = IF Held(id).state = "Reserved" /\ addOk
                   THEN [bus EXCEPT ![s] = d.path] ELSE bus
         /\ guestMounts' = IF mounts[<<s, p>>].state = "Reserved" /\ m.state = "Mounted"
                           THEN guestMounts \cup {<<s, p>>} ELSE guestMounts
         /\ phase' = [phase EXCEPT ![id] = IF ok THEN "mapped" ELSE "releasing"]
    /\ UNCHANGED <<reservations, disksByPath, isMigrating, saved, saves, side, patched,
                   crashed, want>>

-----------------------------------------------------------------------------
(* UnmapFromGuest.                                                          *)

\* Mutant: the partition is unmounted by whoever unmaps first.
AnyReference(m) == m.state = "Mounted"
\* Mutant: the entry of an unmounted partition stays in the disk.
UnmountKeepsEntry(m, ok) ==
    IF m.state = "Mounted" /\ m.refCount = 1 /\ ok
    THEN [m EXCEPT !.state = "Unmounted", !.refCount = 0]
    ELSE IF m.state \in {"Reserved", "Mounted"} /\ m.refCount > 1
    THEN [m EXCEPT !.refCount = @ - 1] ELSE m

\* Mutant: unmapping a partition that an earlier attempt has unmounted fails.
UnmountGoneFails(m, ok) ==
    m.state \in {"Unmounted", "nil"} \/ (m.state = "Mounted" /\ m.refCount = 1 /\ ~ok)

\* Disk.UnmountPartitionFromGuest: the mount afterwards ("nil" once its entry
\* is removed), ok being the outcome of the guest unmount.
LastReference(m) == m.state = "Mounted" /\ m.refCount = 1
UnmountFromGuest(m, ok) ==
    IF LastReference(m) THEN (IF ok THEN NilMount ELSE m)
    ELSE IF m.state \in {"Reserved", "Mounted"} THEN [m EXCEPT !.refCount = @ - 1]
    ELSE m
UnmountFails(m, ok) == m.state = "Unmounted" \/ (LastReference(m) /\ ~ok)

\* Mutant: a disk is ejected although partitions of it are mounted.
DetachInUse(d, inUse, ejectOk, removeOk) ==
    IF d.state = "Ejected" \/ (d.state = "Attached" /\ ejectOk)
    THEN [d EXCEPT !.state = IF removeOk THEN "Detached" ELSE "Ejected"]
    ELSE d

\* Disk.DetachFromVM: eject an attached disk that has no mounts, then remove
\* an ejected disk from the bus.
DetachFromVM(d, inUse, ejectOk, removeOk) ==
    LET ejects == d.state = "Attached" /\ ~inUse
        ejected == d.state = "Ejected" \/ (ejects /\ ejectOk)
    IN IF ejected
       THEN [d EXCEPT !.state = IF removeOk THEN "Detached" ELSE "Ejected"]
       ELSE d
DetachFails(d, inUse, ejectOk, removeOk) ==
    \/ d.state = "Attached" /\ ~inUse /\ ~(ejectOk /\ removeOk)
    \/ d.state = "Ejected" /\ ~removeOk

\* Every partition of a slot without mounts, as when the disk is dropped.
ClearSlot(f, s) == [m \in Slots \X Partitions |-> IF m[1] = s THEN NilMount ELSE f[m]]

\* The index without a path.
Unindexed(path) == [disksByPath EXCEPT ![path] = NoSlot]

\* Mutant: UnmapFromGuest works while the controller is frozen.
UnmappingFrozen(id) ==
    /\ ~crashed
    /\ phase[id] \in {"mapped", "releasing"}

Unmapping(id) ==
    /\ ~crashed
    /\ ~isMigrating
    /\ phase[id] \in {"mapped", "releasing"}

UnmapFromGuest(id) ==
    LET s == reservations[id].slot
        p == reservations[id].partition
    IN
    /\ Unmapping(id)
    /\ Held(id).state # "nil"
    /\ \E unmountOk \in Outcomes("unmount"), ejectOk \in Outcomes("eject"),
          removeOk \in Outcomes("remove") :
         LET m == UnmountFromGuest(mounts[<<s, p>>], unmountOk)
             err == UnmountFails(mounts[<<s, p>>], unmountOk)
             left == [mounts EXCEPT ![<<s, p>>] = m]
             inUse == \E q \in Partitions : left[<<s, q>>].state # "nil"
             d == IF err THEN Held(id)
                  ELSE DetachFromVM(Held(id), inUse, ejectOk, removeOk)
             failed == err \/ DetachFails(Held(id), inUse, ejectOk, removeOk)
             free == ~failed /\ d.state = "Detached"
         IN
         /\ mounts' = IF free THEN ClearSlot(left, s) ELSE left
         /\ controllerSlots' = [controllerSlots EXCEPT ![s] = IF free THEN NilDisk ELSE d]
         /\ disksByPath' = IF free THEN Unindexed(d.path) ELSE disksByPath
         /\ reservations' = IF failed THEN reservations
                            ELSE [reservations EXCEPT ![id] = NoReservation]
         /\ bus' = IF d.state = "Detached" /\ Held(id).state # "Detached"
                   THEN [bus EXCEPT ![s] = None] ELSE bus
         /\ guestMounts' = IF LastReference(mounts[<<s, p>>]) /\ unmountOk
                           THEN guestMounts \ {<<s, p>>} ELSE guestMounts
         /\ phase' = [phase EXCEPT ![id] = IF failed THEN "releasing" ELSE "idle"]
         /\ want' = IF failed THEN want ELSE [want EXCEPT ![id] = None]
    /\ UNCHANGED <<isMigrating, saved, saves, side, patched, crashed>>

\* Either call dereferences the slot of its reservation without a nil check.
NilDereference(id) ==
    /\ ~crashed
    /\ ~isMigrating
    /\ phase[id] # "idle"
    /\ Held(id).state = "nil"
    /\ crashed' = TRUE
    /\ UNCHANGED <<scsi, isMigrating, saved, saves, side, patched, env, phase, want>>

-----------------------------------------------------------------------------
(* Live migration.                                                          *)

Saveable ==
    /\ \A s \in Occupied : controllerSlots[s].state \in {"Attached", "Reserved"}
    /\ \A m \in Slots \X Partitions : mounts[m].state # "Unmounted"

Save ==
    /\ ~crashed
    /\ side # "importing"
    /\ saves < MaxSaves
    /\ Saveable
    /\ saved' = Snapshot
    /\ saves' = saves + 1
    /\ isMigrating' = TRUE
    /\ UNCHANGED <<scsi, side, patched, crashed, env, phase, want>>

\* The destination shim builds its controller from the snapshot: every disk is
\* taken to be attached and every mount mounted.  The containers come along,
\* and they are only exported while running, so every reservation is mapped.
Import ==
    /\ ~crashed
    /\ side = "source"
    /\ isMigrating
    /\ \A id \in Ids : phase[id] \in {"idle", "mapped"}
    /\ reservations' = saved.reservations
    /\ controllerSlots' = [s \in Slots |->
          IF saved.disks[s].state = "nil" THEN NilDisk
          ELSE [saved.disks[s] EXCEPT !.state = "Attached"]]
    /\ mounts' = [m \in Slots \X Partitions |->
          IF saved.mounts[m].state = "nil" THEN NilMount
          ELSE [saved.mounts[m] EXCEPT !.state = "Mounted", !.refCount = @ % RefModulus]]
    /\ \E index \in [AllPaths -> Slots \cup {NoSlot}] :
          /\ \A p \in AllPaths :
                LET at == {s \in Slots : saved.disks[s].path = p} IN
                IF at = {} THEN index[p] = NoSlot ELSE index[p] \in at
          /\ disksByPath' = index
    /\ bus' = [s \in Slots |-> None]
    /\ side' = "importing"
    /\ patched' = {}
    /\ UNCHANGED <<isMigrating, saved, saves, crashed, guestMounts, phase, want>>

\* Mutant: the old entry goes even if another disk has taken it over.
RepointedBlindly(s, old, new) ==
    IF old = new THEN disksByPath ELSE
    [path \in AllPaths |->
        IF path = new THEN s ELSE IF path = old THEN NoSlot ELSE disksByPath[path]]

\* The index after slot s moves from the old path to the new one; the old entry
\* goes only if it still belongs to s.
Repointed(s, old, new) ==
    IF old = new THEN disksByPath ELSE
    [path \in AllPaths |->
        IF path = new THEN s
        ELSE IF path = old /\ disksByPath[old] = s THEN NoSlot
        ELSE disksByPath[path]]

\* A container that moves names the destination's path of a disk it holds; a
\* disk has one path on the destination, and no two disks share it.
UpdateDiskHostPath(id, newPath) ==
    LET s == reservations[id].slot
        old == controllerSlots[s].path
    IN
    /\ ~crashed
    /\ side = "importing"
    /\ isMigrating
    /\ s # NoSlot
    /\ controllerSlots[s].state # "nil"
    /\ s \notin patched
    /\ \A t \in patched : controllerSlots[t].path # newPath
    /\ controllerSlots' = [controllerSlots EXCEPT ![s].path = newPath]
    /\ disksByPath' = Repointed(s, old, newPath)
    /\ patched' = patched \cup {s}
    /\ want' = [i \in Ids |-> IF reservations[i].slot = s THEN newPath ELSE want[i]]
    /\ UNCHANGED <<reservations, mounts, isMigrating, saved, saves, side, crashed, env, phase>>

\* CreateVM on the destination attaches what HCSAttachments lists.  HCS refuses
\* to open one disk image for two attachments.
CreateDestinationVM ==
    /\ ~crashed
    /\ side = "importing"
    /\ \A s, t \in Occupied : controllerSlots[s].path = controllerSlots[t].path => s = t
    /\ bus' = [s \in Slots |-> controllerSlots[s].path]
    /\ side' = "destination"
    /\ UNCHANGED <<scsi, isMigrating, saved, saves, patched, crashed, guestMounts, phase,
                   want>>

Resume ==
    /\ ~crashed
    /\ side # "importing"
    /\ isMigrating
    /\ isMigrating' = FALSE
    /\ saved' = NoSnapshot
    /\ UNCHANGED <<scsi, saves, side, patched, crashed, env, phase, want>>

-----------------------------------------------------------------------------
Next ==
    \/ \E id \in Ids :
          \/ Reserve(id)
          \/ MapRefused(id)
          \/ MapToGuest(id)
          \/ UnmapFromGuest(id)
          \/ NilDereference(id)
          \/ \E path \in Paths : UpdateDiskHostPath(id, path)
    \/ Save
    \/ Import
    \/ CreateDestinationVM
    \/ Resume

Spec == Init /\ [][Next]_vars

(* A migration attempt ends, on the destination after every container has    *)
(* been patched, and thaws the controller.  A caller maps what it reserved,  *)
(* and one that is releasing retries until the calls below it succeed; the   *)
(* guest and the host do not refuse the same call for ever.                  *)
Release(id) == UnmapFromGuest(id) /\ phase'[id] = "idle"
Fairness ==
    /\ WF_vars(Resume) /\ WF_vars(CreateDestinationVM)
    /\ \A id \in Ids : WF_vars(\E path \in Paths : UpdateDiskHostPath(id, path))
    /\ \A id \in Ids : WF_vars(MapToGuest(id)) /\ SF_vars(Release(id))
FairSpec == Spec /\ Fairness

-----------------------------------------------------------------------------
DiskStates == {"nil", "Reserved", "Attached", "Ejected", "Detached"}
MountStates == {"nil", "Reserved", "Mounted", "Unmounted"}

(* Type invariant.  A reservation names a slot and a partition exactly while *)
(* its caller has not released it.                                           *)
TypeOK ==
    /\ reservations \in [Ids -> [slot : Slots, partition : Partitions] \cup {NoReservation}]
    /\ disksByPath \in [AllPaths -> Slots \cup {NoSlot}]
    /\ controllerSlots \in [Slots -> [state : DiskStates, path : AllPaths \cup {None},
                                      config : DiskConfigs \cup {None}]]
    /\ mounts \in [Slots \X Partitions -> [state : MountStates, refCount : Int,
                                            config : MountConfigs \cup {None}]]
    /\ isMigrating \in BOOLEAN
    /\ saves \in Nat
    /\ side \in {"source", "importing", "destination"}
    /\ patched \subseteq Slots
    /\ crashed \in BOOLEAN
    /\ bus \in [Slots -> AllPaths \cup {None}]
    /\ guestMounts \subseteq Slots \X Partitions
    /\ phase \in [Ids -> {"idle", "reserved", "mapped", "releasing"}]
    /\ want \in [Ids -> Paths \cup {None}]
    /\ \A id \in Ids : phase[id] = "idle" <=> reservations[id] = NoReservation

(* The path index and the slots agree: a path is indexed to a slot exactly   *)
(* when the disk in that slot has that path (disksByPath against             *)
(* controllerSlots), whatever fails and after any rewriting of paths.        *)
IndexSound ==
    side # "importing" =>
        \A path \in AllPaths, s \in Slots :
            disksByPath[path] = s <=> s \in Occupied /\ controllerSlots[s].path = path

(* No disk image is on the VM's bus in two slots: Reserve shares the disk of *)
(* an indexed path instead of attaching it again.                            *)
NoImageTwice ==
    \A s, t \in Slots : bus[s] # None /\ bus[s] = bus[t] => s = t

(* The state a slot records is the state of the VM's bus: AddSCSIDisk and    *)
(* RemoveSCSIDisk are never issued for a LUN in the wrong condition.         *)
BusMatchesSlots ==
    side # "importing" =>
        \A s \in Slots :
            bus[s] = IF controllerSlots[s].state \in {"Attached", "Ejected"}
                        \/ s \in DOMAIN Rootfs
                     THEN controllerSlots[s].path ELSE None

(* Every partition mounted in the guest is recorded as mounted on an         *)
(* attached disk, so no disk is ejected under a live mount; before a         *)
(* migration the converse holds too.                                         *)
GuestMountsTracked ==
    /\ \A m \in guestMounts :
          mounts[m].state = "Mounted" /\ controllerSlots[m[1]].state = "Attached"
    /\ side = "source" =>
          \A m \in Slots \X Partitions : mounts[m].state = "Mounted" => m \in guestMounts

(* While the source is frozen its state is the snapshot that was exported    *)
(* (doc.go: the live state cannot diverge from the captured snapshot).       *)
FrozenIsSnapshot ==
    side = "source" /\ isMigrating => saved = Snapshot

(* A caller whose MapToGuest succeeded has its own disk attached and its     *)
(* partition mounted until it calls UnmapFromGuest, whatever other callers   *)
(* do meanwhile.                                                             *)
MappedIsLive ==
    \A id \in Ids :
        phase[id] = "mapped" =>
            LET s == reservations[id].slot
                p == reservations[id].partition
            IN /\ controllerSlots[s].state = "Attached"
               /\ controllerSlots[s].path = want[id]
               /\ mounts[<<s, p>>].state = "Mounted"
               /\ <<s, p>> \in guestMounts

(* The reference count of a mount is the number of reservations on its       *)
(* partition.                                                                *)
RefCountsMatch ==
    \A m \in Slots \X Partitions :
        mounts[m].state \in {"Reserved", "Mounted"} =>
            mounts[m].refCount = Cardinality({id \in Ids :
                reservations[id] = [slot |-> m[1], partition |-> m[2]]})

(* UnmapFromGuest frees the slot of a disk with the last reservation on it,  *)
(* unless one of them was released, across a freeze, without having been     *)
(* mapped: its mount stays behind in state Reserved.                         *)
SlotsReclaimed ==
    \A s \in Occupied \ DOMAIN Rootfs :
        \/ \E id \in Ids : reservations[id].slot = s
        \/ \E p \in Partitions : mounts[<<s, p>>].state = "Reserved"

(* Releasing a reservation eventually succeeds when the caller retries: it   *)
(* is not releasing for ever.                                                *)
Released == \A id \in Ids : []<>(phase[id] # "releasing")
=============================================================================

----------------------------- MODULE ScsiProofs -----------------------------
(***************************************************************************)
(* The SCSI controller keeps its books: the path index agrees with the     *)
(* slots, the slots with the VM's bus, the mounts with the guest, and a    *)
(* frozen source with its snapshot, for any number of callers, disks,      *)
(* slots and migration attempts and whichever calls fail.  A caller that   *)
(* mapped a partition keeps it, each mount counts its callers, and what    *)
(* nobody holds is reclaimed: these need that hot-adding and ejecting a    *)
(* disk do not fail.                                                       *)
(***************************************************************************)
EXTENDS ScsiController, FiniteSetTheorems, TLAPS

Parts == Slots \X Partitions
Path(s) == controllerSlots[s].path
State(s) == controllerSlots[s].state

\* An empty slot holds nothing; an occupied one holds a disk with a path.
SlotShape ==
    \A s \in Slots : IF State(s) = "nil" THEN controllerSlots[s] = NilDisk
                     ELSE Path(s) \in AllPaths

\* The boot disks stay where they are and no reservation is on them.
RootfsKept ==
    /\ \A s \in DOMAIN Rootfs :
          State(s) \in {"Reserved", "Attached"} /\ Path(s) = Rootfs[s]
    /\ \A id \in Ids : reservations[id].slot \notin DOMAIN Rootfs

\* Only an attached disk has mounted partitions.
MountedOnAttached ==
    \A m \in Parts : mounts[m].state = "Mounted" => State(m[1]) = "Attached"

\* An empty slot has no mounts.
MountsInSlots ==
    \A m \in Parts : State(m[1]) = "nil" => mounts[m].state = "nil"

\* A controller being imported is frozen and takes its disks to be attached.
\* A disk that was patched owns its path; the path of one that was not may have
\* been taken over by one that was.
Importing ==
    side = "importing" =>
        /\ isMigrating
        /\ \A s \in Occupied : State(s) = "Attached"
        /\ \A s \in Slots : bus[s] = None
        /\ \A s \in patched : s \in Occupied /\ disksByPath[Path(s)] = s
        /\ \A s \in Occupied \ patched :
              disksByPath[Path(s)] = s \/ \E t \in patched : Path(t) = Path(s)
        /\ \A path \in AllPaths, s \in Slots :
              disksByPath[path] = s => s \in Occupied /\ Path(s) = path

\* The inductive invariant.
Inv ==
    /\ TypeOK
    /\ SlotShape
    /\ RootfsKept
    /\ MountedOnAttached
    /\ MountsInSlots
    /\ Importing
    /\ IndexSound
    /\ BusMatchesSlots
    /\ GuestMountsTracked
    /\ FrozenIsSnapshot

Mount == [state : MountStates, refCount : Int, config : MountConfigs \cup {None}]
Disk == [state : DiskStates, path : AllPaths \cup {None}, config : DiskConfigs \cup {None}]

\* The definitions the leaves expand together.
USE DEF Slots, NoSlot, NoReservation, NilDisk, NilMount, Occupied, Parts, Path, State

\* The index of a path that has no disk is not a slot.
LEMMA NoSlotIsNone == \A t \in Slots : NoSlot # t
  OBVIOUS

-----------------------------------------------------------------------------
(* The invariant holds in the controller newSCSIController builds.          *)
LEMMA InitInv == Init => Inv
<1> SUFFICES ASSUME Init PROVE Inv
    BY Zenon
<1> USE ScsiAssumption
<1>1. TypeOK
  <2>1. disksByPath \in [AllPaths -> Slots \cup {NoSlot}]
    BY Zenon DEF Init, RootPaths, AllPaths
  <2>2. controllerSlots \in [Slots -> [state : DiskStates, path : AllPaths \cup {None},
                                      config : DiskConfigs \cup {None}]]
    BY Zenon DEF Init, NewDisk, DiskStates, RootPaths, AllPaths
  <2>3. mounts \in [Slots \X Partitions -> [state : MountStates, refCount : Int,
                                            config : MountConfigs \cup {None}]]
    BY DEF Init, MountStates
  <2>4. bus \in [Slots -> AllPaths \cup {None}]
    BY Zenon DEF Init, RootPaths, AllPaths
  <2>. QED
    BY <2>1, <2>2, <2>3, <2>4, Zenon DEF Init, TypeOK
<1>2. SlotShape
  BY Zenon DEF Init, SlotShape, NewDisk, RootPaths, AllPaths
<1>3. RootfsKept
  BY DEF Init, RootfsKept, NewDisk
<1>4. MountedOnAttached
  BY Zenon DEF Init, MountedOnAttached
<1>5. IndexSound
  <2> SUFFICES ASSUME NEW path \in AllPaths, NEW s \in Slots
               PROVE  disksByPath[path] = s <=> s \in Occupied /\ Path(s) = path
    BY Zenon DEF IndexSound
  <2>1. CASE path \in RootPaths
    BY <2>1, Zenon DEF Init, NewDisk, RootPaths
  <2>2. CASE path \notin RootPaths
    BY <2>2 DEF Init, NewDisk, RootPaths, AllPaths
  <2>. QED
    BY <2>1, <2>2, Zenon
<1>6. BusMatchesSlots
  BY Zenon DEF Init, BusMatchesSlots, NewDisk
<1>7. GuestMountsTracked
  BY Zenon DEF Init, GuestMountsTracked
<1>8. MountsInSlots
  BY Zenon DEF Init, MountsInSlots
<1>. QED
  BY <1>1, <1>2, <1>3, <1>4, <1>5, <1>6, <1>7, <1>8, Zenon
     DEF Init, Inv, Importing, FrozenIsSnapshot

-----------------------------------------------------------------------------
(* What the operations on one mount and one disk return.                     *)
LEMMA ReserveMountIs ==
    ASSUME NEW m \in Mount, NEW cfg \in MountConfigs
    PROVE  /\ ReserveMount(m, cfg) \in Mount
           /\ ReserveMount(m, cfg).state = IF m.state = "nil" THEN "Reserved" ELSE m.state
<1>1. CASE m.state = "nil"
  BY <1>1 DEF ReserveMount, NewMount, Mount, MountStates
<1>2. CASE m.state # "nil"
  BY <1>2 DEF ReserveMount, Mount, MountStates
<1>. QED
  BY <1>1, <1>2, Zenon

LEMMA AttachToVMIs ==
    ASSUME NEW d \in Disk, NEW ok \in BOOLEAN
    PROVE  /\ AttachToVM(d, ok) \in Disk
           /\ AttachToVM(d, ok).path = d.path
           /\ AttachToVM(d, ok).state = IF d.state # "Reserved" THEN d.state
                                        ELSE IF ok THEN "Attached" ELSE "Detached"
BY Zenon DEF AttachToVM, Disk, DiskStates

LEMMA MountToGuestIs ==
    ASSUME NEW m \in Mount, NEW ok \in BOOLEAN
    PROVE  /\ MountToGuest(m, ok) \in Mount
           /\ MountToGuest(m, ok).state = IF m.state # "Reserved" THEN m.state
                                          ELSE IF ok THEN "Mounted" ELSE "Unmounted"
BY Zenon DEF MountToGuest, Mount, MountStates

LEMMA UnmountFromGuestIs ==
    ASSUME NEW m \in Mount, NEW ok \in BOOLEAN
    PROVE  /\ UnmountFromGuest(m, ok) \in Mount
           /\ UnmountFromGuest(m, ok).state =
                 IF LastReference(m) /\ ok THEN "nil" ELSE m.state
           /\ LastReference(m) => m.state = "Mounted"
BY DEF UnmountFromGuest, LastReference, Mount, MountStates

-----------------------------------------------------------------------------
(* Reserve on an indexed path only adds a reference: no disk, path or bus    *)
(* entry changes, and the mount is not the one of a boot disk.               *)
LEMMA ReserveExistingInv ==
    ASSUME Inv, NEW id \in Ids, NEW path \in Paths, NEW cfg \in DiskConfigs,
           NEW p \in Partitions, NEW mcfg \in MountConfigs,
           ReserveExisting(id, path, cfg, p, mcfg)
    PROVE  Inv'
<1> DEFINE s == disksByPath[path]
<1> USE DEF ReserveExisting, Accepting, Granted, scsi, env
<1>1. /\ s \in Slots /\ Path(s) = path /\ s \notin DOMAIN Rootfs
      /\ side # "importing" /\ ~isMigrating
  <2>1. side # "importing"
    BY Zenon DEF Inv, Importing
  <2>2. s \in Slots /\ Path(s) = path
    BY <2>1, SMTT(30) DEF Inv, IndexSound, TypeOK, AllPaths
  <2>3. s \notin DOMAIN Rootfs
    BY ScsiAssumption, <2>1, <2>2 DEF Inv, RootPaths, RootfsKept
  <2>. QED
    BY <2>1, <2>2, <2>3, Zenon
<1>a. /\ <<s, p>> \in Parts
      /\ mounts' = [mounts EXCEPT ![<<s, p>>] = ReserveMount(mounts[<<s, p>>], mcfg)]
  BY <1>1, Zenon
<1>b. /\ mounts'[<<s, p>>].state = IF mounts[<<s, p>>].state = "nil" THEN "Reserved"
                                  ELSE mounts[<<s, p>>].state
      /\ ReserveMount(mounts[<<s, p>>], mcfg) \in Mount
      /\ \A m \in Parts : m # <<s, p>> => mounts'[m] = mounts[m]
  <2>1. mounts[<<s, p>>] \in Mount
    BY <1>a, Zenon DEF Inv, TypeOK, Mount
  <2>2. mounts'[<<s, p>>] = ReserveMount(mounts[<<s, p>>], mcfg)
    BY <1>a, Zenon DEF Inv, TypeOK
  <2>3. \A m \in Parts : m # <<s, p>> => mounts'[m] = mounts[m]
    BY ZenonT(40), <1>a DEF Inv, TypeOK
  <2>. QED
    BY <2>1, <2>2, <2>3, ReserveMountIs
<1>2. TypeOK'
  BY SMTT(20), <1>1, <1>a, <1>b DEF Inv, TypeOK, Mount
<1>3. SlotShape'
  BY Zenon DEF Inv, SlotShape
<1>4. RootfsKept'
  BY <1>1, Zenon DEF Inv, TypeOK, RootfsKept
<1>5. MountedOnAttached'
  BY <1>1, <1>a, <1>b, SMTT(30) DEF Inv, MountedOnAttached
<1>6. GuestMountsTracked'
  BY <1>1, <1>a, <1>b, SMTT(30) DEF Inv, GuestMountsTracked
<1>7. MountsInSlots'
  BY <1>1, <1>a, <1>b DEF Inv, MountsInSlots
<1>. QED
  BY <1>1, <1>2, <1>3, <1>4, <1>5, <1>6, <1>7, ZenonT(40)
     DEF Inv, Importing, IndexSound, BusMatchesSlots, FrozenIsSnapshot

(* Reserve on a new path takes an empty slot that is not on the bus, and     *)
(* indexes a path no other disk has.                                         *)
LEMMA ReserveNewInv ==
    ASSUME Inv, NEW id \in Ids, NEW path \in Paths, NEW cfg \in DiskConfigs,
           NEW p \in Partitions, NEW mcfg \in MountConfigs,
           ReserveNew(id, path, cfg, p, mcfg)
    PROVE  Inv'
<1>1. PICK s \in Slots :
          /\ FirstFree(s)
          /\ controllerSlots' = [controllerSlots EXCEPT ![s] = NewDisk(path, cfg)]
          /\ mounts' = [m \in Slots \X Partitions |->
                IF m[1] # s THEN mounts[m]
                ELSE IF m[2] = p THEN NewMount(mcfg) ELSE NilMount]
          /\ disksByPath' = [disksByPath EXCEPT ![path] = s]
          /\ Granted(id, s, path, p)
  BY Zenon DEF ReserveNew
<1>g. /\ reservations' = [reservations EXCEPT ![id] = [slot |-> s, partition |-> p]]
      /\ phase' = [phase EXCEPT ![id] = "reserved"] /\ want' = [want EXCEPT ![id] = path]
      /\ bus' = bus /\ guestMounts' = guestMounts
      /\ UNCHANGED <<isMigrating, saved, saves, side, patched, crashed>>
  BY <1>1, Zenon DEF Granted, env
<1>2. /\ ~isMigrating /\ phase[id] = "idle" /\ disksByPath[path] = NoSlot
      /\ side # "importing"
      /\ State(s) = "nil" /\ s \notin DOMAIN Rootfs
  BY <1>1, Zenon DEF ReserveNew, Accepting, FirstFree, Inv, Importing, RootfsKept
<1>3. /\ controllerSlots'[s] = NewDisk(path, cfg)
      /\ \A t \in Slots : t # s => controllerSlots'[t] = controllerSlots[t]
  BY <1>1, Zenon DEF Inv, TypeOK
<1>4. /\ \A m \in Parts : m[1] # s => mounts'[m] = mounts[m]
      /\ \A m \in Parts : m[1] = s => mounts'[m] \in {NewMount(mcfg), NilMount}
      /\ mounts' \in [Parts -> Mount]
  <2>1. NewMount(mcfg) \in Mount /\ NilMount \in Mount
    BY SMTT(20) DEF NewMount, Mount, MountStates
  <2>. QED
    BY <1>1, <2>1, Zenon DEF Inv, TypeOK, Mount
<1>5. TypeOK'
  <2>1. NewDisk(path, cfg) \in Disk
    BY Zenon DEF NewDisk, Disk, DiskStates, AllPaths
  <2>. QED
    BY <1>1, <1>2, <1>4, <1>g, <2>1, SMTT(30) DEF Inv, TypeOK, Disk, Mount, AllPaths
<1>6. SlotShape'
  <2>1. SlotShape
    BY Zenon DEF Inv
  <2>. QED
    BY <1>3, <2>1 DEF SlotShape, NewDisk, AllPaths
<1>7. RootfsKept'
  <2>1. \A i \in Ids : reservations'[i].slot = IF i = id THEN s ELSE reservations[i].slot
    BY <1>g, Zenon DEF Inv, TypeOK
  <2>2. RootfsKept
    BY Zenon DEF Inv
  <2>3. DOMAIN Rootfs \subseteq Slots
    BY ScsiAssumption, Zenon
  <2>. QED
    BY <1>2, <1>3, <2>1, <2>2, <2>3, Zenon DEF RootfsKept
<1>8. MountedOnAttached'
  BY <1>3, <1>4, SMTT(30) DEF Inv, MountedOnAttached, NewMount
<1>9. IndexSound'
  <2> SUFFICES ASSUME NEW q \in AllPaths, NEW t \in Slots
               PROVE  (disksByPath[q] = t <=> t \in Occupied /\ Path(t) = q)'
    BY Zenon DEF IndexSound
  <2>1. disksByPath[q] = t <=> t \in Occupied /\ Path(t) = q
    BY Zenon, <1>2 DEF Inv, IndexSound
  <2>2. disksByPath'[q] = IF q = path THEN s ELSE disksByPath[q]
    BY <1>1, Zenon DEF Inv, TypeOK, AllPaths
  <2>3. \A u \in Slots : u \in Occupied => Path(u) # path
    BY SMTT(20), <1>2 DEF Inv, IndexSound, AllPaths
  <2>. QED
    BY <1>2, <1>3, <2>1, <2>2, <2>3 DEF NewDisk
<1>10. BusMatchesSlots'
  <2>1. BusMatchesSlots /\ bus' = bus
    BY Zenon, <1>g DEF Inv
  <2>. QED
    BY <1>2, <1>3, <2>1 DEF BusMatchesSlots, NewDisk
<1>11. MountsInSlots'
  <2>1. MountsInSlots
    BY Zenon DEF Inv
  <2>. QED
    BY <1>3, <1>4, <2>1 DEF MountsInSlots, NewDisk
<1>12. GuestMountsTracked'
  <2>1. /\ GuestMountsTracked /\ MountsInSlots /\ guestMounts \subseteq Parts
        /\ guestMounts' = guestMounts /\ side' = side
    BY Zenon, <1>g DEF Inv, TypeOK
  <2>2. \A n \in Parts : n[1] = s => mounts[n].state = "nil" /\ mounts'[n].state # "Mounted"
    <3> SUFFICES ASSUME NEW n \in Parts, n[1] = s
                 PROVE  mounts[n].state = "nil" /\ mounts'[n].state # "Mounted"
      BY Zenon
    <3>1. mounts[n].state = "nil"
      BY <1>2, <2>1, Zenon DEF MountsInSlots
    <3>2. mounts'[n].state # "Mounted"
      BY <1>4, <3>1 DEF NewMount
    <3>. QED
      BY <3>1, <3>2, Zenon
  <2>. QED
    BY ZenonT(40), <1>3, <1>4, <2>1, <2>2 DEF GuestMountsTracked
<1>. QED
  BY <1>2, <1>5, <1>g, <1>6, <1>7, <1>8, <1>9, <1>10, <1>11, <1>12, Zenon
     DEF Inv, Importing, FrozenIsSnapshot

-----------------------------------------------------------------------------
(* Refused calls, crashes and thaws leave the books alone; Save makes them   *)
(* the snapshot.                                                             *)
LEMMA SameBooks ==
    ASSUME Inv, UNCHANGED <<scsi, env, side, patched>>, side = "importing" => isMigrating'
    PROVE  /\ SlotShape' /\ RootfsKept' /\ MountedOnAttached' /\ MountsInSlots'
           /\ Importing' /\ IndexSound' /\ BusMatchesSlots' /\ GuestMountsTracked'
<1>1. /\ reservations' = reservations /\ disksByPath' = disksByPath
      /\ controllerSlots' = controllerSlots /\ mounts' = mounts
      /\ bus' = bus /\ guestMounts' = guestMounts /\ side' = side /\ patched' = patched
  BY Zenon DEF scsi, env
<1>2. SlotShape' /\ RootfsKept'
  BY <1>1, Zenon DEF Inv, SlotShape, RootfsKept
<1>3. MountedOnAttached' /\ MountsInSlots'
  BY <1>1, Zenon DEF Inv, MountedOnAttached, MountsInSlots
<1>4. Importing'
  BY <1>1, Zenon DEF Inv, Importing
<1>5. IndexSound'
  BY <1>1, Zenon DEF Inv, IndexSound
<1>6. BusMatchesSlots' /\ GuestMountsTracked'
  BY <1>1, Zenon DEF Inv, BusMatchesSlots, GuestMountsTracked
<1>. QED
  BY <1>2, <1>3, <1>4, <1>5, <1>6, Zenon

LEMMA MapRefusedInv ==
    ASSUME Inv, NEW id \in Ids, MapRefused(id)
    PROVE  Inv'
<1>1. UNCHANGED <<scsi, env, side, patched>> /\ (side = "importing" => isMigrating')
  BY Zenon DEF MapRefused, Inv, Importing
<1>2. TypeOK'
  BY Zenon DEF MapRefused, scsi, env, Inv, TypeOK
<1>3. FrozenIsSnapshot'
  BY Zenon DEF MapRefused, scsi, Inv, FrozenIsSnapshot, Snapshot
<1>. QED
  BY <1>1, <1>2, <1>3, SameBooks, Zenon DEF Inv

LEMMA NilDereferenceInv ==
    ASSUME Inv, NEW id \in Ids, NilDereference(id)
    PROVE  Inv'
<1>1. UNCHANGED <<scsi, env, side, patched>> /\ (side = "importing" => isMigrating')
  BY Zenon DEF NilDereference, Inv, Importing
<1>2. TypeOK'
  BY Zenon DEF NilDereference, scsi, env, Inv, TypeOK
<1>3. FrozenIsSnapshot'
  BY Zenon DEF NilDereference, scsi, Inv, FrozenIsSnapshot, Snapshot
<1>. QED
  BY <1>1, <1>2, <1>3, SameBooks, Zenon DEF Inv

LEMMA SaveInv ==
    ASSUME Inv, Save
    PROVE  Inv'
<1>1. UNCHANGED <<scsi, env, side, patched>> /\ (side = "importing" => isMigrating')
  BY Zenon DEF Save, Inv, Importing
<1>2. TypeOK'
  BY SMTT(30) DEF Save, scsi, env, Inv, TypeOK
<1>3. FrozenIsSnapshot'
  BY Zenon DEF Save, scsi, Inv, FrozenIsSnapshot, Snapshot
<1>. QED
  BY <1>1, <1>2, <1>3, SameBooks, Zenon DEF Inv

LEMMA ResumeInv ==
    ASSUME Inv, Resume
    PROVE  Inv'
<1>1. UNCHANGED <<scsi, env, side, patched>> /\ (side = "importing" => isMigrating')
  BY Zenon DEF Resume, Inv, Importing
<1>2. TypeOK'
  BY Zenon DEF Resume, scsi, env, Inv, TypeOK
<1>3. FrozenIsSnapshot'
  BY Zenon DEF Resume, scsi, Inv, FrozenIsSnapshot, Snapshot
<1>. QED
  BY <1>1, <1>2, <1>3, SameBooks, Zenon DEF Inv

-----------------------------------------------------------------------------
(* A caller that has not released holds a slot that is not a boot disk's.    *)
LEMMA HeldSlot ==
    ASSUME Inv, NEW id \in Ids, phase[id] # "idle"
    PROVE  /\ reservations[id].slot \in Slots \ DOMAIN Rootfs
           /\ reservations[id].partition \in Partitions
           /\ Held(id) \in Disk
           /\ mounts[<<reservations[id].slot, reservations[id].partition>>] \in Mount
<1>1. reservations[id] \in [slot : Slots, partition : Partitions]
  BY Zenon DEF Inv, TypeOK
<1>2. reservations[id].slot \notin DOMAIN Rootfs
  BY Zenon DEF Inv, RootfsKept
<1>. QED
  BY <1>1, <1>2, Zenon DEF Inv, TypeOK, Held, Disk, Mount

-----------------------------------------------------------------------------
(* MapToGuest puts a disk on the bus when it records it as attached, and     *)
(* mounts a partition only of a disk that is attached.                       *)
LEMMA MapToGuestInv ==
    ASSUME Inv, NEW id \in Ids, MapToGuest(id)
    PROVE  Inv'
<1> USE DEF scsi, env
<1> DEFINE s == reservations[id].slot
           p == reservations[id].partition
           d0 == Held(id)
           m0 == mounts[<<s, p>>]
           d(addOk) == AttachToVM(d0, addOk)
           m(addOk, mountOk) == IF d(addOk).state = "Attached"
                                THEN MountToGuest(m0, mountOk) ELSE m0
<1>1. /\ ~isMigrating /\ side # "importing" /\ phase[id] = "reserved"
      /\ d0.state # "nil"
      /\ UNCHANGED <<reservations, disksByPath, isMigrating, saved, saves, side, patched,
                     crashed, want>>
  BY Zenon DEF MapToGuest, Inv, Importing
<1>2. PICK addOk \in Outcomes("add"), mountOk \in Outcomes("mount") :
        /\ controllerSlots' = [controllerSlots EXCEPT ![s] = d(addOk)]
        /\ mounts' = [mounts EXCEPT ![<<s, p>>] = m(addOk, mountOk)]
        /\ bus' = IF d0.state = "Reserved" /\ addOk
                  THEN [bus EXCEPT ![s] = d(addOk).path] ELSE bus
        /\ guestMounts' = IF m0.state = "Reserved" /\ m(addOk, mountOk).state = "Mounted"
                          THEN guestMounts \cup {<<s, p>>} ELSE guestMounts
        /\ phase' = [phase EXCEPT ![id] =
                        IF d(addOk).state = "Attached" /\ m(addOk, mountOk).state = "Mounted"
                        THEN "mapped" ELSE "releasing"]
  BY Zenon DEF MapToGuest
<1>ok. addOk \in BOOLEAN /\ mountOk \in BOOLEAN
  BY Zenon DEF Outcomes
<1> DEFINE d1 == d(addOk)
           m1 == m(addOk, mountOk)
<1>3. /\ s \in Slots /\ s \notin DOMAIN Rootfs /\ p \in Partitions
      /\ d0 \in Disk /\ m0 \in Mount /\ d0 = controllerSlots[s]
  BY <1>1, HeldSlot, Zenon DEF Held
<1>4. /\ d1 \in Disk /\ d1.path = d0.path
      /\ d1.state = IF d0.state # "Reserved" THEN d0.state
                    ELSE IF addOk THEN "Attached" ELSE "Detached"
  BY <1>3, <1>ok, AttachToVMIs, Zenon
<1>5. /\ m1 \in Mount
      /\ m1.state = IF d1.state = "Attached" /\ m0.state = "Reserved"
                    THEN (IF mountOk THEN "Mounted" ELSE "Unmounted") ELSE m0.state
  BY <1>3, <1>ok, MountToGuestIs, Zenon
<1> HIDE DEF d, m
<1>6. /\ controllerSlots'[s] = d1
      /\ \A t \in Slots : t # s => controllerSlots'[t] = controllerSlots[t]
  BY <1>2, <1>3, Zenon DEF Inv, TypeOK
<1>7. /\ <<s, p>> \in Parts
      /\ mounts'[<<s, p>>] = m1
      /\ \A n \in Parts : n # <<s, p>> => mounts'[n] = mounts[n]
  BY <1>2, <1>3, Zenon DEF Inv, TypeOK
<1>8. \A t \in Slots : bus'[t] = IF t = s /\ d0.state = "Reserved" /\ addOk
                                 THEN d0.path ELSE bus[t]
  BY <1>2, <1>3, <1>4, Zenon DEF Inv, TypeOK
<1>9. d0.path \in AllPaths
  BY <1>1, <1>3, ZenonT(40) DEF Inv, SlotShape
<1>10. TypeOK'
  <2>1. controllerSlots' \in [Slots -> Disk] /\ mounts' \in [Parts -> Mount]
    BY ZenonT(40), <1>2, <1>3, <1>4, <1>5, <1>7 DEF Inv, TypeOK, Disk, Mount
  <2>2. bus' \in [Slots -> AllPaths \cup {None}]
    BY <1>2, <1>3, <1>4, <1>9, Zenon DEF Inv, TypeOK
  <2>3. /\ phase' \in [Ids -> {"idle", "reserved", "mapped", "releasing"}]
        /\ \A i \in Ids : phase'[i] = "idle" <=> reservations'[i] = NoReservation
    <3>1. phase'[id] \in {"mapped", "releasing"} /\ \A i \in Ids : i # id => phase'[i] = phase[i]
      BY <1>2, Zenon DEF Inv, TypeOK
    <3>2. \A i \in Ids : phase[i] = "idle" <=> reservations[i] = NoReservation
      BY Zenon DEF Inv, TypeOK
    <3>3. phase' \in [Ids -> {"idle", "reserved", "mapped", "releasing"}]
      BY <1>2, Zenon DEF Inv, TypeOK
    <3>. QED
      BY <1>1, <3>1, <3>2, <3>3, Zenon
  <2>4. guestMounts' \subseteq Parts
    BY <1>2, <1>7, Zenon DEF Inv, TypeOK
  <2>. QED
    BY Zenon, <1>1, <2>1, <2>2, <2>3, <2>4 DEF Inv, TypeOK, Disk, Mount
<1>11. SlotShape'
  BY <1>1, <1>3, <1>4, <1>6, <1>9, ZenonT(40) DEF Inv, SlotShape
<1>12. RootfsKept'
  BY ScsiAssumption, <1>1, <1>3, <1>6, ZenonT(40) DEF Inv, RootfsKept
<1>13. MountedOnAttached'
  <2> SUFFICES ASSUME NEW n \in Parts, mounts'[n].state = "Mounted"
               PROVE  controllerSlots'[n[1]].state = "Attached"
    BY Zenon DEF MountedOnAttached
  <2>1. CASE n = <<s, p>>
    <3>1. m0.state = "Mounted" => d0.state = "Attached"
      BY <1>3, <1>7, ZenonT(40) DEF Inv, MountedOnAttached
    <3>. QED
      BY <2>1, <3>1, <1>4, <1>5, <1>6, <1>7, Zenon
  <2>2. CASE n # <<s, p>>
    <3>1. State(n[1]) = "Attached"
      BY <2>2, <1>7, Zenon DEF Inv, MountedOnAttached
    <3>. QED
      BY <3>1, <1>3, <1>4, <1>6, Zenon
  <2>. QED
    BY <2>1, <2>2, Zenon
<1>14. IndexSound'
  <2>1. \A t \in Slots : /\ controllerSlots'[t].path = Path(t)
                         /\ controllerSlots'[t].state = "nil" <=> State(t) = "nil"
    BY <1>1, <1>3, <1>4, <1>6, Zenon
  <2>2. IndexSound /\ side # "importing" /\ side' = side /\ disksByPath' = disksByPath
    BY <1>1, Zenon DEF Inv
  <2>. QED
    BY <2>1, <2>2, SMTT(30) DEF IndexSound
<1>15. BusMatchesSlots'
  <2> SUFFICES ASSUME NEW t \in Slots
               PROVE  bus'[t] = IF controllerSlots'[t].state \in {"Attached", "Ejected"}
                                   \/ t \in DOMAIN Rootfs
                                THEN controllerSlots'[t].path ELSE None
    BY Zenon DEF BusMatchesSlots
  <2>1. bus[t] = IF State(t) \in {"Attached", "Ejected"} \/ t \in DOMAIN Rootfs
                 THEN Path(t) ELSE None
    BY <1>1, Zenon DEF Inv, BusMatchesSlots
  <2>. QED
    BY <2>1, <1>3, <1>4, <1>6, <1>8, Zenon
<1>16. GuestMountsTracked'
  <2>1. ASSUME NEW n \in guestMounts'
        PROVE  mounts'[n].state = "Mounted"
    <3>1. CASE n \in guestMounts
      <4>1. n \in Parts /\ mounts[n].state = "Mounted"
        BY <3>1, Zenon DEF Inv, TypeOK, GuestMountsTracked
      <4>. QED
        BY <4>1, <1>5, <1>7, Zenon
    <3>2. CASE n \notin guestMounts
      BY <3>2, <1>2, <1>7, Zenon
    <3>. QED
      BY <3>1, <3>2, Zenon
  <2>2. \A n \in guestMounts' : n \in Parts
    BY ZenonT(40), <1>10 DEF TypeOK
  <2>3. ASSUME side' = "source", NEW n \in Parts, mounts'[n].state = "Mounted"
        PROVE  n \in guestMounts'
    BY <2>3, <1>1, <1>2, <1>5, <1>7, SMTT(30) DEF Inv, GuestMountsTracked
  <2>. QED
    BY <2>1, <2>2, <2>3, <1>13, Zenon DEF GuestMountsTracked, MountedOnAttached
<1>17. MountsInSlots'
  BY <1>1, <1>3, <1>4, <1>6, <1>7, SMTT(30) DEF Inv, MountsInSlots
<1>. QED
  BY <1>1, <1>10, <1>11, <1>12, <1>13, <1>14, <1>15, <1>16, <1>17, Zenon
     DEF Inv, Importing, FrozenIsSnapshot

-----------------------------------------------------------------------------
(* UnmapFromGuest in the terms the invariant is about.                       *)
\* What UnmapFromGuest leaves when it is over: L, the mounts once the partition
\* has been unmounted, and d1, the disk once it has been detached ...
GuestUnmounts(s, p, L) ==
    /\ L \in [Parts -> Mount]
    /\ \A n \in Parts : n # <<s, p>> => L[n] = mounts[n]
    /\ \/ L[<<s, p>>].state = mounts[<<s, p>>].state /\ guestMounts' = guestMounts
       \/ /\ mounts[<<s, p>>].state = "Mounted"
          /\ L[<<s, p>>].state = "nil"
          /\ guestMounts' = guestMounts \ {<<s, p>>}
Detaches(s, d1, L) ==
    /\ d1 \in Disk
    /\ d1.path = Path(s)
    /\ \/ d1.state = State(s)
       \/ d1.state \in {"Ejected", "Detached"} /\ State(s) = "Ejected"
       \/ /\ d1.state \in {"Ejected", "Detached"} /\ State(s) = "Attached"
          /\ \A q \in Partitions : L[<<s, q>>].state = "nil"
    /\ bus' = IF d1.state = "Detached" /\ State(s) # "Detached"
              THEN [bus EXCEPT ![s] = None] ELSE bus
\* ... which are kept, or dropped with the slot, ...
SlotKept(s, d1, L) ==
    /\ mounts' = L
    /\ controllerSlots' = [controllerSlots EXCEPT ![s] = d1]
    /\ disksByPath' = disksByPath
SlotFreed(s, d1, L) ==
    /\ d1.state = "Detached"
    /\ mounts' = ClearSlot(L, s)
    /\ controllerSlots' = [controllerSlots EXCEPT ![s] = NilDisk]
    /\ disksByPath' = Unindexed(Path(s))
\* ... and the caller's reservation, which goes with the call that succeeds.
Answers(id) ==
    \/ /\ phase' = [phase EXCEPT ![id] = "releasing"]
       /\ UNCHANGED <<reservations, want>>
    \/ /\ phase' = [phase EXCEPT ![id] = "idle"]
       /\ reservations' = [reservations EXCEPT ![id] = NoReservation]
       /\ want' = [want EXCEPT ![id] = None]
Unmaps(id, s, p, d1, L) ==
    /\ ~isMigrating /\ side # "importing" /\ phase[id] # "idle"
    /\ UNCHANGED <<isMigrating, saved, saves, side, patched, crashed>>
    /\ s \in Slots /\ s \notin DOMAIN Rootfs /\ p \in Partitions
    /\ State(s) # "nil" /\ Path(s) \in AllPaths
    /\ GuestUnmounts(s, p, L)
    /\ Detaches(s, d1, L)
    /\ SlotKept(s, d1, L) \/ SlotFreed(s, d1, L)
    /\ Answers(id)

LEMMA UnmapFromGuestIs ==
    ASSUME Inv, NEW id \in Ids, UnmapFromGuest(id)
    PROVE  \E s, p, d1, L : Unmaps(id, s, p, d1, L)
<1> DEFINE s == reservations[id].slot
           p == reservations[id].partition
           d0 == Held(id)
           m0 == mounts[<<s, p>>]
           m(uOk) == UnmountFromGuest(m0, uOk)
           err(uOk) == UnmountFails(m0, uOk)
           left(uOk) == [mounts EXCEPT ![<<s, p>>] = m(uOk)]
           inUse(uOk) == \E q \in Partitions : left(uOk)[<<s, q>>].state # "nil"
           d(uOk, eOk, rOk) == IF err(uOk) THEN d0
                               ELSE DetachFromVM(d0, inUse(uOk), eOk, rOk)
           failed(uOk, eOk, rOk) == err(uOk) \/ DetachFails(d0, inUse(uOk), eOk, rOk)
           free(uOk, eOk, rOk) == ~failed(uOk, eOk, rOk)
                                     /\ d(uOk, eOk, rOk).state = "Detached"
<1>1. /\ ~isMigrating /\ side # "importing" /\ phase[id] # "idle"
      /\ d0.state # "nil"
      /\ UNCHANGED <<isMigrating, saved, saves, side, patched, crashed>>
  BY Zenon DEF UnmapFromGuest, Unmapping, Inv, Importing
<1>2. PICK uOk \in Outcomes("unmount"), eOk \in Outcomes("eject"),
           rOk \in Outcomes("remove") :
        /\ mounts' = IF free(uOk, eOk, rOk) THEN ClearSlot(left(uOk), s) ELSE left(uOk)
        /\ controllerSlots' = [controllerSlots EXCEPT ![s] =
              IF free(uOk, eOk, rOk) THEN NilDisk ELSE d(uOk, eOk, rOk)]
        /\ disksByPath' = IF free(uOk, eOk, rOk) THEN Unindexed(d(uOk, eOk, rOk).path)
                          ELSE disksByPath
        /\ reservations' = IF failed(uOk, eOk, rOk) THEN reservations
                           ELSE [reservations EXCEPT ![id] = NoReservation]
        /\ bus' = IF d(uOk, eOk, rOk).state = "Detached" /\ d0.state # "Detached"
                  THEN [bus EXCEPT ![s] = None] ELSE bus
        /\ guestMounts' = IF LastReference(m0) /\ uOk
                          THEN guestMounts \ {<<s, p>>} ELSE guestMounts
        /\ phase' = [phase EXCEPT ![id] =
                        IF failed(uOk, eOk, rOk) THEN "releasing" ELSE "idle"]
        /\ want' = IF failed(uOk, eOk, rOk) THEN want ELSE [want EXCEPT ![id] = None]
  BY Zenon DEF UnmapFromGuest
<1>ok. uOk \in BOOLEAN /\ eOk \in BOOLEAN /\ rOk \in BOOLEAN
  BY Zenon DEF Outcomes
<1> DEFINE L == left(uOk)
           d1 == d(uOk, eOk, rOk)
<1>3. /\ s \in Slots /\ s \notin DOMAIN Rootfs /\ p \in Partitions /\ <<s, p>> \in Parts
      /\ d0 \in Disk /\ m0 \in Mount /\ d0 = controllerSlots[s] /\ Path(s) \in AllPaths
  <2>1. /\ s \in Slots /\ s \notin DOMAIN Rootfs /\ p \in Partitions
        /\ d0 \in Disk /\ m0 \in Mount /\ d0 = controllerSlots[s]
    BY <1>1, HeldSlot, Zenon DEF Held
  <2>2. SlotShape
    BY Zenon DEF Inv
  <2>. QED
    BY <1>1, <2>1, <2>2, ZenonT(40) DEF SlotShape
<1> HIDE DEF s, p, d0, m0
<1>4. GuestUnmounts(s, p, L)
  <2>1. /\ m(uOk) \in Mount
        /\ m(uOk).state = IF LastReference(m0) /\ uOk THEN "nil" ELSE m0.state
        /\ LastReference(m0) => m0.state = "Mounted"
    BY <1>3, <1>ok, UnmountFromGuestIs, Zenon
  <2> HIDE DEF m
  <2>2. mounts \in [Parts -> Mount]
    BY Zenon DEF Inv, TypeOK, Mount
  <2>3. /\ L \in [Parts -> Mount]
        /\ L[<<s, p>>] = m(uOk)
        /\ \A n \in Parts : n # <<s, p>> => L[n] = mounts[n]
    BY <1>3, <2>1, <2>2, Zenon
  <2> HIDE DEF left
  <2>4. m0 = mounts[<<s, p>>]
    BY Zenon DEF m0
  <2>5. guestMounts' = IF LastReference(m0) /\ uOk
                       THEN guestMounts \ {<<s, p>>} ELSE guestMounts
    BY <1>2, ZenonT(40)
  <2>. QED
    BY <2>1, <2>3, <2>4, <2>5, Zenon DEF GuestUnmounts
<1>5. Detaches(s, d1, L)
  <2> DEFINE D == DetachFromVM(d0, inUse(uOk), eOk, rOk)
  <2> HIDE DEF inUse, left, err
  <2>1. /\ D \in Disk /\ D.path = d0.path
        /\ \/ D.state = d0.state
           \/ D.state \in {"Ejected", "Detached"} /\ d0.state = "Ejected"
           \/ D.state \in {"Ejected", "Detached"} /\ d0.state = "Attached" /\ ~inUse(uOk)
    BY <1>3, Zenon DEF DetachFromVM, Disk, DiskStates
  <2> HIDE DEF D
  <2>2. d1 = d0 \/ d1 = D
    BY Zenon DEF D
  <2>3. ~inUse(uOk) => \A q \in Partitions : L[<<s, q>>].state = "nil"
    BY Zenon DEF inUse
  <2>4. bus' = IF d1.state = "Detached" /\ d0.state # "Detached"
               THEN [bus EXCEPT ![s] = None] ELSE bus
    BY <1>2, Zenon
  <2> HIDE DEF d
  <2>. QED
    BY <1>3, <2>1, <2>2, <2>3, <2>4, Zenon DEF Detaches
<1>6. d1.path = Path(s)
  BY Zenon, <1>5 DEF Detaches
<1> HIDE DEF left, d, err
<1>7. SlotKept(s, d1, L) \/ SlotFreed(s, d1, L)
  <2>1. CASE free(uOk, eOk, rOk)
    BY <1>2, <1>6, <2>1, ZenonT(40) DEF SlotFreed
  <2>2. CASE ~free(uOk, eOk, rOk)
    <3> HIDE DEF free
    <3>. QED
      BY <1>2, <2>2, Zenon DEF SlotKept
  <2>. QED
    BY ZenonT(40), <2>1, <2>2
<1>8. Answers(id)
  <2> HIDE DEF failed
  <2>. QED
    BY Zenon, <1>2 DEF Answers
<1>9. State(s) # "nil"
  BY <1>1, <1>3, Zenon
<1>10. Unmaps(id, s, p, d1, L)
  BY <1>1, <1>3, <1>4, <1>5, <1>7, <1>8, <1>9, Zenon DEF Unmaps
<1>. QED
  BY <1>10, Zenon

(* UnmapFromGuest removes from the bus only a disk without mounts, and frees *)
(* the slot together with its path.                                          *)
LEMMA UnmapsInv ==
    ASSUME Inv, NEW id \in Ids, NEW s, NEW p, NEW d1, NEW L, Unmaps(id, s, p, d1, L)
    PROVE  Inv'
<1>1. /\ ~isMigrating /\ side # "importing" /\ phase[id] # "idle"
      /\ UNCHANGED <<isMigrating, saved, saves, side, patched, crashed>>
  BY Zenon DEF Unmaps
<1>2. s \in Slots /\ s \notin DOMAIN Rootfs /\ p \in Partitions /\ <<s, p>> \in Parts
  BY Zenon DEF Unmaps
<1>3. State(s) # "nil" /\ Path(s) \in AllPaths
  BY Zenon DEF Unmaps
<1>4. /\ GuestUnmounts(s, p, L) /\ Detaches(s, d1, L) /\ Answers(id)
      /\ SlotKept(s, d1, L) \/ SlotFreed(s, d1, L)
  BY Zenon DEF Unmaps
<1>5. /\ L \in [Parts -> Mount]
      /\ \A n \in Parts : L[n].state = "Mounted" => mounts[n].state = "Mounted"
      /\ \A n \in Parts : n # <<s, p>> => L[n] = mounts[n]
  BY <1>4, Zenon DEF GuestUnmounts
<1>6. d1 \in Disk /\ d1.path = Path(s) /\ d1.state # "nil"
  BY <1>3, <1>4, Zenon DEF Detaches
<1>t. /\ controllerSlots \in [Slots -> Disk] /\ bus \in [Slots -> AllPaths \cup {None}]
      /\ disksByPath \in [AllPaths -> Slots \cup {NoSlot}]
      /\ mounts \in [Parts -> Mount] /\ guestMounts \subseteq Parts
  BY ZenonT(40) DEF Inv, TypeOK, Disk, Mount
<1>7. ASSUME d1.state # "Attached", NEW n \in Parts, n[1] = s
      PROVE  L[n].state # "Mounted"
  <2>1. mounts[n].state = "Mounted" => State(s) = "Attached"
    BY <1>7, Zenon DEF Inv, MountedOnAttached
  <2>2. n[2] \in Partitions /\ n = <<s, n[2]>>
    BY <1>7
  <2>. QED
    BY <1>4, <1>5, <1>7, <2>1, <2>2, ZenonT(40) DEF Detaches
<1>8. \A t \in Slots : t # s => controllerSlots'[t] = controllerSlots[t]
  BY Zenon, <1>2, <1>4, <1>t DEF SlotKept, SlotFreed
<1>9. controllerSlots'[s] = NilDisk \/ controllerSlots'[s] = d1
  BY Zenon, <1>2, <1>4, <1>t DEF SlotKept, SlotFreed
<1>10. \A n \in Parts : mounts'[n].state = "Mounted" <=> L[n].state = "Mounted"
  <2>1. CASE SlotFreed(s, d1, L)
    <3>1. d1.state = "Detached" /\ mounts' = ClearSlot(L, s)
      BY <2>1, Zenon DEF SlotFreed
    <3>2. ASSUME NEW n \in Parts
          PROVE  mounts'[n].state = "Mounted" <=> L[n].state = "Mounted"
      BY <1>7, <3>1, Zenon DEF ClearSlot
    <3>. QED
      BY <3>2, Zenon
  <2>2. CASE SlotKept(s, d1, L)
    BY <2>2, Zenon DEF SlotKept
  <2>. QED
    BY <1>4, <2>1, <2>2, Zenon
<1>11. TypeOK'
  <2>1. controllerSlots' \in [Slots -> Disk]
    <3>1. NilDisk \in Disk
      BY Zenon DEF Disk, DiskStates
    <3>. QED
      BY <1>2, <1>4, <1>6, <1>t, <3>1, Zenon DEF SlotKept, SlotFreed
  <2>2. mounts' \in [Parts -> Mount]
    <3>1. NilMount \in Mount
      BY SMTT(30) DEF Mount, MountStates
    <3>. QED
      BY <1>4, <1>5, <3>1, Zenon DEF SlotKept, SlotFreed, ClearSlot
  <2>3. bus' \in [Slots -> AllPaths \cup {None}]
    BY <1>2, <1>4, <1>t, Zenon DEF Detaches
  <2>4. disksByPath' \in [AllPaths -> Slots \cup {NoSlot}]
    BY <1>3, <1>4, <1>t, Zenon DEF SlotKept, SlotFreed, Unindexed
  <2>5. guestMounts' \subseteq Parts
    BY <1>4, <1>t, Zenon DEF GuestUnmounts
  <2>6. /\ phase' \in [Ids -> {"idle", "reserved", "mapped", "releasing"}]
        /\ reservations' \in [Ids -> [slot : Slots, partition : Partitions]
                                       \cup {NoReservation}]
        /\ want' \in [Ids -> Paths \cup {None}]
        /\ \A i \in Ids : phase'[i] = "idle" <=> reservations'[i] = NoReservation
    <3>1. /\ phase \in [Ids -> {"idle", "reserved", "mapped", "releasing"}]
          /\ reservations \in [Ids -> [slot : Slots, partition : Partitions]
                                         \cup {NoReservation}]
          /\ want \in [Ids -> Paths \cup {None}]
          /\ \A i \in Ids : phase[i] = "idle" <=> reservations[i] = NoReservation
      BY Zenon DEF Inv, TypeOK
    <3>. QED
      BY <1>1, <1>4, <3>1, ZenonT(40) DEF Answers
  <2>. QED
    BY <1>1, <2>1, <2>2, <2>3, <2>4, <2>5, <2>6, Zenon DEF Inv, TypeOK, Disk, Mount
<1>12. SlotShape'
  <2>1. SlotShape
    BY Zenon DEF Inv
  <2>. QED
    BY <1>2, <1>3, <1>6, <1>8, <1>9, <2>1, SMTT(30) DEF SlotShape
<1>13. RootfsKept'
  <2>1. RootfsKept /\ reservations \in [Ids -> [slot : Slots, partition : Partitions]
                                               \cup {NoReservation}]
    BY Zenon DEF Inv, TypeOK
  <2>2. \A i \in Ids : reservations'[i].slot \in {reservations[i].slot, NoSlot}
    BY <1>4, <2>1, SMTT(30) DEF Answers
  <2>3. DOMAIN Rootfs \subseteq Slots /\ NoSlot \notin DOMAIN Rootfs
    BY ScsiAssumption
  <2>. QED
    BY <1>2, <1>8, <2>1, <2>2, <2>3, Zenon DEF RootfsKept
<1>14. MountedOnAttached'
  <2> SUFFICES ASSUME NEW n \in Parts, L[n].state = "Mounted"
               PROVE  controllerSlots'[n[1]].state = "Attached"
    BY <1>10, Zenon DEF MountedOnAttached
  <2>1. CASE n[1] = s
    <3>1. d1.state = "Attached"
      BY <1>7, <2>1, Zenon
    <3>2. controllerSlots'[s] = d1
      BY <1>2, <1>4, <1>t, <3>1, Zenon DEF SlotKept, SlotFreed
    <3>. QED
      BY <2>1, <3>1, <3>2, Zenon
  <2>2. CASE n[1] # s
    <3>1. mounts[n].state = "Mounted" /\ controllerSlots'[n[1]] = controllerSlots[n[1]]
      BY <1>5, <1>8, <2>2, Zenon
    <3>. QED
      BY <3>1, Zenon DEF Inv, MountedOnAttached
  <2>. QED
    BY <2>1, <2>2, Zenon
<1>15. IndexSound'
  <2> SUFFICES ASSUME NEW q \in AllPaths, NEW t \in Slots
               PROVE  (disksByPath[q] = t <=> t \in Occupied /\ Path(t) = q)'
    BY Zenon DEF IndexSound
  <2>1. \A r \in AllPaths, u \in Slots :
            disksByPath[r] = u <=> u \in Occupied /\ Path(u) = r
    BY <1>1, ZenonT(40) DEF Inv, IndexSound
  <2>2. CASE SlotFreed(s, d1, L)
    <3>1. /\ controllerSlots'[s] = NilDisk
          /\ disksByPath'[q] = IF q = Path(s) THEN NoSlot ELSE disksByPath[q]
      BY <1>2, <1>t, <2>2, Zenon DEF SlotFreed, Unindexed
    <3>. QED
      BY ScsiAssumption, <1>2, <1>3, <1>8, <2>1, <3>1, SMTT(30)
  <2>3. CASE SlotKept(s, d1, L)
    <3>1. controllerSlots'[s] = d1 /\ disksByPath'[q] = disksByPath[q]
      BY <1>2, <1>t, <2>3, Zenon DEF SlotKept
    <3>. QED
      BY <1>2, <1>3, <1>6, <1>8, <2>1, <3>1, SMTT(30)
  <2>. QED
    BY <1>4, <2>2, <2>3, Zenon
<1>16. BusMatchesSlots'
  <2> SUFFICES ASSUME NEW t \in Slots
               PROVE  bus'[t] = IF controllerSlots'[t].state \in {"Attached", "Ejected"}
                                   \/ t \in DOMAIN Rootfs
                                THEN controllerSlots'[t].path ELSE None
    BY Zenon DEF BusMatchesSlots
  <2>1. bus[t] = IF State(t) \in {"Attached", "Ejected"} \/ t \in DOMAIN Rootfs
                 THEN Path(t) ELSE None
    BY <1>1, Zenon DEF Inv, BusMatchesSlots
  <2>2. bus'[t] = IF t = s /\ d1.state = "Detached" /\ State(s) # "Detached"
                  THEN None ELSE bus[t]
    BY <1>2, <1>4, <1>t, Zenon DEF Detaches
  <2>3. CASE t = s
    <3>1. \/ controllerSlots'[s] = d1
          \/ controllerSlots'[s] = NilDisk /\ d1.state = "Detached"
      BY Zenon, <1>2, <1>4, <1>t DEF SlotKept, SlotFreed
    <3>2. \/ d1.state = State(s)
          \/ d1.state \in {"Ejected", "Detached"} /\ State(s) \in {"Attached", "Ejected"}
      BY <1>4, Zenon DEF Detaches
    <3>. QED
      BY <1>2, <1>6, <2>1, <2>2, <2>3, <3>1, <3>2, SMTT(30)
  <2>4. CASE t # s
    BY <1>8, <2>1, <2>2, <2>4, Zenon
  <2>. QED
    BY <2>3, <2>4, Zenon
<1>17. GuestMountsTracked'
  <2>1. /\ \A n \in guestMounts : mounts[n].state = "Mounted"
        /\ side = "source" => \A n \in Parts : mounts[n].state = "Mounted" => n \in guestMounts
    BY Zenon DEF Inv, GuestMountsTracked
  <2>2. ASSUME NEW n \in guestMounts'
        PROVE  n \in Parts /\ L[n].state = "Mounted"
    BY ZenonT(40), <1>4, <1>t, <2>1 DEF GuestUnmounts
  <2>3. ASSUME side' = "source", NEW n \in Parts, L[n].state = "Mounted"
        PROVE  n \in guestMounts'
    BY <1>1, <1>4, <1>5, <2>1, <2>3, Zenon DEF GuestUnmounts
  <2>. QED
    BY <1>10, <1>14, <2>2, <2>3, Zenon DEF GuestMountsTracked, MountedOnAttached
<1>18. MountsInSlots'
  <2> SUFFICES ASSUME NEW n \in Parts, controllerSlots'[n[1]].state = "nil"
               PROVE  mounts'[n].state = "nil"
    BY Zenon DEF MountsInSlots
  <2>1. CASE n[1] = s
    <3>1. SlotFreed(s, d1, L)
      BY ZenonT(40), <1>2, <1>4, <1>6, <1>t, <2>1 DEF SlotKept
    <3>. QED
      BY <2>1, <3>1, Zenon DEF SlotFreed, ClearSlot
  <2>2. CASE n[1] # s
    <3>1. mounts'[n] = L[n]
      BY <1>4, <2>2, Zenon DEF SlotKept, SlotFreed, ClearSlot
    <3>2. L[n] = mounts[n] /\ State(n[1]) = "nil"
      BY <1>5, <1>8, <2>2, SMTT(30)
    <3>. QED
      BY <3>1, <3>2, Zenon DEF Inv, MountsInSlots
  <2>. QED
    BY <2>1, <2>2, Zenon
<1>19. Importing' /\ FrozenIsSnapshot'
  BY <1>1, Zenon DEF Importing, FrozenIsSnapshot
<1>. QED
  BY <1>11, <1>12, <1>13, <1>14, <1>15, <1>16, <1>17, <1>18, <1>19, Zenon DEF Inv

LEMMA UnmapFromGuestInv ==
    ASSUME Inv, NEW id \in Ids, UnmapFromGuest(id)
    PROVE  Inv'
<1>1. PICK s, p, d1, L : Unmaps(id, s, p, d1, L)
  BY UnmapFromGuestIs, ZenonT(40)
<1>. QED
  BY <1>1, UnmapsInv, Zenon

-----------------------------------------------------------------------------
(* Import rebuilds the slots and the index from the snapshot, which is the   *)
(* state of the source.                                                      *)
LEMMA ImportInv ==
    ASSUME Inv, Import
    PROVE  Inv'
<1> USE DEF scsi, env
<1>1. /\ isMigrating /\ side = "source" /\ side' = "importing" /\ patched' = {}
      /\ saved.reservations = reservations /\ saved.disks = controllerSlots
      /\ saved.mounts = mounts
  <2>1. isMigrating /\ side = "source" /\ side' = "importing" /\ patched' = {}
    BY Zenon DEF Import
  <2>2. saved = Snapshot
    BY <2>1, Zenon DEF Inv, FrozenIsSnapshot
  <2>. QED
    BY <2>1, <2>2, Zenon DEF Snapshot
<1>2. /\ reservations' = reservations
      /\ controllerSlots' = [s \in Slots |->
            IF controllerSlots[s].state = "nil" THEN NilDisk
            ELSE [controllerSlots[s] EXCEPT !.state = "Attached"]]
      /\ mounts' = [m \in Parts |->
            IF mounts[m].state = "nil" THEN NilMount
            ELSE [mounts[m] EXCEPT !.state = "Mounted", !.refCount = @ % RefModulus]]
      /\ bus' = [s \in Slots |-> None]
      /\ UNCHANGED <<isMigrating, saved, saves, crashed, guestMounts, phase, want>>
  BY <1>1, Zenon DEF Import
<1>3. /\ disksByPath' \in [AllPaths -> Slots \cup {NoSlot}]
      /\ \A p \in AllPaths :
            LET at == {s \in Slots : controllerSlots[s].path = p} IN
            IF at = {} THEN disksByPath'[p] = NoSlot ELSE disksByPath'[p] \in at
  BY <1>1, ZenonT(40) DEF Import
<1>4. ASSUME NEW s \in Slots
      PROVE  /\ controllerSlots'[s] \in Disk
             /\ controllerSlots'[s].path = Path(s)
             /\ State(s) = "nil" => controllerSlots'[s] = NilDisk
             /\ State(s) # "nil" => controllerSlots'[s].state = "Attached"
  <2>1. controllerSlots[s] \in Disk /\ (State(s) = "nil" => controllerSlots[s] = NilDisk)
    BY Zenon DEF Inv, TypeOK, Disk, SlotShape
  <2>. QED
    BY <1>2, <2>1, Zenon DEF Disk, DiskStates
<1>5. ASSUME NEW m \in Parts
      PROVE  /\ mounts'[m] \in Mount
             /\ mounts'[m].state = IF mounts[m].state = "nil" THEN "nil" ELSE "Mounted"
  <2>1. mounts[m] \in Mount
    BY Zenon DEF Inv, TypeOK, Mount
  <2>2. mounts[m].refCount % RefModulus \in Int
    BY ScsiAssumption, <2>1, SMTT(30) DEF Mount
  <2>3. CASE mounts[m].state = "nil"
    <3>1. mounts'[m] = NilMount
      BY <1>2, <2>3, Zenon
    <3>. QED
      BY <2>3, <3>1, SMTT(30) DEF Mount, MountStates
  <2>4. CASE mounts[m].state # "nil"
    <3>1. mounts'[m] = [mounts[m] EXCEPT !.state = "Mounted",
                                        !.refCount = mounts[m].refCount % RefModulus]
      BY <1>2, <2>4, Zenon
    <3>. QED
      BY <2>1, <2>2, <2>4, <3>1, Zenon DEF Mount, MountStates
  <2>. QED
    BY <2>3, <2>4, Zenon
<1>6. TypeOK'
  <2>1. controllerSlots' \in [Slots -> Disk] /\ mounts' \in [Parts -> Mount]
    BY <1>2, <1>4, <1>5, ZenonT(40)
  <2>. QED
    BY <1>1, <1>2, <1>3, <2>1, Zenon DEF Inv, TypeOK, Disk, Mount
<1>7. SlotShape'
  BY <1>4, Zenon DEF Inv, SlotShape
<1>8. RootfsKept'
  BY Zenon, ScsiAssumption, <1>2, <1>4 DEF Inv, RootfsKept
<1>9. MountedOnAttached' /\ MountsInSlots'
  BY <1>4, <1>5, ZenonT(40) DEF Inv, MountedOnAttached, MountsInSlots
<1>10. Importing'
  <2>1. \A p \in AllPaths, s, t \in Slots : Path(s) = p /\ Path(t) = p => s = t
    BY ScsiAssumption, <1>1, SMTT(30) DEF Inv, IndexSound, SlotShape
  <2>2. \A s \in Occupied' : s \in Slots /\ State(s) # "nil" /\ Path(s) \in AllPaths
    BY <1>4, Zenon DEF Inv, SlotShape
  <2>3. \A p \in AllPaths, s \in Slots : disksByPath'[p] = s <=> Path(s) = p
    BY <1>3, <2>1, SMTT(30)
  <2>4. \A s \in Slots : Path(s) \in AllPaths => s \in Occupied'
    BY ScsiAssumption, <1>4 DEF Inv, SlotShape
  <2>5. \A s \in Occupied' : controllerSlots'[s].state = "Attached"
    BY <1>4, <2>2, Zenon
  <2>6. \A s \in Slots : bus'[s] = None
    BY <1>2, Zenon
  <2>7. \A s \in Occupied' : disksByPath'[controllerSlots'[s].path] = s
    BY <1>4, <2>2, <2>3, SMTT(30)
  <2>8. \A path \in AllPaths, s \in Slots :
            disksByPath'[path] = s => s \in Occupied' /\ controllerSlots'[s].path = path
    BY <1>4, <2>3, <2>4
  <2>9. isMigrating'
    BY <1>1, <1>2, Zenon
  <2>. QED
    BY <1>1, <2>5, <2>6, <2>7, <2>8, <2>9, Zenon DEF Importing
<1>11. GuestMountsTracked'
  <2>1. ASSUME NEW m \in guestMounts
        PROVE  m \in Parts /\ mounts[m].state = "Mounted" /\ State(m[1]) = "Attached"
    BY Zenon DEF Inv, TypeOK, GuestMountsTracked
  <2>2. ASSUME NEW m \in guestMounts
        PROVE  mounts'[m].state = "Mounted" /\ controllerSlots'[m[1]].state = "Attached"
    BY <1>4, <1>5, <2>1, Zenon
  <2>. QED
    BY <1>1, <1>2, <2>2, ZenonT(40) DEF GuestMountsTracked
<1>. QED
  BY <1>1, <1>6, <1>7, <1>8, <1>9, <1>10, <1>11, Zenon
     DEF Inv, IndexSound, BusMatchesSlots, FrozenIsSnapshot

-----------------------------------------------------------------------------
(* Patching moves one disk to its destination path and leaves the paths of   *)
(* the disks patched before it alone.                                        *)
LEMMA UpdateDiskHostPathInv ==
    ASSUME Inv, NEW id \in Ids, NEW new \in Paths, UpdateDiskHostPath(id, new)
    PROVE  Inv'
<1> USE DEF scsi, env
<1> DEFINE s == reservations[id].slot
           old == controllerSlots[s].path
<1>1. /\ side = "importing" /\ s # NoSlot /\ State(s) # "nil" /\ s \notin patched
      /\ \A t \in patched : Path(t) # new
      /\ controllerSlots' = [controllerSlots EXCEPT ![s].path = new]
      /\ disksByPath' = Repointed(s, old, new)
      /\ patched' = patched \cup {s}
      /\ want' = [i \in Ids |-> IF reservations[i].slot = s THEN new ELSE want[i]]
      /\ UNCHANGED <<reservations, mounts, isMigrating, saved, saves, side, crashed,
                     bus, guestMounts, phase>>
  BY Zenon DEF UpdateDiskHostPath
<1>2. /\ s \in Slots /\ s \notin DOMAIN Rootfs /\ new \in AllPaths /\ old \in AllPaths
      /\ controllerSlots[s] \in Disk
  <2>1. reservations[id] \in [slot : Slots, partition : Partitions] \cup {NoReservation}
    BY Zenon DEF Inv, TypeOK
  <2>2. s \in Slots
    BY <1>1, <2>1
  <2>. QED
    BY <1>1, <2>2, Zenon DEF Inv, TypeOK, RootfsKept, SlotShape, AllPaths, Disk
<1>3. /\ controllerSlots'[s] \in Disk /\ controllerSlots'[s].path = new
      /\ controllerSlots'[s].state = State(s)
      /\ \A t \in Slots : t # s => controllerSlots'[t] = controllerSlots[t]
  BY <1>1, <1>2, ZenonT(40) DEF Inv, TypeOK, Disk
<1>4. \A t \in Slots : controllerSlots'[t].state = State(t)
  BY <1>3, Zenon
<1>5. \A q \in AllPaths : disksByPath'[q] =
          IF old = new THEN disksByPath[q] ELSE IF q = new THEN s
          ELSE IF q = old /\ disksByPath[old] = s THEN NoSlot ELSE disksByPath[q]
  BY Zenon, <1>1 DEF Repointed
<1>6. TypeOK'
  <2>1. controllerSlots' \in [Slots -> Disk]
    BY <1>1, <1>2, <1>3, Zenon DEF Inv, TypeOK, Disk
  <2>2. disksByPath' \in [AllPaths -> Slots \cup {NoSlot}]
    BY <1>1, <1>2, Zenon DEF Inv, TypeOK, Repointed
  <2>3. want' \in [Ids -> Paths \cup {None}]
    BY <1>1, Zenon DEF Inv, TypeOK
  <2>4. patched' \subseteq Slots
    BY <1>1, <1>2, Zenon DEF Inv, TypeOK
  <2>. QED
    BY <1>1, <2>1, <2>2, <2>3, <2>4, Zenon DEF Inv, TypeOK, Disk
<1>7. SlotShape'
  BY <1>1, <1>2, <1>3, Zenon DEF Inv, SlotShape
<1>8. RootfsKept'
  BY <1>1, <1>2, <1>3, SMTT(30) DEF Inv, RootfsKept
<1>9. MountedOnAttached' /\ MountsInSlots'
  BY <1>1, <1>4, SMTT(30) DEF Inv, MountedOnAttached, MountsInSlots
<1>10. Importing'
  <2>1. /\ Importing /\ SlotShape /\ patched \subseteq Slots
        /\ disksByPath \in [AllPaths -> Slots \cup {NoSlot}]
    BY Zenon DEF Inv, TypeOK
  <2>2. /\ \A t \in Occupied : t \in Slots /\ State(t) = "Attached" /\ Path(t) \in AllPaths
        /\ isMigrating
        /\ \A t \in Slots : bus[t] = None
        /\ \A t \in patched : t \in Occupied /\ disksByPath[Path(t)] = t
        /\ \A t \in Occupied \ patched :
              disksByPath[Path(t)] = t \/ \E u \in patched : Path(u) = Path(t)
        /\ \A path \in AllPaths, t \in Slots :
              disksByPath[path] = t => t \in Occupied /\ Path(t) = path
    BY <1>1, <2>1, Zenon DEF Importing, SlotShape
  <2>3. \A t \in patched' : t \in Slots /\ controllerSlots'[t].state = "Attached"
    BY <1>1, <1>2, <1>3, <2>2, SMTT(30)
  <2>4. ASSUME NEW t \in patched'
        PROVE  disksByPath'[controllerSlots'[t].path] = t
    <3>1. CASE t = s
      <4>1. CASE old # new
        BY <3>1, <4>1, <1>2, <1>3, <1>5, Zenon
      <4>2. CASE old = new
        BY <3>1, <4>2, <1>1, <1>2, <1>3, <1>5, <2>2, SMTT(30)
      <4>. QED
        BY <4>1, <4>2, Zenon
    <3>2. CASE t # s
      <4>1. t \in patched /\ Path(t) \in AllPaths /\ disksByPath[Path(t)] = t /\ Path(t) # new
        BY <3>2, <1>1, <2>2, Zenon
      <4>. QED
        BY <3>2, <4>1, <1>3, <1>5, <2>2, SMTT(30)
    <3>. QED
      BY <3>1, <3>2, Zenon
  <2>5. ASSUME NEW t \in Slots, State(t) # "nil", t \notin patched'
        PROVE  \/ disksByPath'[controllerSlots'[t].path] = t
               \/ \E u \in patched' : controllerSlots'[u].path = controllerSlots'[t].path
    <3>1. t # s /\ t \in Occupied \ patched /\ Path(t) \in AllPaths
          /\ controllerSlots'[t] = controllerSlots[t]
      BY <2>5, <1>1, <1>3, <2>2, Zenon
    <3>2. CASE \E u \in patched : Path(u) = Path(t)
      <4>1. PICK u \in patched : Path(u) = Path(t)
        BY <3>2, Zenon
      <4>2. u \in patched' /\ u # s /\ controllerSlots'[u] = controllerSlots[u]
        BY <1>1, <1>3, <2>2, <4>1, Zenon
      <4>. QED
        BY <3>1, <4>1, <4>2, Zenon
    <3>3. CASE disksByPath[Path(t)] = t
      <4>1. CASE Path(t) = new
        <5>1. s \in patched' /\ controllerSlots'[s].path = controllerSlots'[t].path
          BY <1>1, <1>3, <3>1, <4>1, Zenon
        <5>. QED
          BY <5>1, Zenon
      <4>2. CASE Path(t) # new
        BY <3>1, <3>3, <4>2, <1>5, Zenon
      <4>. QED
        BY <4>1, <4>2, Zenon
    <3>. QED
      BY <2>2, <3>1, <3>2, <3>3, Zenon
  <2>6. ASSUME NEW path \in AllPaths, NEW t \in Slots, disksByPath'[path] = t
        PROVE  controllerSlots'[t].state # "nil" /\ controllerSlots'[t].path = path
    <3>1. CASE old = new
      BY <2>6, <3>1, <1>3, <1>4, <1>5, <2>2, SMTT(30)
    <3>2. CASE old # new /\ path = new
      BY <2>6, <3>2, <1>1, <1>3, <1>5, Zenon
    <3>3. CASE old # new /\ path # new
      <4>1. disksByPath[path] = t /\ ~(path = old /\ disksByPath[old] = s)
        BY <2>6, <3>3, <1>5
      <4>2. State(t) # "nil" /\ Path(t) = path
        BY <4>1, <2>2, Zenon
      <4>3. t # s
        BY <4>1, <4>2, Zenon
      <4>. QED
        BY <1>3, <4>2, <4>3, SMTT(30)
    <3>. QED
      BY <3>1, <3>2, <3>3, Zenon
  <2>7. /\ \A t \in Occupied' : t \in Slots /\ State(t) # "nil"
                              /\ controllerSlots'[t].state = "Attached"
        /\ \A t \in Slots : bus'[t] = None
        /\ isMigrating'
    BY <1>1, <1>4, <2>2, SMTT(30)
  <2>8. \A t \in patched' : t \in Occupied'
    BY <2>3, Zenon
  <2>. QED
    BY <2>4, <2>5, <2>6, <2>7, <2>8, ZenonT(40) DEF Importing
<1>11. GuestMountsTracked'
  <2>1. ASSUME NEW m \in guestMounts
        PROVE  m \in Parts /\ mounts[m].state = "Mounted" /\ State(m[1]) = "Attached"
    BY ZenonT(40) DEF Inv, TypeOK, GuestMountsTracked
  <2>. QED
    BY <1>1, <1>4, <2>1, Zenon DEF GuestMountsTracked
<1>. QED
  BY <1>1, <1>6, <1>7, <1>8, <1>9, <1>10, <1>11, Zenon
     DEF Inv, IndexSound, BusMatchesSlots, FrozenIsSnapshot

-----------------------------------------------------------------------------
(* Once the paths are distinct again the index is sound, and the VM that is  *)
(* created has exactly the disks of the slots.                               *)
LEMMA CreateDestinationVMInv ==
    ASSUME Inv, CreateDestinationVM
    PROVE  Inv'
<1> USE DEF scsi, env
<1>1. /\ side = "importing" /\ side' = "destination"
      /\ \A s, t \in Occupied : Path(s) = Path(t) => s = t
      /\ bus' = [s \in Slots |-> Path(s)]
      /\ UNCHANGED <<reservations, disksByPath, controllerSlots, mounts, isMigrating, saved,
                     saves, patched, crashed, guestMounts, phase, want>>
  BY Zenon DEF CreateDestinationVM
<1>2. /\ TypeOK /\ SlotShape /\ RootfsKept /\ MountedOnAttached /\ MountsInSlots
      /\ Importing /\ GuestMountsTracked
  BY Zenon DEF Inv
<1>3. TypeOK'
  <2>1. bus' \in [Slots -> AllPaths \cup {None}]
    BY <1>1, <1>2, ZenonT(40) DEF TypeOK
  <2>. QED
    BY <1>1, <1>2, <2>1, ZenonT(40) DEF TypeOK
<1>4. SlotShape' /\ RootfsKept' /\ MountedOnAttached' /\ MountsInSlots'
  BY <1>1, <1>2, Zenon DEF SlotShape, RootfsKept, MountedOnAttached, MountsInSlots
<1>5. \A s \in Occupied : disksByPath[Path(s)] = s /\ State(s) = "Attached"
  BY <1>1, <1>2, SMTT(30) DEF Importing
<1>6. IndexSound'
  <2>1. \A path \in AllPaths, s \in Slots :
            disksByPath[path] = s <=> s \in Occupied /\ Path(s) = path
    BY <1>1, <1>2, <1>5, Zenon DEF Importing
  <2>. QED
    BY <1>1, <2>1, ZenonT(40) DEF IndexSound
<1>7. BusMatchesSlots'
  BY <1>1, <1>2, <1>5, SMTT(30) DEF SlotShape, BusMatchesSlots
<1>8. GuestMountsTracked'
  BY <1>1, <1>2, Zenon DEF GuestMountsTracked
<1>. QED
  BY <1>1, <1>3, <1>4, <1>6, <1>7, <1>8, ZenonT(40) DEF Inv, Importing, FrozenIsSnapshot

-----------------------------------------------------------------------------
(* Every step of the controller and of its callers keeps the invariant.      *)
LEMMA NextInv == Inv /\ [Next]_vars => Inv'
<1> SUFFICES ASSUME Inv, [Next]_vars PROVE Inv'
    BY Zenon
<1>1. ASSUME NEW id \in Ids, Reserve(id) PROVE Inv'
  <2>1. PICK path \in Paths, cfg \in DiskConfigs, p \in Partitions, mcfg \in MountConfigs :
            ReserveExisting(id, path, cfg, p, mcfg) \/ ReserveNew(id, path, cfg, p, mcfg)
    BY <1>1, Zenon DEF Reserve
  <2>. QED
    BY <2>1, ReserveExistingInv, ReserveNewInv, Zenon
<1>2. CASE UNCHANGED vars
  <2>1. UNCHANGED <<scsi, env, side, patched>> /\ (side = "importing" => isMigrating')
    BY <1>2, Zenon DEF vars, Inv, Importing
  <2>2. TypeOK'
    BY <1>2, Zenon DEF vars, scsi, env, Inv, TypeOK
  <2>3. FrozenIsSnapshot'
    BY <1>2, Zenon DEF vars, scsi, Inv, FrozenIsSnapshot, Snapshot
  <2>. QED
    BY <2>1, <2>2, <2>3, SameBooks, Zenon DEF Inv
<1>. QED
  BY <1>1, <1>2, MapRefusedInv, MapToGuestInv, UnmapFromGuestInv, NilDereferenceInv,
     UpdateDiskHostPathInv, SaveInv, ImportInv, CreateDestinationVMInv, ResumeInv, Zenon
     DEF Next

LEMMA SpecInv == Spec => []Inv
<1>. QED
  BY InitInv, NextInv, PTL DEF Spec

(* The state stays well formed, and a caller holds a reservation exactly     *)
(* from a successful Reserve to a successful UnmapFromGuest.                 *)
THEOREM TypeCorrect == Spec => []TypeOK
<1>1. Inv => TypeOK
  BY Zenon DEF Inv
<1>. QED
  BY SpecInv, <1>1, PTL

(* disksByPath indexes exactly the disks of the slots, under the paths they  *)
(* have, except while a destination is still being patched.                  *)
THEOREM IndexAlwaysSound == Spec => []IndexSound
<1>1. Inv => IndexSound
  BY Zenon DEF Inv
<1>. QED
  BY SpecInv, <1>1, PTL

(* The VM's bus holds exactly the disks the slots say are attached.          *)
THEOREM BusAlwaysMatches == Spec => []BusMatchesSlots
<1>1. Inv => BusMatchesSlots
  BY Zenon DEF Inv
<1>. QED
  BY SpecInv, <1>1, PTL

(* No disk image is attached to the VM at two addresses.                     *)
THEOREM ImageAttachedOnce == Spec => []NoImageTwice
<1>1. Inv => NoImageTwice
  <2> SUFFICES ASSUME Inv, NEW s \in Slots, NEW t \in Slots, bus[s] = bus[t], bus[s] # None
               PROVE  s = t
    BY Zenon DEF NoImageTwice
  <2>1. side # "importing"
    BY Zenon DEF Inv, Importing
  <2>2. \A u \in Slots : bus[u] # None => bus[u] = Path(u)
    BY <2>1, Zenon DEF Inv, BusMatchesSlots
  <2>3. /\ Path(s) = bus[s] /\ Path(t) = bus[s]
        /\ Path(s) # None /\ Path(t) # None
    BY <2>2, Zenon
  <2>4. /\ State(s) # "nil" /\ Path(s) \in AllPaths
        /\ State(t) # "nil" /\ Path(t) \in AllPaths
    BY <2>3 DEF Inv, SlotShape
  <2>. QED
    BY <2>1, <2>3, <2>4 DEF Inv, IndexSound
<1>. QED
  BY SpecInv, <1>1, PTL

(* What is mounted in the guest is on an attached disk and in the books.     *)
THEOREM GuestMountsAlwaysTracked == Spec => []GuestMountsTracked
<1>1. Inv => GuestMountsTracked
  BY Zenon DEF Inv
<1>. QED
  BY SpecInv, <1>1, PTL

(* A frozen source cannot diverge from the snapshot it exported.             *)
THEOREM FrozenStaysSnapshot == Spec => []FrozenIsSnapshot
<1>1. Inv => FrozenIsSnapshot
  BY Zenon DEF Inv
<1>. QED
  BY SpecInv, <1>1, PTL

-----------------------------------------------------------------------------
(* What the callers are given and what is reclaimed.                         *)

\* The callers whose reservation is on a partition of a slot.
Holders(s, p) == {id \in Ids : reservations[id] = [slot |-> s, partition |-> p]}

\* The record the controller has of a partition.
MountAt(s, p) == mounts[<<s, p>>]

\* Nothing was released, across a freeze, without having been mapped.
NeverThawed == saves = 0 \/ (side = "source" /\ isMigrating)

\* A mount counts its holders, has some while it is mounted or was unmounted,
\* and is in the guest and mounted for each caller that was told so.  A
\* Reserved mount may have lost its last holder, but only across a freeze:
\* MapRefused leaves a caller that releases what it never mapped.
Counted(s, p) ==
    /\ MountAt(s, p).state \in {"Reserved", "Mounted"} =>
          MountAt(s, p).refCount = Cardinality(Holders(s, p))
    /\ MountAt(s, p).state \in {"Mounted", "Unmounted"} => Holders(s, p) # {}
    /\ MountAt(s, p).state = "nil" /\ State(s) # "Ejected" => Holders(s, p) = {}
    /\ MountAt(s, p).state = "Mounted" => <<s, p>> \in guestMounts
    /\ \A id \in Holders(s, p) : phase[id] = "mapped" => MountAt(s, p).state = "Mounted"
    /\ NeverThawed /\ MountAt(s, p).state = "Reserved" => Holders(s, p) # {}
    /\ saves = 0 => \A id \in Holders(s, p) :
                       phase[id] = "releasing" => MountAt(s, p).state # "Reserved"

\* Only a caller that could not remove a disk keeps it Ejected, and it is
\* alone on the slot; any other disk has a mount somebody reserved.
InUse(s) ==
    /\ State(s) # "Detached"
    /\ State(s) = "Ejected" =>
          /\ \A p \in Partitions : MountAt(s, p).state = "nil"
          /\ \E id \in Ids : /\ phase[id] = "releasing"
                             /\ \A i \in Ids : reservations[i].slot = s <=> i = id
    /\ s \notin DOMAIN Rootfs /\ State(s) = "Reserved" =>
          \E p \in Partitions : MountAt(s, p).state = "Reserved"
    /\ s \notin DOMAIN Rootfs /\ State(s) = "Attached" =>
          \E p \in Partitions : MountAt(s, p).state # "nil"

\* A caller that has not released is on a slot with the disk it asked for.
Entitled(id) ==
    phase[id] # "idle" => /\ State(reservations[id].slot) # "nil"
                          /\ Path(reservations[id].slot) = want[id]

\* The inductive invariant of what the callers are given.  It needs all of
\* Inv, which agrees the path index and the slots.
CountInv ==
    /\ Inv
    /\ \A s \in Slots, p \in Partitions : Counted(s, p)
    /\ \A s \in Slots : InUse(s)
    /\ \A id \in Ids : Entitled(id)
    /\ saves \in 0 .. MaxSaves
    /\ isMigrating \/ side # "source" => saves # 0

\* What the callers' part needs.  Of two holders of a disk that never attached, or
\* whose eject failed, the first to release may leave the other an empty slot, so
\* neither call fails.  A second migration may import a mount whose last holder
\* is gone, see Counted.  The counts fit their width.
FewFaults ==
    /\ IsFiniteSet(Ids) /\ Cardinality(Ids) < RefModulus
    /\ {"add", "eject"} \cap Faults = {}
    /\ MaxSaves <= 1

\* Callers are served and slots reclaimed wherever CountInv holds.
LEMMA CountServes == CountInv => MappedIsLive /\ RefCountsMatch /\ SlotsReclaimed
<1> SUFFICES ASSUME CountInv PROVE MappedIsLive /\ RefCountsMatch /\ SlotsReclaimed
    BY Zenon
<1>1. MappedIsLive
  <2> SUFFICES ASSUME NEW id \in Ids, phase[id] = "mapped"
               PROVE  LET s == reservations[id].slot
                          p == reservations[id].partition
                      IN /\ controllerSlots[s].state = "Attached"
                         /\ controllerSlots[s].path = want[id]
                         /\ mounts[<<s, p>>].state = "Mounted"
                         /\ <<s, p>> \in guestMounts
    BY Zenon DEF MappedIsLive
  <2> DEFINE s == reservations[id].slot
             p == reservations[id].partition
  <2>1. s \in Slots /\ p \in Partitions /\ reservations[id] = [slot |-> s, partition |-> p]
    BY Zenon DEF CountInv, Inv, TypeOK
  <2>2. id \in Holders(s, p)
    BY <2>1, Zenon DEF Holders
  <2>3. mounts[<<s, p>>].state = "Mounted" /\ <<s, p>> \in guestMounts
    BY <2>1, <2>2, ZenonT(40) DEF CountInv, Counted, MountAt
  <2>4. State(s) = "Attached"
    BY <2>3, Zenon DEF State, CountInv, Inv, GuestMountsTracked
  <2> QED  BY <2>3, <2>4, Zenon DEF CountInv, Entitled, State, Path
<1>2. RefCountsMatch
  <2> SUFFICES ASSUME NEW s \in Slots, NEW p \in Partitions,
                      mounts[<<s, p>>].state \in {"Reserved", "Mounted"}
               PROVE  mounts[<<s, p>>].refCount = Cardinality({id \in Ids :
                         reservations[id] = [slot |-> s, partition |-> p]})
    BY DEF RefCountsMatch
  <2> QED  BY Zenon DEF CountInv, Counted, MountAt, Holders
<1>3. SlotsReclaimed
  <2> SUFFICES ASSUME NEW s \in Occupied \ DOMAIN Rootfs,
                      ~ \E p \in Partitions : mounts[<<s, p>>].state = "Reserved"
               PROVE  \E id \in Ids : reservations[id].slot = s
    BY Zenon DEF SlotsReclaimed
  <2>1. s \in Slots /\ State(s) # "nil" /\ InUse(s) /\ State(s) \in DiskStates
    BY Zenon DEF CountInv, Occupied, State, Inv, TypeOK
  <2>2. CASE State(s) = "Ejected"
    BY <2>1, <2>2, Zenon DEF InUse
  <2>3. CASE State(s) = "Attached"
    <3>1. PICK p \in Partitions : MountAt(s, p).state # "nil"
      BY <2>1, <2>3, Zenon DEF InUse
    <3>2. MountAt(s, p).state \in MountStates
      BY <2>1, Zenon DEF CountInv, Inv, TypeOK, MountAt
    <3>3. Holders(s, p) # {}
      BY <2>1, <3>1, <3>2, Zenon DEF CountInv, Counted, MountStates, MountAt
    <3> QED  BY <3>3 DEF Holders
  <2> QED  BY <2>1, <2>2, <2>3, Zenon DEF InUse, MountAt, DiskStates
<1> QED  BY <1>1, <1>2, <1>3, Zenon

-----------------------------------------------------------------------------

\* The holders of a partition can be counted, within the width of the count.
LEMMA HoldersFinite ==
  ASSUME FewFaults, NEW s, NEW p
  PROVE  /\ IsFiniteSet(Holders(s, p)) /\ Cardinality(Holders(s, p)) \in Nat
         /\ Cardinality(Holders(s, p)) < RefModulus
         /\ Holders(s, p) = {} <=> Cardinality(Holders(s, p)) = 0
<1>1. IsFiniteSet(Ids) /\ Holders(s, p) \subseteq Ids
  BY Zenon DEF FewFaults, Holders
<1>2. IsFiniteSet(Holders(s, p)) /\ Cardinality(Holders(s, p)) <= Cardinality(Ids)
  BY <1>1, FS_Subset, Zenon
<1>3. Cardinality(Holders(s, p)) \in Nat /\ Cardinality(Ids) \in Nat
  BY <1>1, <1>2, FS_CardinalityType, Zenon
<1>4. Holders(s, p) = {} <=> Cardinality(Holders(s, p)) = 0
  BY <1>2, FS_EmptySet, Zenon
<1>5. RefModulus \in Nat /\ Cardinality(Ids) < RefModulus
  BY ScsiAssumption, Zenon DEF FewFaults
<1> QED  BY <1>2, <1>3, <1>4, <1>5, SMTT(30)

\* A caller that has not released is among the holders of its partition.
LEMMA Holding ==
  ASSUME Inv, NEW id \in Ids, phase[id] # "idle"
  PROVE  /\ reservations[id].slot \in Slots /\ reservations[id].partition \in Partitions
         /\ reservations[id].slot \notin DOMAIN Rootfs
         /\ id \in Holders(reservations[id].slot, reservations[id].partition)
         /\ \A t, q : id \in Holders(t, q) =>
                         t = reservations[id].slot /\ q = reservations[id].partition
<1>1. reservations[id] \in [slot : Slots, partition : Partitions]
  BY Zenon DEF Inv, TypeOK
<1>2. PICK s \in Slots, p \in Partitions : reservations[id] = [slot |-> s, partition |-> p]
  BY <1>1, Zenon
<1>3. reservations[id].slot \notin DOMAIN Rootfs
  BY Zenon DEF Inv, RootfsKept
<1>4. \A t, q : id \in Holders(t, q) => t = s /\ q = p
  BY <1>2 DEF Holders
<1>5. id \in Holders(s, p)
  BY <1>2, Zenon DEF Holders
<1>6. reservations[id].slot = s /\ reservations[id].partition = p
  BY <1>2
<1> QED  BY <1>3, <1>4, <1>5, <1>6, Zenon

\* A mount that a step does not touch stays counted, and so does a slot.
LEMMA CountedSame ==
  ASSUME NEW s, NEW p, Counted(s, p), MountAt(s, p)' = MountAt(s, p),
         Holders(s, p)' = Holders(s, p), \A id \in Holders(s, p) : phase'[id] = phase[id],
         <<s, p>> \in guestMounts => <<s, p>> \in guestMounts',
         State(s) = "Ejected" => State(s)' = "Ejected",
         saves' = 0 => saves = 0, NeverThawed' => NeverThawed
  PROVE  Counted(s, p)'
<1>1. PICK H, m : H = Holders(s, p) /\ m = MountAt(s, p)
  BY Zenon
<1>2. Holders(s, p)' = H /\ MountAt(s, p)' = m
  BY <1>1, Zenon
<1> QED  BY <1>1, <1>2, Zenon DEF Counted

\* A slot stays in use while its disk, its mounts and its holders stay.
LEMMA InUseSame ==
  ASSUME NEW s, InUse(s), State(s)' = State(s),
         \A p \in Partitions : MountAt(s, p).state' = MountAt(s, p).state,
         \A i \in Ids : reservations'[i].slot = s <=> reservations[i].slot = s,
         \A i \in Ids : phase[i] = "releasing" /\ reservations[i].slot = s =>
           phase'[i] = "releasing"
  PROVE  InUse(s)'
BY Zenon DEF InUse

-----------------------------------------------------------------------------

\* A controller that has just been made serves and holds nothing.
LEMMA CountInit == Init => CountInv
<1> SUFFICES ASSUME Init PROVE CountInv
    BY Zenon
<1>1. Inv
  BY InitInv, Zenon
<1>2. ASSUME NEW s \in Slots, NEW p PROVE Holders(s, p) = {}
  BY DEF Init, NoReservation, NoSlot, Slots, Holders
<1>3. ASSUME NEW s \in Slots, NEW p \in Partitions PROVE MountAt(s, p).state = "nil"
  BY Zenon DEF Init, MountAt, NilMount
<1>4. ASSUME NEW s \in Slots
      PROVE  State(s) = IF s \in DOMAIN Rootfs THEN "Reserved" ELSE "nil"
  BY Zenon DEF Init, State, NewDisk, NilDisk
<1>5. \A s \in Slots, p \in Partitions : Counted(s, p)
  BY <1>2, <1>3, Zenon DEF Counted
<1>6. \A s \in Slots : InUse(s)
  BY <1>4, Zenon DEF InUse
<1>7. \A id \in Ids : Entitled(id)
  BY Zenon DEF Init, Entitled
<1>8. saves = 0 /\ ~isMigrating /\ side = "source" /\ MaxSaves \in Nat
  BY ScsiAssumption, Zenon DEF Init
<1>9. saves \in 0 .. MaxSaves
  BY <1>8
<1> QED  BY <1>1, <1>5, <1>6, <1>7, <1>8, <1>9, Zenon DEF CountInv

-----------------------------------------------------------------------------
\* The holders of a partition once a caller has been granted it, and once it has
\* released it.
LEMMA HoldersGranted ==
  ASSUME Inv, FewFaults, NEW id \in Ids, phase[id] = "idle", NEW s \in Slots, NEW p \in Partitions,
         reservations' = [reservations EXCEPT ![id] = [slot |-> s, partition |-> p]]
  PROVE  /\ Holders(s, p)' = Holders(s, p) \cup {id}
         /\ Cardinality(Holders(s, p)') = Cardinality(Holders(s, p)) + 1
         /\ \A t \in Slots, q \in Partitions : t # s \/ q # p => Holders(t, q)' = Holders(t, q)
         /\ \A i \in Ids : i # id => reservations'[i] = reservations[i]
         /\ reservations[id].slot = NoSlot /\ reservations'[id].slot = s
         /\ \A t \in Slots, q \in Partitions : id \notin Holders(t, q)
<1>1. reservations[id] = NoReservation
  BY Zenon DEF Inv, TypeOK
<1>2. /\ \A i \in Ids : i # id => reservations'[i] = reservations[i]
      /\ reservations'[id] = [slot |-> s, partition |-> p]
  BY Zenon DEF Inv, TypeOK
<1>3. \A t \in Slots : t # NoSlot
  BY DEF Slots, NoSlot
<1>4. \A t \in Slots, q \in Partitions : id \notin Holders(t, q)
  BY <1>1, <1>3 DEF Holders, NoReservation
<1>5. Holders(s, p)' = Holders(s, p) \cup {id}
  BY <1>2, Zenon DEF Holders
<1>6. \A t \in Slots, q \in Partitions : t # s \/ q # p => Holders(t, q)' = Holders(t, q)
  <2> SUFFICES ASSUME NEW t \in Slots, NEW q \in Partitions, t # s \/ q # p
               PROVE  Holders(t, q)' = Holders(t, q)
    BY Zenon
  <2>1. [slot |-> t, partition |-> q] # [slot |-> s, partition |-> p]
    BY Zenon
  <2> QED  BY <1>2, <1>4, <2>1, Zenon DEF Holders
<1>7. Cardinality(Holders(s, p) \cup {id}) = Cardinality(Holders(s, p)) + 1
  BY <1>4, HoldersFinite, FS_AddElement, Zenon
<1>8. reservations[id].slot = NoSlot /\ reservations'[id].slot = s
  BY <1>1, <1>2 DEF NoReservation
<1> QED  BY <1>2, <1>4, <1>5, <1>6, <1>7, <1>8, Zenon

\* A caller that gives its reservation back is a holder of nothing.
LEMMA HoldersReleased ==
  ASSUME Inv, FewFaults, NEW id \in Ids, NEW s \in Slots, NEW p \in Partitions,
           id \in Holders(s, p),
         reservations' = [reservations EXCEPT ![id] = NoReservation]
  PROVE  /\ Holders(s, p)' = Holders(s, p) \ {id}
         /\ Cardinality(Holders(s, p)') = Cardinality(Holders(s, p)) - 1
         /\ IsFiniteSet(Holders(s, p)')
         /\ \A t \in Slots, q \in Partitions : t # s \/ q # p => Holders(t, q)' = Holders(t, q)
         /\ \A i \in Ids : i # id => reservations'[i] = reservations[i]
         /\ reservations'[id].slot = NoSlot
<1>1. \A t, q : id \in Holders(t, q) => t = s /\ q = p
  BY DEF Holders
<1>2. /\ \A i \in Ids : i # id => reservations'[i] = reservations[i]
      /\ reservations'[id] = NoReservation
  BY Zenon DEF Inv, TypeOK
<1>3. \A t \in Slots : \A q : [slot |-> t, partition |-> q] # NoReservation
  BY DEF Slots, NoSlot, NoReservation
<1>4. \A t \in Slots, q \in Partitions : Holders(t, q)' = Holders(t, q) \ {id}
  <2> SUFFICES ASSUME NEW t \in Slots, NEW q \in Partitions
               PROVE  Holders(t, q)' = Holders(t, q) \ {id}
    BY Zenon
  <2>1. \A i \in Ids : reservations'[i] = [slot |-> t, partition |-> q]
                         <=> reservations[i] = [slot |-> t, partition |-> q] /\ i # id
    BY <1>2, <1>3, Zenon
  <2> QED  BY <2>1, Zenon DEF Holders
<1>5. /\ Cardinality(Holders(s, p) \ {id}) = Cardinality(Holders(s, p)) - 1
      /\ IsFiniteSet(Holders(s, p) \ {id})
  BY HoldersFinite, FS_RemoveElement, Zenon
<1>6. \A t \in Slots, q \in Partitions : t # s \/ q # p => Holders(t, q)' = Holders(t, q)
  <2> SUFFICES ASSUME NEW t \in Slots, NEW q \in Partitions, t # s \/ q # p
               PROVE  Holders(t, q)' = Holders(t, q)
    BY Zenon
  <2>1. id \notin Holders(t, q) /\ Holders(t, q)' = Holders(t, q) \ {id}
    BY <1>1, <1>4, Zenon
  <2> QED  BY <2>1, Zenon
<1>7. reservations'[id].slot = NoSlot
  BY <1>2 DEF NoReservation
<1> QED  BY <1>2, <1>4, <1>5, <1>6, <1>7, Zenon

-----------------------------------------------------------------------------

\* Reserve on a disk that is in a slot already.
LEMMA ReserveExistingCount ==
  ASSUME CountInv, FewFaults, NEW id \in Ids, NEW path \in Paths, NEW cfg \in DiskConfigs,
         NEW p \in Partitions, NEW mcfg \in MountConfigs,
         ReserveExisting(id, path, cfg, p, mcfg)
  PROVE  CountInv'
<1>0. Inv /\ Inv'
  BY ReserveExistingInv, Zenon DEF CountInv
<1>1. PICK s : s = disksByPath[path]
  BY Zenon
<1>2. /\ ~isMigrating /\ phase[id] = "idle" /\ s # NoSlot
      /\ State(s) \in {"Reserved", "Attached"}
      /\ ReservableMount(MountAt(s, p), mcfg)
      /\ mounts' = [mounts EXCEPT ![<<s, p>>] = ReserveMount(MountAt(s, p), mcfg)]
      /\ reservations' = [reservations EXCEPT ![id] = [slot |-> s, partition |-> p]]
      /\ phase' = [phase EXCEPT ![id] = "reserved"]
      /\ want' = [want EXCEPT ![id] = path]
      /\ UNCHANGED <<controllerSlots, isMigrating, saves, side, guestMounts>>
  BY <1>1, Zenon DEF ReserveExisting, Accepting, Granted, env, State, MountAt
<1>3. s \in Slots /\ Path(s) = path
  <2>1. side # "importing"
    BY <1>0, <1>2, Zenon DEF Inv, Importing
  <2>2. path \in AllPaths
    BY Zenon DEF AllPaths
  <2>3. s \in Slots
    BY <1>0, <1>1, <1>2, <2>2, Zenon DEF Inv, TypeOK
  <2> QED  BY <1>0, <1>1, <2>1, <2>2, <2>3, Zenon DEF Inv, IndexSound, Path
<1>4. /\ Holders(s, p)' = Holders(s, p) \cup {id}
      /\ Cardinality(Holders(s, p)') = Cardinality(Holders(s, p)) + 1
      /\ \A t \in Slots, q \in Partitions : t # s \/ q # p => Holders(t, q)' = Holders(t, q)
      /\ \A i \in Ids : i # id => reservations'[i] = reservations[i]
      /\ reservations[id].slot = NoSlot /\ reservations'[id].slot = s
      /\ \A t \in Slots, q \in Partitions : id \notin Holders(t, q)
  BY <1>0, <1>2, <1>3, HoldersGranted, Zenon
<1>5. /\ phase'[id] = "reserved" /\ want'[id] = path
      /\ \A i \in Ids : i # id => phase'[i] = phase[i] /\ want'[i] = want[i]
  BY <1>0, <1>2, ZenonT(40) DEF Inv, TypeOK
<1>6. /\ MountAt(s, p)' = ReserveMount(MountAt(s, p), mcfg)
      /\ \A t \in Slots, q \in Partitions : t # s \/ q # p => MountAt(t, q)' = MountAt(t, q)
  BY <1>0, <1>2, <1>3, Zenon DEF Inv, TypeOK, MountAt
<1>7. \A t \in Slots : State(t)' = State(t) /\ Path(t)' = Path(t)
  BY <1>2, Zenon DEF State, Path
<1>8. \A t \in Slots, q \in Partitions : Holders(t, q) \subseteq Ids
  BY Zenon DEF Holders
<1>9. NeverThawed' = NeverThawed
  BY <1>2, Zenon DEF NeverThawed
<1>10. ASSUME NEW t \in Slots, NEW q \in Partitions PROVE Counted(t, q)'
  <2>1. CASE t = s /\ q = p
    <3>1. Counted(s, p)
      BY <1>3, Zenon DEF CountInv
    <3>2. CASE MountAt(s, p).state = "nil"
      <4>1. Holders(s, p) = {}
        BY <1>2, <3>1, <3>2, Zenon DEF Counted
      <4>2. Holders(s, p)' = {id} /\ Cardinality({id}) = 1
        BY <1>4, <4>1, FS_Singleton, Zenon
      <4>3. MountAt(s, p)' = NewMount(mcfg)
        BY <1>6, <3>2, Zenon DEF ReserveMount
      <4> QED  BY <1>5, <2>1, <4>2, <4>3, SMTT(30) DEF Counted, NewMount
    <3>3. CASE MountAt(s, p).state # "nil"
      <4>1. /\ MountAt(s, p).state \in {"Reserved", "Mounted"}
            /\ MountAt(s, p) \in Mount
        BY <1>0, <1>2, <1>3, <3>3, Zenon DEF ReservableMount, Inv, TypeOK, MountAt, Mount
      <4>2. /\ MountAt(s, p)'.state = MountAt(s, p).state
            /\ MountAt(s, p)'.refCount = MountAt(s, p).refCount + 1
        BY <1>6, <3>3, <4>1, Zenon DEF ReserveMount, Mount
      <4>3. MountAt(s, p).refCount = Cardinality(Holders(s, p))
        BY <3>1, <4>1, Zenon DEF Counted
      <4>4. MountAt(s, p)'.refCount = Cardinality(Holders(s, p)')
        BY <1>4, <4>2, <4>3, Zenon
      <4>5. \A i \in Holders(s, p)' : i = id \/ (i \in Holders(s, p) /\ phase'[i] = phase[i])
        BY <1>4, <1>5, <1>3, <1>8, Zenon
      <4>6. Holders(s, p)' # {} /\ guestMounts' = guestMounts /\ saves' = saves
        BY <1>2, <1>4, Zenon
      <4> QED  BY <1>5, <2>1, <3>1, <4>1, <4>2, <4>4, <4>5, <4>6, ZenonT(40) DEF Counted
    <3> QED  BY <3>2, <3>3, Zenon
  <2>2. CASE t # s \/ q # p
    <3>1. \A i \in Holders(t, q) : phase'[i] = phase[i]
      BY <1>4, <1>5, <1>8, Zenon
    <3>2. Counted(t, q)
      BY Zenon DEF CountInv
    <3> QED  BY <1>2, <1>4, <1>6, <1>7, <1>9, <2>2, <3>1, <3>2, CountedSame, ZenonT(40)
  <2> QED  BY <2>1, <2>2, Zenon
<1>11. ASSUME NEW t \in Slots PROVE InUse(t)'
  <2>1. InUse(t)
    BY Zenon DEF CountInv
  <2>2. CASE t # s
    <3>1. \A i \in Ids : reservations'[i].slot = t <=> reservations[i].slot = t
      <4>1. NoSlot # t
        BY DEF Slots, NoSlot
      <4> QED  BY <1>4, <2>2, <4>1, Zenon
    <3> QED  BY <1>2, <1>5, <1>6, <1>7, <2>1, <2>2, <3>1, InUseSame, Zenon
  <2>3. CASE t = s
    <3>0. MountAt(s, p)'.state = IF MountAt(s, p).state = "nil" THEN "Reserved"
                                 ELSE MountAt(s, p).state
      <4>1. MountAt(s, p) \in Mount
        BY <1>0, <1>3, Zenon DEF Inv, TypeOK, MountAt, Mount
      <4> QED  BY <1>6, <4>1, ReserveMountIs, Zenon
    <3>1. \A q \in Partitions : MountAt(s, q)'.state = MountAt(s, q).state \/
            MountAt(s, q).state = "nil"
      BY <1>3, <1>6, <3>0, Zenon
    <3>2. MountAt(s, p)'.state # "nil" /\
            (MountAt(s, p).state = "nil" => MountAt(s, p)'.state = "Reserved")
      BY <3>0, Zenon
    <3> QED  BY <1>2, <1>7, <2>1, <2>3, <3>1, <3>2, Zenon DEF InUse
  <2> QED  BY <2>2, <2>3, Zenon
<1>12. ASSUME NEW i \in Ids PROVE Entitled(i)'
  <2>1. CASE i = id
    BY <1>2, <1>3, <1>4, <1>5, <1>7, <2>1, Zenon DEF Entitled
  <2>2. CASE i # id
    <3>1. Entitled(i) /\ (phase[i] # "idle" => reservations[i].slot \in Slots)
      BY <1>0, Holding, Zenon DEF CountInv
    <3> QED  BY <1>4, <1>5, <1>7, <2>2, <3>1, ZenonT(40) DEF Entitled
  <2> QED  BY <2>1, <2>2, Zenon
<1> QED  BY <1>0, <1>2, <1>10, <1>11, <1>12, Zenon DEF CountInv

\* Reserve of a disk that takes an empty slot.
LEMMA ReserveNewCount ==
  ASSUME CountInv, FewFaults, NEW id \in Ids, NEW path \in Paths, NEW cfg \in DiskConfigs,
         NEW p \in Partitions, NEW mcfg \in MountConfigs,
         ReserveNew(id, path, cfg, p, mcfg)
  PROVE  CountInv'
<1>0. Inv /\ Inv'
  BY ReserveNewInv, Zenon DEF CountInv
<1>1. PICK s \in Slots :
          /\ FirstFree(s)
          /\ controllerSlots' = [controllerSlots EXCEPT ![s] = NewDisk(path, cfg)]
          /\ mounts' = [m \in Slots \X Partitions |->
                IF m[1] # s THEN mounts[m]
                ELSE IF m[2] = p THEN NewMount(mcfg) ELSE NilMount]
          /\ Granted(id, s, path, p)
  BY Zenon DEF ReserveNew
<1>2. /\ ~isMigrating /\ phase[id] = "idle" /\ State(s) = "nil"
      /\ reservations' = [reservations EXCEPT ![id] = [slot |-> s, partition |-> p]]
      /\ phase' = [phase EXCEPT ![id] = "reserved"]
      /\ want' = [want EXCEPT ![id] = path]
      /\ UNCHANGED <<isMigrating, saves, side, guestMounts>>
  BY <1>1, Zenon DEF ReserveNew, Accepting, Granted, env, State, FirstFree, Occupied
<1>3. \A i \in Ids : phase[i] # "idle" => reservations[i].slot # s /\ reservations[i].slot \in Slots
  BY <1>0, <1>2, Holding, Zenon DEF CountInv, Entitled
<1>4. /\ Holders(s, p)' = Holders(s, p) \cup {id}
      /\ Cardinality(Holders(s, p)') = Cardinality(Holders(s, p)) + 1
      /\ \A t \in Slots, q \in Partitions : t # s \/ q # p => Holders(t, q)' = Holders(t, q)
      /\ \A i \in Ids : i # id => reservations'[i] = reservations[i]
      /\ reservations[id].slot = NoSlot /\ reservations'[id].slot = s
      /\ \A t \in Slots, q \in Partitions : id \notin Holders(t, q)
  BY <1>0, <1>2, HoldersGranted, Zenon
<1>5. /\ phase'[id] = "reserved" /\ want'[id] = path
      /\ \A i \in Ids : i # id => phase'[i] = phase[i] /\ want'[i] = want[i]
  BY <1>0, <1>2, ZenonT(40) DEF Inv, TypeOK
<1>6. /\ MountAt(s, p)' = NewMount(mcfg)
      /\ \A q \in Partitions : q # p => MountAt(s, q)' = NilMount
      /\ \A t \in Slots, q \in Partitions : t # s => MountAt(t, q)' = MountAt(t, q)
  BY <1>1, Zenon DEF MountAt
<1>7. /\ State(s)' = "Reserved" /\ Path(s)' = path
      /\ \A t \in Slots : t # s => State(t)' = State(t) /\ Path(t)' = Path(t)
  BY <1>0, <1>1, Zenon DEF State, Path, Inv, TypeOK, NewDisk
<1>8. \A t \in Slots, q \in Partitions : Holders(t, q) \subseteq Ids
  BY Zenon DEF Holders
<1>9. NeverThawed' = NeverThawed
  BY <1>2, ZenonT(40) DEF NeverThawed
<1>10. \A q \in Partitions : Holders(s, q) = {}
  <2>1. \A i \in Ids : reservations[i].slot # s
    <3>1. \A i \in Ids : phase[i] = "idle" => reservations[i] = NoReservation
      BY <1>0, Zenon DEF Inv, TypeOK
    <3>2. NoReservation.slot # s
      BY DEF NoReservation, Slots, NoSlot
    <3> QED  BY <1>3, <3>1, <3>2, Zenon
  <2> QED  BY <2>1 DEF Holders
<1>11. ASSUME NEW t \in Slots, NEW q \in Partitions PROVE Counted(t, q)'
  <2>1. CASE t = s /\ q = p
    <3>1. Holders(s, p)' = {id} /\ Cardinality({id}) = 1
      BY <1>4, <1>10, FS_Singleton, Zenon
    <3> QED  BY <1>5, <1>6, <2>1, <3>1, SMTT(30) DEF Counted, NewMount
  <2>2. CASE t = s /\ q # p
    <3>1. Holders(s, q)' = {}
      BY <1>4, <1>10, <2>2, Zenon
    <3>2. MountAt(s, q)'.state = "nil"
      BY <1>6, <2>2, SMTT(30) DEF NilMount
    <3> QED  BY <2>2, <3>1, <3>2, Zenon DEF Counted
  <2>3. CASE t # s
    <3>1. \A i \in Holders(t, q) : phase'[i] = phase[i]
      BY <1>4, <1>5, <1>8, Zenon
    <3>2. Counted(t, q)
      BY Zenon DEF CountInv
    <3> QED  BY <1>2, <1>4, <1>6, <1>7, <1>9, <2>3, <3>1, <3>2, CountedSame, ZenonT(40)
  <2> QED  BY <2>1, <2>2, <2>3, ZenonT(40)
<1>12. ASSUME NEW t \in Slots PROVE InUse(t)'
  <2>1. InUse(t)
    BY Zenon DEF CountInv
  <2>2. CASE t # s
    <3>1. \A i \in Ids : reservations'[i].slot = t <=> reservations[i].slot = t
      <4>1. NoSlot # t
        BY NoSlotIsNone, Zenon
      <4> QED  BY <1>4, <2>2, <4>1, Zenon
    <3> QED  BY <1>2, <1>5, <1>6, <1>7, <2>1, <2>2, <3>1, InUseSame, Zenon
  <2>3. CASE t = s
    BY <1>6, <1>7, <2>3, SMTT(30) DEF InUse, NewMount
  <2> QED  BY <2>2, <2>3, Zenon
<1>13. ASSUME NEW i \in Ids PROVE Entitled(i)'
  <2>1. CASE i = id
    BY <1>2, <1>4, <1>5, <1>7, <2>1, Zenon DEF Entitled
  <2>2. CASE i # id
    <3>1. Entitled(i)
      BY Zenon DEF CountInv
    <3> QED  BY <1>3, <1>4, <1>5, <1>7, <2>2, <3>1, ZenonT(40) DEF Entitled
  <2> QED  BY <2>1, <2>2, Zenon
<1> QED  BY <1>0, <1>2, <1>11, <1>12, <1>13, Zenon DEF CountInv

-----------------------------------------------------------------------------

\* MapToGuest attaches the disk and mounts the partition, or leaves the
\* caller to release.
LEMMA MapToGuestCount ==
  ASSUME CountInv, FewFaults, NEW id \in Ids, MapToGuest(id)
  PROVE  CountInv'
<1>0. Inv /\ Inv'
  BY MapToGuestInv, Zenon DEF CountInv
<1>1. PICK s, p : s = reservations[id].slot /\ p = reservations[id].partition
  BY Zenon
<1>2. /\ phase[id] = "reserved" /\ Held(id).state # "nil"
      /\ UNCHANGED <<reservations, isMigrating, saves, side, want>>
  BY Zenon DEF MapToGuest
<1>3. /\ s \in Slots /\ p \in Partitions /\ s \notin DOMAIN Rootfs
      /\ id \in Holders(s, p) /\ <<s, p>> \in Parts
      /\ \A t, q : id \in Holders(t, q) => t = s /\ q = p
  BY <1>0, <1>1, <1>2, Holding, Zenon DEF Parts
<1>4. State(s) \in {"Reserved", "Attached"} /\ Counted(s, p) /\ InUse(s)
  <2>1. Held(id).state = State(s) /\ State(s) \in DiskStates
    BY <1>0, <1>1, <1>3, Zenon DEF Held, State, Inv, TypeOK
  <2>2. State(s) # "Ejected" /\ State(s) # "Detached"
    BY <1>1, <1>2, <1>3, ZenonT(40) DEF CountInv, InUse
  <2> QED  BY <1>2, <1>3, <2>1, <2>2, Zenon DEF DiskStates, CountInv
<1>5. MountAt(s, p) \in Mount /\ MountAt(s, p).state \in {"Reserved", "Mounted", "Unmounted"}
  <2>1. MountAt(s, p) \in Mount /\ MountAt(s, p).state \in MountStates
    BY <1>0, <1>3, Zenon DEF Inv, TypeOK, MountAt, Mount
  <2>2. MountAt(s, p).state # "nil"
    BY <1>3, <1>4, Zenon DEF Counted
  <2> QED  BY <2>1, <2>2, Zenon DEF MountStates
<1>6. PICK ok \in BOOLEAN :
        LET d == [controllerSlots[s] EXCEPT !.state = "Attached"]
            m == MountToGuest(MountAt(s, p), ok)
        IN /\ controllerSlots' = [controllerSlots EXCEPT ![s] = d]
           /\ mounts' = [mounts EXCEPT ![<<s, p>>] = m]
           /\ guestMounts' = IF MountAt(s, p).state = "Reserved" /\ m.state = "Mounted"
                             THEN guestMounts \cup {<<s, p>>} ELSE guestMounts
           /\ phase' = [phase EXCEPT ![id] = IF m.state = "Mounted" THEN "mapped" ELSE "releasing"]
  <2>1. PICK addOk \in Outcomes("add"), ok \in Outcomes("mount") :
         LET d == AttachToVM(Held(id), addOk)
             m == IF d.state = "Attached" THEN MountToGuest(mounts[<<s, p>>], ok)
                  ELSE mounts[<<s, p>>]
         IN
         /\ controllerSlots' = [controllerSlots EXCEPT ![s] = d]
         /\ mounts' = [mounts EXCEPT ![<<s, p>>] = m]
         /\ guestMounts' = IF mounts[<<s, p>>].state = "Reserved" /\ m.state = "Mounted"
                           THEN guestMounts \cup {<<s, p>>} ELSE guestMounts
         /\ phase' = [phase EXCEPT ![id] =
                         IF d.state = "Attached" /\
                           m.state = "Mounted" THEN "mapped" ELSE "releasing"]
    BY <1>1, ZenonT(40) DEF MapToGuest
  <2>2. addOk = TRUE /\ ok \in BOOLEAN
    BY Zenon DEF Outcomes, FewFaults
  <2>3. Held(id) = controllerSlots[s] /\ Held(id) \in Disk
    BY <1>0, <1>1, <1>3, Zenon DEF Held, Inv, TypeOK, Disk
  <2>4. AttachToVM(Held(id), addOk) = [controllerSlots[s] EXCEPT !.state = "Attached"]
    BY <1>4, <2>2, <2>3, Zenon DEF AttachToVM, State, Disk
  <2>5. AttachToVM(Held(id), addOk).state = "Attached"
    BY <2>3, <2>4, Zenon DEF Disk
  <2> QED  BY <2>1, <2>2, <2>4, <2>5, Zenon DEF MountAt
<1> DEFINE m0 == MountAt(s, p)
           m1 == MountToGuest(m0, ok)
<1>7. /\ m1.state = IF m0.state = "Reserved" THEN (IF ok THEN "Mounted" ELSE "Unmounted")
                    ELSE m0.state
      /\ m1.refCount = m0.refCount
  BY <1>5, Zenon DEF MountToGuest, Mount
<1>8. /\ MountAt(s, p)' = m1
      /\ \A t \in Slots, q \in Partitions : t # s \/ q # p => MountAt(t, q)' = MountAt(t, q)
  BY <1>0, <1>3, <1>6, Zenon DEF Inv, TypeOK, MountAt
<1>9. /\ State(s)' = "Attached"
      /\ \A t \in Slots : Path(t)' = Path(t)
      /\ \A t \in Slots : t # s => State(t)' = State(t)
  BY <1>0, <1>3, <1>6, SMTT(30) DEF Inv, TypeOK, State, Path
<1>10. /\ phase'[id] = IF m1.state = "Mounted" THEN "mapped" ELSE "releasing"
       /\ \A i \in Ids : i # id => phase'[i] = phase[i]
  BY <1>0, <1>6, ZenonT(40) DEF Inv, TypeOK
<1>11. /\ guestMounts \subseteq guestMounts'
       /\ m0.state = "Reserved" /\ m1.state = "Mounted" => <<s, p>> \in guestMounts'
  BY <1>6, Zenon
<1> HIDE DEF m0, m1
<1>12. \A t \in Slots, q \in Partitions : Holders(t, q)' = Holders(t, q) /\
         Holders(t, q) \subseteq Ids
  BY <1>2, Zenon DEF Holders
<1>13. ASSUME NEW t \in Slots, NEW q \in Partitions PROVE Counted(t, q)'
  <2>1. CASE t = s /\ q = p
    <3>1. m0 = MountAt(s, p) /\ m1.state \in {"Mounted", "Unmounted"}
      BY <1>5, <1>7, Zenon DEF m0
    <3>2. Holders(s, p)' = Holders(s, p) /\ Holders(s, p) # {}
      BY <1>3, <1>12, Zenon
    <3>3. m1.state = "Mounted" => m1.refCount = Cardinality(Holders(s, p)) /\ <<s,
            p>> \in guestMounts'
      BY <1>4, <1>5, <1>7, <1>11, <3>1, Zenon DEF Counted
    <3>4. ASSUME NEW i \in Holders(s, p), phase'[i] = "mapped" PROVE m1.state = "Mounted"
      <4>1. CASE i = id
        BY <1>10, <3>4, <4>1, Zenon
      <4>2. CASE i # id
        <5>1. phase[i] = "mapped"
          BY <1>3, <1>10, <1>12, <3>4, <4>2, Zenon
        <5>2. m0.state = "Mounted"
          BY <1>4, <3>1, <5>1, Zenon DEF Counted
        <5> QED  BY <1>7, <5>2, Zenon
      <4> QED  BY <4>1, <4>2, Zenon
    <3> QED  BY <1>8, <2>1, <3>1, <3>2, <3>3, <3>4, Zenon DEF Counted
  <2>2. CASE t # s \/ q # p
    <3>1. \A i \in Holders(t, q) : phase'[i] = phase[i]
      BY <1>3, <1>10, <1>12, <2>2, ZenonT(40)
    <3>2. Counted(t, q) /\ (State(t) = "Ejected" => State(t)' = "Ejected")
      BY <1>4, <1>9, Zenon DEF CountInv
    <3>3. NeverThawed' = NeverThawed
      BY <1>2, Zenon DEF NeverThawed
    <3> QED  BY <1>2, <1>8, <1>11, <1>12, <2>2, <3>1, <3>2, <3>3, CountedSame, ZenonT(40)
  <2> QED  BY <2>1, <2>2, Zenon
<1>14. ASSUME NEW t \in Slots PROVE InUse(t)'
  <2>1. InUse(t)
    BY Zenon DEF CountInv
  <2>2. CASE t # s
    <3>1. \A i \in Ids : phase[i] = "releasing" /\ reservations[i].slot = t =>
            phase'[i] = "releasing"
      BY <1>1, <1>10, <2>2, Zenon
    <3> QED  BY <1>2, <1>8, <1>9, <2>1, <2>2, <3>1, InUseSame, Zenon
  <2>3. CASE t = s
    <3>1. MountAt(s, p)'.state # "nil"
      BY <1>5, <1>7, <1>8, Zenon DEF m0
    <3> QED  BY <1>3, <1>9, <2>3, <3>1, Zenon DEF InUse
  <2> QED  BY <2>2, <2>3, Zenon
<1>15. ASSUME NEW i \in Ids PROVE Entitled(i)'
  <2>1. Entitled(i) /\ (phase[i] # "idle" => reservations[i].slot \in Slots)
    BY <1>0, Holding, Zenon DEF CountInv
  <2>2. phase'[i] # "idle" => phase[i] # "idle"
    BY <1>2, <1>10, Zenon
  <2> QED  BY <1>2, <1>9, <2>1, <2>2, Zenon DEF Entitled
<1> QED  BY <1>0, <1>2, <1>13, <1>14, <1>15, Zenon DEF CountInv

-----------------------------------------------------------------------------
\* What UnmapFromGuest comes to when no eject fails.  It fails and leaves all as
\* it was; ...
Stays(id, s, p) ==
    /\ MountAt(s, p).state # "Reserved"
    /\ UNCHANGED <<reservations, controllerSlots, mounts, guestMounts, want>>
    /\ phase' = [phase EXCEPT ![id] = "releasing"]
\* ... or the reservation goes, ...
Gone(id) ==
    /\ reservations' = [reservations EXCEPT ![id] = NoReservation]
    /\ phase' = [phase EXCEPT ![id] = "idle"]
    /\ want' = [want EXCEPT ![id] = None]
\* ... one of several, or the last one on a partition of a disk that has others, ...
Drops(id, s, p) ==
    /\ Gone(id) /\ UNCHANGED controllerSlots
    /\ \/ /\ MountAt(s, p).state \in {"Reserved", "Mounted"} /\ ~LastReference(MountAt(s, p))
          /\ mounts' = [mounts EXCEPT ![<<s, p>>].refCount = @ - 1]
          /\ UNCHANGED guestMounts
       \/ /\ LastReference(MountAt(s, p))
          /\ \E q \in Partitions : q # p /\ MountAt(s, q).state # "nil"
          /\ mounts' = [mounts EXCEPT ![<<s, p>>] = NilMount]
          /\ guestMounts' = guestMounts \ {<<s, p>>}
\* ... or the last one of all, and the disk is ejected: it is freed, or stays
\* because it could not be removed.
OnlyMount(s, p) ==
    /\ LastReference(MountAt(s, p))
    /\ \A q \in Partitions : q # p => MountAt(s, q).state = "nil"

\* The last mount of the disk is gone, and the disk could not be removed.
Ejects(id, s, p) ==
    /\ OnlyMount(s, p)
    /\ mounts' = [mounts EXCEPT ![<<s, p>>] = NilMount]
    /\ controllerSlots' = [controllerSlots EXCEPT ![s].state = "Ejected"]
    /\ guestMounts' = guestMounts \ {<<s, p>>}
    /\ phase' = [phase EXCEPT ![id] = "releasing"]
    /\ UNCHANGED <<reservations, want>>

\* The disk is removed, and its slot with it.
Frees(id, s, p) ==
    /\ OnlyMount(s, p) \/ State(s) = "Ejected"
    /\ Gone(id)
    /\ mounts' = ClearSlot(mounts, s)
    /\ controllerSlots' = [controllerSlots EXCEPT ![s] = NilDisk]
    /\ guestMounts' \in {guestMounts, guestMounts \ {<<s, p>>}}

\* UnmapFromGuest does one of four things.
LEMMA UnmapIs ==
  ASSUME CountInv, FewFaults, NEW id \in Ids, UnmapFromGuest(id)
  PROVE  \E s, p : /\ s = reservations[id].slot /\ p = reservations[id].partition
                   /\ Stays(id, s, p) \/ Drops(id, s, p) \/ Ejects(id, s, p) \/ Frees(id, s, p)
<1> DEFINE s == reservations[id].slot
           p == reservations[id].partition
           d0 == Held(id)
           m0 == mounts[<<s, p>>]
           m(uOk) == UnmountFromGuest(m0, uOk)
           err(uOk) == UnmountFails(m0, uOk)
           left(uOk) == [mounts EXCEPT ![<<s, p>>] = m(uOk)]
           inUse(uOk) == \E q \in Partitions : left(uOk)[<<s, q>>].state # "nil"
           d(uOk, eOk, rOk) == IF err(uOk) THEN d0
                               ELSE DetachFromVM(d0, inUse(uOk), eOk, rOk)
           failed(uOk, eOk, rOk) == err(uOk) \/ DetachFails(d0, inUse(uOk), eOk, rOk)
           free(uOk, eOk, rOk) == ~failed(uOk, eOk, rOk)
                                     /\ d(uOk, eOk, rOk).state = "Detached"
<1>0. Inv /\ phase[id] # "idle" /\ d0.state # "nil"
  BY Zenon DEF CountInv, UnmapFromGuest, Unmapping
<1>1. /\ s \in Slots /\ p \in Partitions /\ id \in Holders(s, p) /\ <<s, p>> \in Parts
  BY <1>0, Holding, Zenon DEF Parts
<1>3. m0 \in Mount /\ d0 \in Disk /\ m0 = MountAt(s, p) /\ d0.state = State(s) /\
        d0 = controllerSlots[s]
  BY <1>0, <1>1, Zenon DEF Inv, TypeOK, Mount, Disk, MountAt, State, Held
<1>2. PICK uOk \in Outcomes("unmount"), eOk \in Outcomes("eject"),
           rOk \in Outcomes("remove") :
        /\ mounts' = IF free(uOk, eOk, rOk) THEN ClearSlot(left(uOk), s) ELSE left(uOk)
        /\ controllerSlots' = [controllerSlots EXCEPT ![s] =
              IF free(uOk, eOk, rOk) THEN NilDisk ELSE d(uOk, eOk, rOk)]
        /\ disksByPath' = IF free(uOk, eOk, rOk) THEN Unindexed(d(uOk, eOk, rOk).path)
                          ELSE disksByPath
        /\ reservations' = IF failed(uOk, eOk, rOk) THEN reservations
                           ELSE [reservations EXCEPT ![id] = NoReservation]
        /\ bus' = IF d(uOk, eOk, rOk).state = "Detached" /\ d0.state # "Detached"
                  THEN [bus EXCEPT ![s] = None] ELSE bus
        /\ guestMounts' = IF LastReference(m0) /\ uOk
                          THEN guestMounts \ {<<s, p>>} ELSE guestMounts
        /\ phase' = [phase EXCEPT ![id] =
                        IF failed(uOk, eOk, rOk) THEN "releasing" ELSE "idle"]
        /\ want' = IF failed(uOk, eOk, rOk) THEN want ELSE [want EXCEPT ![id] = None]
  BY Zenon DEF UnmapFromGuest
<1> DEFINE S == Stays(id, s, p) \/ Drops(id, s, p) \/ Ejects(id, s, p) \/ Frees(id, s, p)
<1> SUFFICES S
  BY Zenon
<1> HIDE DEF s, p, d0, m0
<1>ok. eOk = TRUE /\ uOk \in BOOLEAN /\ rOk \in BOOLEAN
  BY Zenon DEF Outcomes, FewFaults
<1>4. d0.state \in {"Reserved", "Attached", "Ejected"}
  BY <1>0, <1>1, <1>3, Zenon DEF Disk, DiskStates, CountInv, InUse
<1>6. /\ left(uOk)[<<s, p>>] = m(uOk)
      /\ \A q \in Partitions : q # p => left(uOk)[<<s, q>>] = MountAt(s, q)
      /\ \A n \in Slots \X Partitions : n[1] # s => left(uOk)[n] = mounts[n]
      /\ m(uOk) = m0 => left(uOk) = mounts
  <2>1. mounts \in [Parts -> Mount]
    BY <1>0, Zenon DEF Inv, TypeOK, Mount, Parts
  <2>2. /\ left(uOk)[<<s, p>>] = m(uOk)
        /\ \A n \in Parts : n # <<s, p>> => left(uOk)[n] = mounts[n]
    BY <1>1, <2>1, Zenon
  <2>3. m(uOk) = m0 => left(uOk) = mounts
    <3> HIDE DEF m
    <3> QED  BY <1>1, <1>3, <2>1, Zenon DEF MountAt, Parts
  <2> HIDE DEF left, m
  <2>4. /\ \A q \in Partitions : q # p => <<s, q>> \in Parts /\ <<s, q>> # <<s, p>>
        /\ \A n \in Slots \X Partitions : n[1] # s => n \in Parts /\ n # <<s, p>>
    BY <1>1 DEF Parts
  <2> QED  BY <2>2, <2>3, <2>4, Zenon DEF MountAt
<1>7. inUse(uOk) <=> m(uOk).state # "nil" \/ \E q \in Partitions : q # p /\
        MountAt(s, q).state # "nil"
  <2> HIDE DEF left, m
  <2> QED  BY <1>1, <1>6, Zenon
<1>8. controllerSlots = [controllerSlots EXCEPT ![s] = d0]
  BY <1>0, <1>1, <1>3, Zenon DEF Inv, TypeOK
<1>m. m(uOk) = IF LastReference(m0) THEN (IF uOk THEN NilMount ELSE m0)
               ELSE IF m0.state \in {"Reserved", "Mounted"} THEN [m0 EXCEPT !.refCount = @ - 1]
               ELSE m0
  BY Zenon DEF UnmountFromGuest
<1>e. err(uOk) <=> m0.state = "Unmounted" \/ (LastReference(m0) /\ ~uOk)
  BY Zenon DEF UnmountFails
<1> HIDE DEF m, left, inUse, err
<1>9. CASE err(uOk)
  <2>1. /\ m(uOk) = m0 /\ ~(LastReference(m0) /\ uOk) /\ m0.state # "Reserved"
        /\ left(uOk) = mounts
    BY <1>6, <1>9, <1>e, <1>m, <1>ok, Zenon DEF LastReference
  <2>2. failed(uOk, eOk, rOk) /\ d(uOk, eOk, rOk) = d0 /\ ~free(uOk, eOk, rOk)
    BY <1>9, Zenon
  <2> HIDE DEF failed, d, free
  <2>3. Stays(id, s, p)
    BY <1>2, <1>3, <1>8, <2>1, <2>2, Zenon DEF Stays
  <2> QED  BY <2>3, Zenon
<1>10. CASE ~err(uOk) /\ inUse(uOk)
  <2>1. d0.state # "Ejected"
    <3>1. d0.state = "Ejected" => \A q \in Partitions : MountAt(s, q).state = "nil"
      BY <1>1, <1>3, Zenon DEF CountInv, InUse
    <3>2. m0.state = "nil" => m(uOk) = m0
      BY <1>m, Zenon DEF LastReference
    <3> QED  BY <1>1, <1>3, <1>7, <1>10, <3>1, <3>2, Zenon
  <2>2. /\ d(uOk, eOk, rOk) = d0 /\ ~failed(uOk, eOk, rOk) /\ ~free(uOk, eOk, rOk)
    BY <1>4, <1>10, <2>1, Zenon DEF DetachFromVM, DetachFails
  <2> HIDE DEF failed, d, free
  <2>3. Gone(id) /\ controllerSlots' = controllerSlots /\ mounts' = left(uOk)
    BY <1>2, <1>8, <2>2, Zenon DEF Gone
  <2>4. m0.state \in {"Reserved", "Mounted"}
    <3>1. m0.state # "nil"
      BY <1>1, <1>3, <2>1, Zenon DEF CountInv, Counted
    <3>2. m0.state # "Unmounted"
      BY <1>10, <1>e, Zenon
    <3> QED  BY <1>3, <3>1, <3>2, Zenon DEF Mount, MountStates
  <2>5. CASE LastReference(m0)
    <3>1. uOk /\ m(uOk) = NilMount
      BY <1>10, <1>e, <1>m, <2>5, Zenon
    <3>2. \E q \in Partitions : q # p /\ MountAt(s, q).state # "nil"
      <4>1. NilMount.state = "nil"
        BY Zenon DEF NilMount
      <4> QED  BY <1>7, <1>10, <3>1, <4>1, Zenon
    <3>3. mounts' = [mounts EXCEPT ![<<s, p>>] = NilMount]
      BY <2>3, <3>1, Zenon DEF left
    <3>4. Drops(id, s, p)
      BY <1>2, <1>3, <2>3, <2>5, <3>1, <3>2, <3>3, ZenonT(40) DEF Drops
    <3> QED  BY <3>4, Zenon
  <2>6. CASE ~LastReference(m0)
    <3>1. m(uOk) = [m0 EXCEPT !.refCount = @ - 1]
      BY <1>m, <2>4, <2>6, Zenon
    <3>2. guestMounts' = guestMounts
      BY <1>2, <2>6, Zenon
    <3>3. mounts' = [mounts EXCEPT ![<<s, p>>].refCount = @ - 1]
      BY <2>3, <3>1, Zenon DEF left, m0
    <3>4. Drops(id, s, p)
      BY <1>3, <2>3, <2>4, <2>6, <3>2, <3>3, ZenonT(40) DEF Drops
    <3> QED  BY <3>4, Zenon
  <2> QED  BY <2>5, <2>6, Zenon
<1>11. CASE ~err(uOk) /\ ~inUse(uOk)
  <2>0. m(uOk).state = "nil" /\ \A q \in Partitions : q # p => MountAt(s, q).state = "nil"
    BY <1>7, <1>11, Zenon
  <2>1. m0.state = "nil" \/ (LastReference(m0) /\ uOk /\ m(uOk) = NilMount)
    BY <1>3, <1>m, <2>0, ZenonT(40) DEF Mount
  <2>2. d0.state = IF m0.state = "nil" THEN "Ejected" ELSE "Attached"
    <3>1. CASE m0.state = "nil"
      BY <1>1, <1>3, <3>1, Zenon DEF CountInv, Counted
    <3>2. CASE m0.state # "nil"
      <4>1. m0.state = "Mounted"
        BY <2>1, <3>2, Zenon DEF LastReference
      <4>2. \A n \in Parts : mounts[n].state = "Mounted" => State(n[1]) = "Attached"
        BY <1>0, Zenon DEF Inv, MountedOnAttached
      <4> QED  BY <1>1, <1>3, <3>2, <4>1, <4>2, Zenon DEF MountAt
    <3> QED  BY <3>1, <3>2, Zenon
  <2>3. CASE rOk
    <3>1. d(uOk, eOk, rOk).state = "Detached" /\ ~failed(uOk, eOk, rOk)
      BY <1>3, <1>11, <1>ok, <2>2, <2>3, Zenon DEF DetachFromVM, DetachFails, Disk
    <3>2. ClearSlot(left(uOk), s) = ClearSlot(mounts, s)
      BY <1>6, Zenon DEF ClearSlot
    <3>3. OnlyMount(s, p) \/ State(s) = "Ejected"
      BY <1>3, <2>0, <2>1, <2>2, Zenon DEF OnlyMount
    <3>4. free(uOk, eOk, rOk)
      BY <3>1, Zenon
    <3> HIDE DEF failed, d, free
    <3>5. Gone(id)
      BY <1>2, <3>1, Zenon DEF Gone
    <3>6. Frees(id, s, p)
      BY <1>2, <3>2, <3>3, <3>4, <3>5, Zenon DEF Frees
    <3> QED  BY <3>6, Zenon
  <2>4. CASE ~rOk
    <3>1. d(uOk, eOk, rOk) = [d0 EXCEPT !.state = "Ejected"]
      BY <1>11, <1>ok, <2>2, <2>4, Zenon DEF DetachFromVM
    <3>2. failed(uOk, eOk, rOk) /\ ~free(uOk, eOk, rOk)
      BY <1>11, <2>2, <2>4, ZenonT(40) DEF DetachFails
    <3> HIDE DEF failed, d, free
    <3>3. CASE m0.state = "nil"
      <4>1. d(uOk, eOk, rOk) = d0 /\ m(uOk) = m0 /\ ~LastReference(m0)
        BY <1>3, <1>m, <2>2, <3>1, <3>3, SMTT(30) DEF Disk, LastReference
      <4>2. Stays(id, s, p)
        BY <1>2, <1>3, <1>6, <1>8, <3>2, <3>3, <4>1, Zenon DEF Stays
      <4> QED  BY <4>2, Zenon
    <3>4. CASE m0.state # "nil"
      <4>1. LastReference(m0) /\ uOk /\ m(uOk) = NilMount /\ OnlyMount(s, p)
        BY <1>3, <2>0, <2>1, <3>4, Zenon DEF OnlyMount
      <4>2. controllerSlots' = [controllerSlots EXCEPT ![s].state = "Ejected"]
        BY <1>2, <1>3, <3>1, <3>2, Zenon
      <4>3. mounts' = [mounts EXCEPT ![<<s, p>>] = NilMount]
        BY <1>2, <3>2, <4>1, Zenon DEF left
      <4>4. Ejects(id, s, p)
        BY <1>2, <3>2, <4>1, <4>2, <4>3, Zenon DEF Ejects
      <4> QED  BY <4>4, Zenon
    <3> QED  BY <3>3, <3>4, Zenon
  <2> QED  BY <2>3, <2>4, Zenon
<1> QED  BY <1>9, <1>10, <1>11, Zenon

\* UnmapFromGuest.
LEMMA UnmapCount ==
  ASSUME CountInv, FewFaults, NEW id \in Ids, UnmapFromGuest(id)
  PROVE  CountInv'
<1>0. Inv /\ Inv'
  BY UnmapFromGuestInv, Zenon DEF CountInv
<1>1. PICK s, p : /\ s = reservations[id].slot /\ p = reservations[id].partition
                  /\ Stays(id, s, p) \/ Drops(id, s, p) \/ Ejects(id, s, p) \/ Frees(id, s, p)
  BY UnmapIs, Zenon
<1>2. /\ phase[id] \in {"mapped", "releasing"} /\ ~isMigrating
      /\ UNCHANGED <<isMigrating, saves, side>>
      /\ NeverThawed' = NeverThawed
  BY Zenon DEF UnmapFromGuest, Unmapping, NeverThawed
<1>3. phase[id] # "idle"
  BY <1>2, Zenon
<1>4. /\ s \in Slots /\ p \in Partitions /\ s \notin DOMAIN Rootfs
      /\ id \in Holders(s, p) /\ <<s, p>> \in Parts
      /\ \A t, q : id \in Holders(t, q) => t = s /\ q = p
  BY <1>0, <1>1, <1>3, Holding, Zenon DEF Parts
<1>5. /\ Counted(s, p) /\ InUse(s) /\ MountAt(s, p) \in Mount
      /\ \A t \in Slots, q \in Partitions : Counted(t, q) /\ Holders(t, q) \subseteq Ids
      /\ \A t \in Slots : InUse(t)
      /\ \A i \in Ids : Entitled(i) /\ (phase[i] # "idle" => reservations[i].slot \in Slots)
  <2>1. MountAt(s, p) \in Mount
    BY <1>0, <1>4, Zenon DEF Inv, TypeOK, Mount, MountAt
  <2>2. \A t \in Slots, q \in Partitions : Holders(t, q) \subseteq Ids
    BY Zenon DEF Holders
  <2>3. \A i \in Ids : phase[i] # "idle" => reservations[i].slot \in Slots
    BY <1>0, Holding, Zenon
  <2> QED  BY <1>4, <2>1, <2>2, <2>3, Zenon DEF CountInv
<1>6. Cardinality(Holders(s, p)) \in Nat
      /\ (Holders(s, p) = {} <=> Cardinality(Holders(s, p)) = 0)
  BY HoldersFinite, Zenon
<1>7. \A t \in Slots : t # NoSlot
  BY DEF Slots, NoSlot
<1>8. \A t \in Slots, q \in Partitions : <<t, q>> = <<s, p>> => t = s /\ q = p
  BY Zenon
\* The reservations on a slot of which only one partition is mounted, once.
<1>only. ASSUME OnlyMount(s, p)
         PROVE  /\ \A i \in Ids : reservations[i].slot = s <=> i = id
                /\ State(s) = "Attached"
  <2>1. MountAt(s, p).state = "Mounted" /\ MountAt(s, p).refCount = 1
    BY <1>only, Zenon DEF OnlyMount, LastReference
  <2>2. State(s) = "Attached"
    <3>1. \A n \in Parts : mounts[n].state = "Mounted" => State(n[1]) = "Attached"
      BY <1>0, Zenon DEF Inv, MountedOnAttached
    <3> QED  BY <1>4, <2>1, <3>1, Zenon DEF MountAt
  <2>3. Holders(s, p) = {id}
    <3>1. Cardinality(Holders(s, p)) = 1
      BY <1>5, <2>1, Zenon DEF Counted
    <3>2. IsFiniteSet(Holders(s, p))
      BY HoldersFinite, Zenon
    <3>3. \E x : Holders(s, p) = {x}
      BY <3>1, <3>2, FS_Singleton, Zenon
    <3> QED  BY <1>4, <3>3, Zenon
  <2>4. \A q \in Partitions : q # p => Holders(s, q) = {}
    BY <1>4, <1>5, <1>only, <2>2, Zenon DEF OnlyMount, Counted
  <2>5. ASSUME NEW i \in Ids, reservations[i].slot = s PROVE i = id
    <3>1. phase[i] # "idle"
      <4>1. NoReservation.slot = NoSlot
        BY Zenon DEF NoReservation
      <4> QED  BY <1>0, <1>4, <1>7, <2>5, <4>1, Zenon DEF Inv, TypeOK
    <3>2. reservations[i].partition \in Partitions
          /\ i \in Holders(s, reservations[i].partition)
      BY <1>0, <2>5, <3>1, Holding, Zenon
    <3>3. reservations[i].partition = p
      BY <2>4, <3>2, Zenon
    <3> QED  BY <2>3, <3>2, <3>3, Zenon
  <2> QED  BY <1>1, <2>2, <2>5, Zenon
\* A slot none of whose reservations is the caller's.
<1>other. ASSUME NEW t \in Slots, t # s, State(t)' = State(t),
                 \A q \in Partitions : MountAt(t, q)' = MountAt(t, q),
                 \A i \in Ids : i # id => reservations'[i] = reservations[i] /\
                   phase'[i] = phase[i],
                 reservations'[id].slot \in {s, NoSlot}
          PROVE  InUse(t)'
  <2>1. \A i \in Ids : reservations'[i].slot = t <=> reservations[i].slot = t
    BY <1>1, <1>7, <1>other, Zenon
  <2>2. \A i \in Ids : phase[i] = "releasing" /\ reservations[i].slot = t => phase'[i] = "releasing"
    BY <1>1, <1>other, Zenon
  <2> QED  BY <1>5, <1>other, <2>1, <2>2, InUseSame, Zenon
<1>9. CASE Stays(id, s, p)
  <2>1. /\ MountAt(s, p).state # "Reserved"
        /\ UNCHANGED <<reservations, controllerSlots, mounts, guestMounts, want>>
        /\ phase'[id] = "releasing" /\ \A i \in Ids : i # id => phase'[i] = phase[i]
    BY <1>0, <1>9, Zenon DEF Stays, Inv, TypeOK
  <2>2. /\ \A t, q : MountAt(t, q)' = MountAt(t, q) /\ Holders(t, q)' = Holders(t, q)
        /\ \A t : State(t)' = State(t) /\ Path(t)' = Path(t)
    BY <2>1, Zenon DEF MountAt, Holders, State, Path
  <2>3. ASSUME NEW t \in Slots, NEW q \in Partitions PROVE Counted(t, q)'
    <3>1. CASE t = s /\ q = p
      <4>1. PICK H, m, c : H = Holders(s, p) /\ m = MountAt(s, p) /\ c = State(s)
        BY Zenon
      <4>2. Holders(s, p)' = H /\ MountAt(s, p)' = m /\ State(s)' = c
        BY <2>2, <4>1, Zenon
      <4>3. \A i \in H : i = id \/ phase'[i] = phase[i]
        BY <1>4, <1>5, <2>1, <4>1, Zenon
      <4> QED  BY <1>2, <1>5, <2>1, <3>1, <4>1, <4>2, <4>3, SMTT(30) DEF Counted
    <3>2. CASE t # s \/ q # p
      <4>1. \A i \in Holders(t, q) : phase'[i] = phase[i]
        <5>1. id \notin Holders(t, q) /\ Holders(t, q) \subseteq Ids
          BY <1>4, <1>5, <3>2, Zenon
        <5> QED  BY <2>1, <5>1, Zenon
      <4> QED  BY <1>2, <1>5, <2>1, <2>2, <4>1, CountedSame, Zenon
    <3> QED  BY <3>1, <3>2, ZenonT(40)
  <2>4. ASSUME NEW t \in Slots PROVE InUse(t)'
    <3>1. \A i \in Ids : phase[i] = "releasing" /\ reservations[i].slot = t =>
            phase'[i] = "releasing"
      BY <2>1, Zenon
    <3> QED  BY <1>5, <2>1, <2>2, <3>1, InUseSame, Zenon
  <2>5. ASSUME NEW i \in Ids PROVE Entitled(i)'
    BY <1>3, <1>5, <2>1, <2>2, Zenon DEF Entitled
  <2> QED  BY <1>0, <1>2, <2>3, <2>4, <2>5, ZenonT(40) DEF CountInv
\* The reservation goes.
<1>gone. ASSUME Gone(id)
         PROVE  /\ Holders(s, p)' = Holders(s, p) \ {id}
                /\ Cardinality(Holders(s, p)') = Cardinality(Holders(s, p)) - 1
                /\ IsFiniteSet(Holders(s, p)')
                /\ \A t \in Slots, q \in Partitions : t # s \/ q # p =>
                     Holders(t, q)' = Holders(t, q)
                /\ \A i \in Ids : i # id => reservations'[i] = reservations[i]
                /\ reservations'[id].slot = NoSlot
                /\ phase'[id] = "idle"
                /\ \A i \in Ids : i # id => phase'[i] = phase[i] /\ want'[i] = want[i]
                /\ \A t \in Slots, q \in Partitions :
                      \A i \in Holders(t, q)' : i \in Holders(t, q) /\ phase'[i] = phase[i]
  <2>1. reservations' = [reservations EXCEPT ![id] = NoReservation]
    BY <1>gone, Zenon DEF Gone
  <2>2. /\ Holders(s, p)' = Holders(s, p) \ {id}
        /\ Cardinality(Holders(s, p)') = Cardinality(Holders(s, p)) - 1
        /\ IsFiniteSet(Holders(s, p)')
        /\ \A t \in Slots, q \in Partitions : t # s \/ q # p => Holders(t, q)' = Holders(t, q)
        /\ \A i \in Ids : i # id => reservations'[i] = reservations[i]
        /\ reservations'[id].slot = NoSlot
    BY <1>0, <1>4, <2>1, HoldersReleased, Zenon
  <2>3. /\ phase'[id] = "idle"
        /\ \A i \in Ids : i # id => phase'[i] = phase[i] /\ want'[i] = want[i]
    BY <1>0, <1>gone, Zenon DEF Gone, Inv, TypeOK
  <2>4. \A t \in Slots, q \in Partitions :
           \A i \in Holders(t, q)' : i \in Holders(t, q) /\ phase'[i] = phase[i]
    <3> SUFFICES ASSUME NEW t \in Slots, NEW q \in Partitions, NEW i \in Holders(t, q)'
                 PROVE  i \in Holders(t, q) /\ phase'[i] = phase[i]
      BY Zenon
    <3>1. i \in Holders(t, q) /\ i # id
      <4>1. CASE t = s /\ q = p
        BY <2>2, <4>1, Zenon
      <4>2. CASE t # s \/ q # p
        <5>1. Holders(t, q)' = Holders(t, q)
          BY <2>2, <4>2, Zenon
        <5>2. id \notin Holders(t, q)
          BY <1>4, <4>2, Zenon
        <5> QED  BY <5>1, <5>2, Zenon
      <4> QED  BY <4>1, <4>2, Zenon
    <3> QED  BY <1>5, <2>3, <3>1, Zenon
  <2> QED  BY <2>2, <2>3, <2>4, Zenon
\* What the caller's step leaves to the mounts it does not touch.
<1>rest. ASSUME NEW t \in Slots, NEW q \in Partitions, t # s \/ q # p,
                MountAt(t, q)' = MountAt(t, q), Holders(t, q)' = Holders(t, q),
                \A i \in Ids : i # id => phase'[i] = phase[i],
                guestMounts \ {<<s, p>>} \subseteq guestMounts',
                State(t) = "Ejected" => State(t)' = "Ejected"
         PROVE  Counted(t, q)'
  <2>1. \A i \in Holders(t, q) : phase'[i] = phase[i]
    <3>1. id \notin Holders(t, q) /\ Holders(t, q) \subseteq Ids
      BY <1>4, <1>5, <1>rest, Zenon
    <3> QED  BY <1>rest, <3>1, Zenon
  <2>2. <<t, q>> \in guestMounts => <<t, q>> \in guestMounts'
    BY <1>8, <1>rest, ZenonT(40)
  <2> QED  BY <1>2, <1>5, <1>rest, <2>1, <2>2, CountedSame, Zenon
<1>10. CASE Drops(id, s, p)
  <2>1. Gone(id) /\ controllerSlots' = controllerSlots
    BY <1>10, Zenon DEF Drops
  <2>2. \A t : State(t)' = State(t) /\ Path(t)' = Path(t)
    BY <2>1, Zenon DEF State, Path
  <2>3. State(s) # "Ejected" /\ MountAt(s, p).state \in {"Reserved", "Mounted"}
    BY <1>4, <1>5, <1>10, Zenon DEF Drops, LastReference, InUse
  <2>4. /\ \A t \in Slots, q \in Partitions : t # s \/ q # p => MountAt(t, q)' = MountAt(t, q)
        /\ guestMounts \ {<<s, p>>} \subseteq guestMounts'
        /\ \/ /\ MountAt(s, p)'.state = MountAt(s, p).state /\ guestMounts' = guestMounts
              /\ MountAt(s, p)'.refCount = MountAt(s, p).refCount - 1
              /\ ~LastReference(MountAt(s, p))
           \/ /\ MountAt(s, p)'.state = "nil" /\ LastReference(MountAt(s, p))
              /\ \E q \in Partitions : q # p /\ MountAt(s, q).state # "nil"
    <3>1. CASE /\ mounts' = [mounts EXCEPT ![<<s, p>>].refCount = @ - 1]
               /\ guestMounts' = guestMounts /\ ~LastReference(MountAt(s, p))
      <4>1. /\ \A t \in Slots, q \in Partitions : t # s \/ q # p => MountAt(t, q)' = MountAt(t, q)
            /\ MountAt(s, p)' = [MountAt(s, p) EXCEPT !.refCount = @ - 1]
        BY <1>0, <1>4, <3>1, Zenon DEF Inv, TypeOK, MountAt
      <4>2. /\ [MountAt(s, p) EXCEPT !.refCount = @ - 1].state = MountAt(s, p).state
            /\ [MountAt(s, p) EXCEPT !.refCount = @ - 1].refCount = MountAt(s, p).refCount - 1
        BY <1>5, Zenon DEF Mount
      <4> QED  BY <3>1, <4>1, <4>2, Zenon
    <3>2. CASE /\ mounts' = [mounts EXCEPT ![<<s, p>>] = NilMount]
               /\ guestMounts' = guestMounts \ {<<s, p>>} /\ LastReference(MountAt(s, p))
               /\ \E q \in Partitions : q # p /\ MountAt(s, q).state # "nil"
      <4>1. /\ \A t \in Slots, q \in Partitions : t # s \/ q # p => MountAt(t, q)' = MountAt(t, q)
            /\ MountAt(s, p)' = NilMount
        BY <1>0, <1>4, <3>2, Zenon DEF Inv, TypeOK, MountAt
      <4>2. NilMount.state = "nil"
        BY Zenon DEF NilMount
      <4> QED  BY <3>2, <4>1, <4>2, ZenonT(40)
    <3> QED  BY <1>10, <3>1, <3>2, Zenon DEF Drops
  <2>5. ASSUME NEW t \in Slots, NEW q \in Partitions PROVE Counted(t, q)'
    <3>1. CASE t = s /\ q = p
      <4>1. PICK n : n = Cardinality(Holders(s, p))
        BY Zenon
      <4>2. n \in Nat /\ n # 0 /\ MountAt(s, p).refCount = n /\ Cardinality(Holders(s, p)') = n - 1
        BY <1>4, <1>5, <1>6, <1>gone, <2>1, <2>3, <4>1, ZenonT(40) DEF Counted
      <4>3. Holders(s, p)' = {} <=> n = 1
        <5>1. IsFiniteSet(Holders(s, p)')
          BY <1>gone, <2>1, Zenon
        <5>2. Holders(s, p)' = {} <=> Cardinality(Holders(s, p)') = 0
          BY <5>1, FS_EmptySet, Zenon
        <5> QED  BY <4>2, <5>2, SMTT(30)
      <4>4. \A i \in Holders(s, p)' : i \in Holders(s, p) /\ phase'[i] = phase[i]
        BY <1>4, <1>gone, <2>1, Zenon
      <4>5. CASE MountAt(s, p)'.state = "nil" /\ LastReference(MountAt(s, p))
        <5>1. Holders(s, p)' = {}
          BY <4>2, <4>3, <4>5, Zenon DEF LastReference
        <5> QED  BY <3>1, <4>5, <5>1, Zenon DEF Counted
      <4>6. CASE /\ MountAt(s, p)'.state = MountAt(s, p).state /\ guestMounts' = guestMounts
                 /\ MountAt(s, p)'.refCount = MountAt(s, p).refCount - 1
                 /\ ~LastReference(MountAt(s, p))
        <5>1. MountAt(s, p)'.refCount = Cardinality(Holders(s, p)')
          BY <4>2, <4>6, Zenon
        <5>2. MountAt(s, p).state = "Mounted" => Holders(s, p)' # {}
          BY <4>2, <4>3, <4>6, Zenon DEF LastReference
        <5>3. ~(NeverThawed /\ MountAt(s, p).state = "Reserved")
          BY <1>2, <1>4, <1>5, Zenon DEF NeverThawed, Counted
        <5>4. /\ MountAt(s, p).state = "Mounted" => <<s, p>> \in guestMounts
              /\ \A i \in Holders(s, p) : phase[i] = "mapped" => MountAt(s, p).state = "Mounted"
              /\ saves = 0 => \A i \in Holders(s, p) :
                                 phase[i] = "releasing" => MountAt(s, p).state # "Reserved"
          BY <1>5, Zenon DEF Counted
        <5>5. PICK m : m = MountAt(s, p)'
          BY Zenon
        <5>6. m.state = MountAt(s, p).state
          BY <4>6, <5>5, Zenon
        <5>7. Counted(s, p)'
          BY <1>2, <2>3, <4>4, <4>6, <5>1, <5>2, <5>3, <5>4, <5>5, <5>6, ZenonT(40) DEF Counted
        <5> QED  BY <3>1, <5>7, Zenon
      <4> QED  BY <2>4, <4>5, <4>6, Zenon
    <3>2. CASE t # s \/ q # p
      BY <1>gone, <1>rest, <2>1, <2>2, <2>4, <3>2, Zenon
    <3> QED  BY <3>1, <3>2, Zenon
  <2>6. ASSUME NEW t \in Slots PROVE InUse(t)'
    <3>1. CASE t # s
      <4>1. reservations'[id].slot \in {s, NoSlot}
        BY <1>gone, <2>1, Zenon
      <4> QED  BY <1>gone, <1>other, <2>1, <2>2, <2>4, <3>1, <4>1, ZenonT(40)
    <3>2. CASE t = s
      <4>1. State(s) = "Reserved" =>
               \E q \in Partitions : MountAt(s, q)'.state = "Reserved"
        <5>1. State(s) = "Reserved" => MountAt(s, p).state # "Mounted"
          <6>1. \A n \in Parts : mounts[n].state = "Mounted" => State(n[1]) = "Attached"
            BY <1>0, Zenon DEF Inv, MountedOnAttached
          <6> QED  BY <1>4, <6>1, Zenon DEF MountAt
        <5> QED  BY <1>4, <2>3, <2>4, <5>1, Zenon DEF LastReference
      <4>2. \E q \in Partitions : MountAt(s, q)'.state # "nil"
        <5>1. CASE MountAt(s, p)'.state = MountAt(s, p).state
          BY <1>4, <2>3, <5>1, Zenon
        <5>2. CASE \E q \in Partitions : q # p /\ MountAt(s, q).state # "nil"
          BY <1>4, <2>4, <5>2, Zenon
        <5> QED  BY <2>4, <5>1, <5>2, ZenonT(40)
      <4>3. State(s)' = State(s) /\ State(s) # "Detached" /\ State(s) # "Ejected"
        BY <1>5, <2>2, <2>3, Zenon DEF InUse
      <4> QED  BY <3>2, <4>1, <4>2, <4>3, Zenon DEF InUse
    <3> QED  BY <3>1, <3>2, Zenon
  <2>7. ASSUME NEW i \in Ids PROVE Entitled(i)'
    BY <1>5, <1>gone, <2>1, <2>2, ZenonT(40) DEF Entitled
  <2> QED  BY <1>0, <1>2, <2>5, <2>6, <2>7, Zenon DEF CountInv
<1>11. CASE Ejects(id, s, p)
  <2>1. /\ OnlyMount(s, p) /\ UNCHANGED <<reservations, want>>
        /\ guestMounts' = guestMounts \ {<<s, p>>}
        /\ phase'[id] = "releasing" /\ \A i \in Ids : i # id => phase'[i] = phase[i]
    BY <1>0, <1>11, ZenonT(40) DEF Ejects, Inv, TypeOK
  <2>2. /\ State(s)' = "Ejected" /\ \A t \in Slots : Path(t)' = Path(t)
        /\ \A t \in Slots : t # s => State(t)' = State(t)
    BY <1>0, <1>4, <1>11, SMTT(30) DEF Ejects, State, Path, Inv, TypeOK
  <2>3. /\ \A t \in Slots, q \in Partitions : t # s \/ q # p => MountAt(t, q)' = MountAt(t, q)
        /\ MountAt(s, p)' = NilMount
    BY <1>0, <1>4, <1>11, Zenon DEF Ejects, Inv, TypeOK, MountAt
  <2>4. \A q \in Partitions : MountAt(s, q)'.state = "nil"
    <3>1. NilMount.state = "nil"
      BY Zenon DEF NilMount
    <3> QED  BY <1>4, <2>1, <2>3, <3>1, Zenon DEF OnlyMount
  <2>5. \A t, q : Holders(t, q)' = Holders(t, q)
    BY <2>1, Zenon DEF Holders
  <2>6. /\ \A i \in Ids : reservations[i].slot = s <=> i = id
        /\ State(s) = "Attached"
    BY <1>only, <2>1, Zenon
  <2>7. ASSUME NEW t \in Slots, NEW q \in Partitions PROVE Counted(t, q)'
    <3>1. CASE t = s
      <4>1. Holders(s, q) # {} => q = p
        <5>1. q # p => MountAt(s, q).state = "nil"
          BY <2>1, Zenon DEF OnlyMount
        <5> QED  BY <1>4, <1>5, <2>6, <5>1, Zenon DEF Counted
      <4>2. \A i \in Holders(s, q)' : phase'[i] = "releasing"
        <5>1. \A i \in Holders(s, q) : i = id
          BY <2>6 DEF Holders
        <5> QED  BY <2>1, <2>5, <5>1, Zenon
      <4> QED  BY <2>2, <2>4, <3>1, <4>2, Zenon DEF Counted
    <3>2. CASE t # s
      BY <1>rest, <2>1, <2>2, <2>3, <2>5, <3>2, ZenonT(40)
    <3> QED  BY <3>1, <3>2, Zenon
  <2>8. ASSUME NEW t \in Slots PROVE InUse(t)'
    <3>1. CASE t # s
      <4>1. reservations'[id].slot \in {s, NoSlot}
        BY <1>1, <2>1, Zenon
      <4> QED  BY <1>other, <2>1, <2>2, <2>3, <3>1, <4>1, ZenonT(40)
    <3>2. CASE t = s
      BY <2>1, <2>2, <2>4, <2>6, <3>2, ZenonT(40) DEF InUse
    <3> QED  BY <3>1, <3>2, Zenon
  <2>9. ASSUME NEW i \in Ids PROVE Entitled(i)'
    <3>1. phase'[i] # "idle" => phase[i] # "idle"
      BY <1>3, <2>1, Zenon
    <3>2. \A t \in Slots : State(t)' = "nil" => State(t) = "nil"
      BY <2>2, ZenonT(40)
    <3> QED  BY <1>5, <2>1, <2>2, <3>1, <3>2, ZenonT(40) DEF Entitled
  <2> QED  BY <1>0, <1>2, <2>7, <2>8, <2>9, Zenon DEF CountInv
<1>12. CASE Frees(id, s, p)
  <2>1. Gone(id) /\ guestMounts \ {<<s, p>>} \subseteq guestMounts'
    BY <1>12, Zenon DEF Frees
  <2>2. /\ State(s)' = "nil"
        /\ \A t \in Slots : t # s => State(t)' = State(t) /\ Path(t)' = Path(t)
    BY <1>0, <1>4, <1>12, Zenon DEF Frees, State, Path, Inv, TypeOK, NilDisk
  <2>3. /\ \A t \in Slots, q \in Partitions : t # s => MountAt(t, q)' = MountAt(t, q)
        /\ \A q \in Partitions : MountAt(s, q)' = NilMount
    BY <1>4, <1>12, Zenon DEF Frees, ClearSlot, MountAt
  <2>4. \A i \in Ids : reservations[i].slot = s => i = id
    <3>1. CASE OnlyMount(s, p)
      BY <1>only, <3>1, Zenon
    <3>2. CASE State(s) = "Ejected"
      <4>1. PICK j \in Ids : \A i \in Ids : reservations[i].slot = s <=> i = j
        BY <1>5, <3>2, ZenonT(40) DEF InUse
      <4> QED  BY <1>1, <4>1, Zenon
    <3> QED  BY <1>12, <3>1, <3>2, Zenon DEF Frees
  <2>5. ASSUME NEW t \in Slots, NEW q \in Partitions PROVE Counted(t, q)'
    <3>1. CASE t = s
      <4>1. Holders(s, q)' = {}
        <5>1. \A i \in Ids : reservations'[i].slot # s
          BY <1>4, <1>7, <1>gone, <2>1, <2>4, ZenonT(40)
        <5> QED  BY <5>1 DEF Holders
      <4>2. MountAt(s, q)'.state = "nil"
        BY <2>3, SMTT(30) DEF NilMount
      <4> QED  BY <3>1, <4>1, <4>2, Zenon DEF Counted
    <3>2. CASE t # s
      BY <1>gone, <1>rest, <2>1, <2>2, <2>3, <3>2, ZenonT(40)
    <3> QED  BY <3>1, <3>2, Zenon
  <2>6. ASSUME NEW t \in Slots PROVE InUse(t)'
    <3>1. CASE t # s
      <4>1. reservations'[id].slot \in {s, NoSlot}
        BY <1>gone, <2>1, Zenon
      <4> QED  BY <1>gone, <1>other, <2>1, <2>2, <2>3, <3>1, <4>1, ZenonT(40)
    <3>2. CASE t = s
      BY <2>2, <3>2, Zenon DEF InUse
    <3> QED  BY <3>1, <3>2, Zenon
  <2>7. ASSUME NEW i \in Ids PROVE Entitled(i)'
    <3>1. CASE i = id
      BY <1>gone, <2>1, <3>1, ZenonT(40) DEF Entitled
    <3>2. CASE i # id
      <4>1. reservations[i].slot # s
        BY <2>4, <3>2, Zenon
      <4> QED  BY <1>5, <1>gone, <2>1, <2>2, <3>2, <4>1, SMTT(30) DEF Entitled
    <3> QED  BY <3>1, <3>2, Zenon
  <2> QED  BY <1>0, <1>2, <2>5, <2>6, <2>7, Zenon DEF CountInv
<1> QED  BY <1>1, <1>9, <1>10, <1>11, <1>12, ZenonT(40)

-----------------------------------------------------------------------------
\* A step that leaves the books alone, but not the freeze or the phases.
LEMMA CountSame ==
  ASSUME CountInv, Inv', UNCHANGED <<reservations, mounts, guestMounts>>,
         \A s \in Slots : State(s)' = State(s),
         \A i \in Ids : phase'[i] = phase[i] \/
           (phase[i] = "reserved" /\ phase'[i] = "releasing" /\ saves # 0),
         saves' = 0 => saves = 0, NeverThawed' => NeverThawed,
         saves' \in 0 .. MaxSaves, isMigrating' \/ side' # "source" => saves' # 0,
         \A i \in Ids : Entitled(i)'
  PROVE  CountInv'
<1>1. \A s, p : MountAt(s, p)' = MountAt(s, p) /\ Holders(s, p)' = Holders(s, p)
  BY Zenon DEF MountAt, Holders
<1>2. ASSUME NEW s \in Slots, NEW p \in Partitions PROVE Counted(s, p)'
  <2>1. PICK H, m, c : H = Holders(s, p) /\ m = MountAt(s, p) /\ c = State(s)
    BY Zenon
  <2>2. Holders(s, p)' = H /\ MountAt(s, p)' = m /\ State(s)' = c
    BY <1>1, <2>1, Zenon
  <2>3. Counted(s, p) /\ H \subseteq Ids
    BY <2>1, Zenon DEF CountInv, Holders
  <2> QED  BY <2>1, <2>2, <2>3, Zenon DEF Counted
<1>3. ASSUME NEW s \in Slots PROVE InUse(s)'
  <2>1. \A i \in Ids : phase[i] = "releasing" => phase'[i] = "releasing"
    BY Zenon
  <2>2. InUse(s)
    BY Zenon DEF CountInv
  <2> QED  BY <1>1, <2>1, <2>2, InUseSame, Zenon
<1> QED  BY <1>2, <1>3, Zenon DEF CountInv

\* No caller is on another disk when neither slots nor reservations change.
LEMMA EntitledSame ==
  ASSUME CountInv, UNCHANGED <<reservations, controllerSlots, want>>,
         \A i \in Ids : phase'[i] # "idle" => phase[i] # "idle"
  PROVE  \A i \in Ids : Entitled(i)'
BY Zenon DEF CountInv, Entitled, State, Path

\* What refuses a caller, and what only freezes or thaws the controller.
LEMMA FreezeCount ==
  ASSUME CountInv, FewFaults,
         \/ \E id \in Ids : MapRefused(id) \/ NilDereference(id)
         \/ Save \/ Resume \/ CreateDestinationVM \/ UNCHANGED vars
  PROVE  CountInv'
<1>0. Inv /\ Inv'
  <2>1. Inv /\ [Next]_vars
    BY Zenon DEF CountInv, Next
  <2> QED  BY <2>1, NextInv, Zenon
<1>1. /\ saves \in 0 .. MaxSaves /\ (isMigrating \/ side # "source" => saves # 0)
      /\ saves \in Nat /\ MaxSaves \in {0, 1}
  <2>1. MaxSaves \in Nat /\ MaxSaves <= 1
    BY ScsiAssumption, Zenon DEF FewFaults
  <2>2. MaxSaves \in {0, 1}
    BY <2>1
  <2> QED  BY <1>0, <2>2, Zenon DEF CountInv, Inv, TypeOK
<1>2. ASSUME NEW id \in Ids, MapRefused(id) PROVE CountInv'
  <2>1. /\ isMigrating /\ phase[id] = "reserved"
        /\ UNCHANGED <<reservations, mounts, guestMounts, controllerSlots, want, saves, side,
             isMigrating>>
        /\ phase'[id] = "releasing" /\ \A i \in Ids : i # id => phase'[i] = phase[i]
    BY <1>0, <1>2, Zenon DEF MapRefused, scsi, env, Inv, TypeOK
  <2>2. \A i \in Ids : phase'[i] # "idle" => phase[i] # "idle"
    BY <2>1, Zenon
  <2>3. \A i \in Ids : Entitled(i)'
    BY <2>1, <2>2, EntitledSame, Zenon
  <2>4. \A i \in Ids : phase'[i] = phase[i] \/
          (phase[i] = "reserved" /\ phase'[i] = "releasing" /\ saves # 0)
    BY <1>1, <2>1, Zenon
  <2>5. (\A s \in Slots : State(s)' = State(s)) /\ (NeverThawed' => NeverThawed)
    BY <2>1, Zenon DEF State, NeverThawed
  <2> QED  BY <1>0, <1>1, <2>1, <2>3, <2>4, <2>5, CountSame, Zenon
<1>3. CASE UNCHANGED vars \/ \E id \in Ids : NilDereference(id)
  <2>1. UNCHANGED <<reservations, mounts, guestMounts, controllerSlots, want, saves, side,
          isMigrating, phase>>
    BY <1>3, Zenon DEF vars, scsi, env, NilDereference
  <2>2. \A i \in Ids : Entitled(i)'
    BY <2>1, EntitledSame, Zenon
  <2>3. (\A s \in Slots : State(s)' = State(s)) /\ (NeverThawed' => NeverThawed)
    BY <2>1, Zenon DEF State, NeverThawed
  <2> QED  BY <1>0, <1>1, <2>1, <2>2, <2>3, CountSame, Zenon
<1>4. CASE Save
  <2>1. /\ UNCHANGED <<reservations, mounts, guestMounts, controllerSlots, want, side, phase>>
        /\ saves < MaxSaves /\ saves' = saves + 1 /\ isMigrating'
    BY <1>4, Zenon DEF Save, scsi, env
  <2>2. saves = 0 /\ saves' = 1 /\ saves' \in 0 .. MaxSaves
    BY <1>1, <2>1, SMTT(30)
  <2>3. \A i \in Ids : Entitled(i)'
    BY <2>1, EntitledSame, Zenon
  <2>4. (\A s \in Slots : State(s)' = State(s)) /\ (NeverThawed' => NeverThawed)
    BY <2>1, <2>2, Zenon DEF State, NeverThawed
  <2>5. saves' # 0
    BY <2>2
  <2> QED  BY <1>0, <2>1, <2>2, <2>3, <2>4, <2>5, CountSame, ZenonT(40)
<1>5. CASE Resume
  <2>1. /\ UNCHANGED <<reservations, mounts, guestMounts, controllerSlots, want, side, phase,
             saves>>
        /\ ~isMigrating' /\ isMigrating
    BY <1>5, Zenon DEF Resume, scsi, env
  <2>3. \A i \in Ids : Entitled(i)'
    BY <2>1, EntitledSame, Zenon
  <2>4. (\A s \in Slots : State(s)' = State(s)) /\ (NeverThawed' => NeverThawed)
    BY <2>1, Zenon DEF State, NeverThawed
  <2> QED  BY <1>0, <1>1, <2>1, <2>3, <2>4, CountSame, Zenon
<1>6. CASE CreateDestinationVM
  <2>1. /\ UNCHANGED <<reservations, mounts, guestMounts, controllerSlots, want, phase, saves,
             isMigrating>>
        /\ side = "importing" /\ side' = "destination"
    BY <1>6, Zenon DEF CreateDestinationVM, scsi
  <2>3. \A i \in Ids : Entitled(i)'
    BY <2>1, EntitledSame, Zenon
  <2>4. (\A s \in Slots : State(s)' = State(s)) /\ (NeverThawed' => NeverThawed) /\ saves' # 0
    BY <1>1, <2>1, Zenon DEF State, NeverThawed
  <2> QED  BY <1>0, <1>1, <2>1, <2>3, <2>4, CountSame, Zenon
<1> QED  BY <1>2, <1>3, <1>4, <1>5, <1>6, Zenon

\* UpdateDiskHostPath gives the disk of a slot another path.
LEMMA UpdateDiskHostPathCount ==
  ASSUME CountInv, FewFaults, NEW id \in Ids, NEW path \in Paths, UpdateDiskHostPath(id, path)
  PROVE  CountInv'
<1>0. Inv /\ Inv'
  BY UpdateDiskHostPathInv, Zenon DEF CountInv
<1>1. PICK s : s = reservations[id].slot
  BY Zenon
<1>2. /\ s # NoSlot
      /\ controllerSlots' = [controllerSlots EXCEPT ![s].path = path]
      /\ want' = [i \in Ids |-> IF reservations[i].slot = s THEN path ELSE want[i]]
      /\ UNCHANGED <<reservations, mounts, guestMounts, phase, saves, side, isMigrating>>
  BY <1>1, Zenon DEF UpdateDiskHostPath, env
<1>3. s \in Slots
  <2>1. phase[id] # "idle"
    <3>1. NoReservation.slot = NoSlot
      BY Zenon DEF NoReservation
    <3> QED  BY <1>0, <1>1, <1>2, <3>1, Zenon DEF Inv, TypeOK
  <2> QED  BY <1>0, <1>1, <2>1, Holding, Zenon
<1>4. \A t \in Slots : State(t)' = State(t) /\ Path(t)' = IF t = s THEN path ELSE Path(t)
  BY <1>0, <1>2, <1>3, ZenonT(40) DEF State, Path, Inv, TypeOK
<1>5. ASSUME NEW i \in Ids PROVE Entitled(i)'
  <2>1. Entitled(i) /\ (phase[i] # "idle" => reservations[i].slot \in Slots)
    BY <1>0, Holding, Zenon DEF CountInv
  <2>2. want'[i] = IF reservations[i].slot = s THEN path ELSE want[i]
    BY <1>2, Zenon
  <2> QED  BY <1>2, <1>4, <2>1, <2>2, Zenon DEF Entitled
<1>6. NeverThawed' = NeverThawed
  BY <1>2, Zenon DEF NeverThawed
<1>7. saves \in 0 .. MaxSaves /\ (isMigrating \/ side # "source" => saves # 0)
  BY Zenon DEF CountInv
<1> QED  BY <1>0, <1>2, <1>4, <1>5, <1>6, <1>7, CountSame, ZenonT(40)

\* Import takes the disks as attached and the mounts as mounted.
LEMMA ImportCount ==
  ASSUME CountInv, FewFaults, Import
  PROVE  CountInv'
<1>0. Inv /\ Inv'
  BY ImportInv, Zenon DEF CountInv
<1>1. /\ side = "source" /\ isMigrating /\ side' = "importing"
      /\ \A id \in Ids : phase[id] \in {"idle", "mapped"}
      /\ UNCHANGED <<isMigrating, saves, guestMounts, phase, want>>
  BY Zenon DEF Import
<1>2. /\ saved.reservations = reservations /\ saved.disks = controllerSlots /\ saved.mounts = mounts
  <2>1. saved = Snapshot
    BY <1>0, <1>1, Zenon DEF Inv, FrozenIsSnapshot
  <2> QED  BY <2>1, Zenon DEF Snapshot
<1>3. /\ reservations' = reservations
      /\ controllerSlots' = [s \in Slots |->
            IF controllerSlots[s].state = "nil" THEN NilDisk
            ELSE [controllerSlots[s] EXCEPT !.state = "Attached"]]
      /\ mounts' = [m \in Slots \X Partitions |->
            IF mounts[m].state = "nil" THEN NilMount
            ELSE [mounts[m] EXCEPT !.state = "Mounted", !.refCount = @ % RefModulus]]
  <2>1. /\ reservations' = saved.reservations
        /\ controllerSlots' = [s \in Slots |->
              IF saved.disks[s].state = "nil" THEN NilDisk
              ELSE [saved.disks[s] EXCEPT !.state = "Attached"]]
        /\ mounts' = [m \in Slots \X Partitions |->
              IF saved.mounts[m].state = "nil" THEN NilMount
              ELSE [saved.mounts[m] EXCEPT !.state = "Mounted", !.refCount = @ % RefModulus]]
    BY Zenon DEF Import
  <2> QED  BY <1>2, <2>1, Zenon
<1>4. \A s \in Slots, p \in Partitions : Counted(s, p) /\ Holders(s, p)' = Holders(s, p)
  BY <1>3, Zenon DEF CountInv, Holders
\* Every mount is that of a container that is mapped.
<1>5. ASSUME NEW s \in Slots, NEW p \in Partitions, MountAt(s, p).state # "nil"
      PROVE  /\ MountAt(s, p).state = "Mounted" /\ MountAt(s, p)'.state = "Mounted"
             /\ MountAt(s, p)'.refCount = MountAt(s, p).refCount
  <2>1. MountAt(s, p) \in Mount
    BY <1>0, Zenon DEF Inv, TypeOK, Mount, MountAt
  <2>2. MountAt(s, p).state = "Mounted"
    <3>1. Holders(s, p) # {}
      BY <1>1, <1>4, <1>5, <2>1, Zenon DEF Counted, NeverThawed, Mount, MountStates
    <3>2. PICK id \in Ids : id \in Holders(s, p)
      BY <3>1, Zenon DEF Holders
    <3>3. phase[id] # "idle"
      <4>1. reservations[id].slot = s /\ NoReservation.slot = NoSlot /\ s # NoSlot
        BY <3>2 DEF Holders, NoReservation, NoSlot, Slots
      <4> QED  BY <1>0, <4>1, ZenonT(40) DEF Inv, TypeOK
    <3> QED  BY <1>1, <1>4, <3>2, <3>3, Zenon DEF Counted
  <2>3. MountAt(s, p)' = [MountAt(s, p) EXCEPT !.state = "Mounted", !.refCount = @ % RefModulus]
    BY <1>3, <1>5, Zenon DEF MountAt
  <2>4. MountAt(s, p).refCount % RefModulus = MountAt(s, p).refCount
    <3>1. /\ MountAt(s, p).refCount \in Nat /\ MountAt(s, p).refCount < RefModulus
          /\ RefModulus \in Nat \ {0}
      <4>1. MountAt(s, p).refCount = Cardinality(Holders(s, p))
        BY <1>4, <2>2, Zenon DEF Counted
      <4>2. Cardinality(Holders(s, p)) \in Nat /\ Cardinality(Holders(s, p)) < RefModulus
        BY HoldersFinite, ZenonT(40)
      <4> QED  BY <4>1, <4>2, ScsiAssumption, Zenon
    <3> QED  BY <3>1
  <2> QED  BY <2>1, <2>2, <2>3, <2>4, Zenon DEF Mount
<1>6. ASSUME NEW s \in Slots, NEW p \in Partitions, MountAt(s, p).state = "nil"
      PROVE  MountAt(s, p)'.state = "nil"
  BY <1>3, <1>6, Zenon DEF MountAt, NilMount
<1>7. ASSUME NEW s \in Slots
      PROVE  /\ State(s) # "Ejected"
             /\ State(s)' = IF State(s) = "nil" THEN "nil" ELSE "Attached"
             /\ Path(s)' = Path(s)
  <2>1. InUse(s) /\ controllerSlots[s] \in Disk
    BY <1>0, Zenon DEF CountInv, Inv, TypeOK, Disk
  <2>2. State(s) # "Ejected"
    BY <1>1, <2>1, Zenon DEF InUse
  <2>3. CASE State(s) = "nil"
    <3>1. controllerSlots[s] = NilDisk
      BY <1>0, <2>3, ZenonT(40) DEF Inv, SlotShape, State
    <3> QED  BY <1>3, <2>2, <2>3, <3>1, Zenon DEF State, Path, NilDisk
  <2>4. CASE State(s) # "nil"
    BY <1>3, <2>1, <2>2, <2>4, Zenon DEF State, Path, Disk
  <2> QED  BY <2>3, <2>4, Zenon
<1>8. saves # 0 /\ saves' # 0 /\ ~NeverThawed'
  BY <1>1, Zenon DEF CountInv, NeverThawed
<1>9. ASSUME NEW s \in Slots, NEW p \in Partitions PROVE Counted(s, p)'
  <2>1. CASE MountAt(s, p).state = "nil"
    <3>1. Holders(s, p)' = {} /\ MountAt(s, p)'.state = "nil"
      BY <1>4, <1>6, <1>7, <2>1, Zenon DEF Counted
    <3> QED  BY <3>1, Zenon DEF Counted
  <2>2. CASE MountAt(s, p).state # "nil"
    <3>1. /\ MountAt(s, p).state = "Mounted" /\ MountAt(s, p)'.state = "Mounted"
          /\ MountAt(s, p)'.refCount = Cardinality(Holders(s, p)')
          /\ Holders(s, p)' # {} /\ <<s, p>> \in guestMounts'
      BY <1>1, <1>4, <1>5, <2>2, Zenon DEF Counted
    <3> QED  BY <1>8, <3>1, Zenon DEF Counted
  <2> QED  BY <2>1, <2>2, Zenon
<1>10. ASSUME NEW s \in Slots PROVE InUse(s)'
  <2>1. ASSUME s \notin DOMAIN Rootfs, State(s) # "nil"
        PROVE  \E p \in Partitions : MountAt(s, p).state # "nil"
    <3>1. InUse(s) /\ State(s) \in DiskStates
      BY <1>0, ZenonT(40) DEF CountInv, Inv, TypeOK, State
    <3> QED  BY <1>7, <2>1, <3>1, Zenon DEF InUse, DiskStates
  <2>2. s \notin DOMAIN Rootfs /\ State(s)' # "nil" =>
           \E p \in Partitions : MountAt(s, p)'.state # "nil"
    BY <1>5, <1>7, <2>1, Zenon
  <2> QED  BY <1>7, <2>2, Zenon DEF InUse
<1>11. ASSUME NEW i \in Ids PROVE Entitled(i)'
  <2>1. Entitled(i) /\ (phase[i] # "idle" => reservations[i].slot \in Slots)
    BY <1>0, Holding, Zenon DEF CountInv
  <2>2. ASSUME phase'[i] # "idle"
        PROVE  /\ controllerSlots'[reservations'[i].slot].state # "nil"
               /\ controllerSlots'[reservations'[i].slot].path = want'[i]
    <3>1. phase[i] # "idle" /\ reservations'[i] = reservations[i] /\ want'[i] = want[i]
      BY <1>1, <1>3, <2>2, Zenon
    <3>2. /\ reservations[i].slot \in Slots /\ State(reservations[i].slot) # "nil"
          /\ Path(reservations[i].slot) = want[i]
      BY <2>1, <3>1, Zenon DEF Entitled
    <3>3. PICK s \in Slots : s = reservations[i].slot
      BY <3>2, Zenon
    <3>4. State(s)' # "nil" /\ Path(s)' = want[i]
      BY <1>7, <3>2, <3>3, Zenon
    <3> QED  BY <3>1, <3>3, <3>4, Zenon DEF State, Path
  <2> QED  BY <2>2, Zenon DEF Entitled, State, Path
<1> QED  BY <1>0, <1>1, <1>8, <1>9, <1>10, <1>11, ZenonT(40) DEF CountInv

\* Every step of the controller keeps CountInv.
LEMMA CountStep ==
  ASSUME CountInv, FewFaults, [Next]_vars
  PROVE  CountInv'
<1>1. ASSUME NEW id \in Ids, Reserve(id) PROVE CountInv'
  BY <1>1, ReserveExistingCount, ReserveNewCount, Zenon DEF Reserve
<1>2. ASSUME NEW id \in Ids, MapToGuest(id) PROVE CountInv'
  BY <1>2, MapToGuestCount, Zenon
<1>3. ASSUME NEW id \in Ids, UnmapFromGuest(id) PROVE CountInv'
  BY <1>3, UnmapCount, Zenon
<1>4. ASSUME NEW id \in Ids, NEW path \in Paths, UpdateDiskHostPath(id, path) PROVE CountInv'
  BY <1>4, UpdateDiskHostPathCount, Zenon
<1>5. CASE Import
  BY <1>5, ImportCount, Zenon
<1>6. CASE \/ \E id \in Ids : MapRefused(id) \/ NilDereference(id)
           \/ Save \/ Resume \/ CreateDestinationVM \/ UNCHANGED vars
  BY <1>6, FreezeCount, Zenon
<1> QED  BY <1>1, <1>2, <1>3, <1>4, <1>5, <1>6, ZenonT(40) DEF Next
=============================================================================

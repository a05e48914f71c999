------------------------------ MODULE UvmScsi ------------------------------
(***************************************************************************)
(* The SCSI manager of the first-generation shim (internal/uvm/scsi): the  *)
(* attach manager puts disks into the slots of a VM, the mount manager     *)
(* mounts them in the guest, and both share one entry among the callers    *)
(* that ask for the same thing.  The first caller does the work, without   *)
(* the manager's mutex; the others wait on the entry's channel.  Both      *)
(* removals call the host and the guest with the mutex held.               *)
(*                                                                         *)
(* An entry is a heap object that outlives its place in the table, so it   *)
(* is named by the caller that created it.  Slots are numbered in the      *)
(* order in which the attach manager scans controllers and LUNs.  The      *)
(* guest is a Linux one; a Windows guest has nothing to unplug.            *)
(***************************************************************************)
EXTENDS Sequences, FiniteSetsExt, Integers

CONSTANTS
    Callers,      \* the calls to Add...Disk, each followed by one Release
    Teams,        \* the sets of them that are made in one behaviour
    Wanted,       \* what each of them asks for: the disk, the mount config
                  \* (None: no mount) and the path (None: the manager's choice)
    NumSlots,
    ReservedSlots,
    Cancellable,  \* callers whose context may be cancelled while they wait
    Faults,       \* the host and guest calls that may fail
    None, Taken

Slots == 0..(NumSlots - 1)

\* The paths mountFmt makes are numbered; callers do not ask for one of those.
Generated(i) == <<"generated", i>>

ASSUME UvmScsiAssumption ==
    /\ NumSlots \in Nat /\ ReservedSlots \subseteq Slots
    /\ IsFiniteSet(Callers) /\ None # Taken /\ {None, Taken} \cap Callers = {}
    /\ \A c \in Callers : Wanted[c].path \notin {"generated"} \X Nat
    /\ Cancellable \subseteq Callers /\ \A team \in Teams : team \subseteq Callers

VARIABLES
    slots,    \* attachManager.slots: the attachment in each slot
    atts,     \* the attachments
    mounts,   \* mountManager.mounts, with nil entries for free indexes
    mnts,     \* the mounts
    callers,  \* where each caller is, and the entries it has got
    bus,      \* the disk the VM has in each slot
    plugged,  \* the slots whose device the guest's kernel has
    guest     \* what is mounted in the guest

tables == <<slots, atts, mounts, mnts>>
world == <<bus, plugged, guest>>
vars == <<tables, callers, world>>

NoAtt == [slot |-> None, refs |-> 0, done |-> FALSE, err |-> FALSE]
NoMnt == [index |-> 0, slot |-> None, config |-> None, path |-> None, refs |-> 0,
          done |-> FALSE, err |-> FALSE]

Init ==
    /\ slots = [s \in Slots |-> IF s \in ReservedSlots THEN Taken ELSE None]
    /\ atts = [c \in Callers |-> NoAtt] /\ mnts = [c \in Callers |-> NoMnt]
    /\ mounts = <<>>
    /\ \E team \in Teams :
         callers = [c \in Callers |-> [pc |-> IF c \in team THEN "idle" ELSE "absent",
                                      att |-> None, mnt |-> None]]
    /\ bus = [s \in Slots |-> IF s \in ReservedSlots THEN Taken ELSE None]
    /\ plugged = ReservedSlots /\ guest = {}

At(c, pc) == callers[c].pc = pc
Goes(c, pc) == callers' = [callers EXCEPT ![c].pc = pc]
Slot(c) == atts[callers[c].att].slot

-----------------------------------------------------------------------------
(* The attach manager.                                                      *)

Disk(a) == Wanted[a].disk
Same(c) == {s \in Slots : slots[s] \in Callers /\ Disk(slots[s]) = Disk(c)}

\* trackAttachment: share the entry of the same disk, or take the first free
\* slot.
Attach(c) ==
    /\ At(c, "idle")
    /\ \/ \E s \in Same(c) :
            /\ atts' = [atts EXCEPT ![slots[s]].refs = @ + 1]
            /\ callers' = [callers EXCEPT ![c].pc = "awaitAttach", ![c].att = slots[s]]
            /\ UNCHANGED slots
       \/ /\ Same(c) = {}
          /\ LET free == {s \in Slots : slots[s] = None}
             IN \/ free = {} /\ Goes(c, "failed") /\ UNCHANGED <<slots, atts>>
                \/ /\ free # {}
                   /\ slots' = [slots EXCEPT ![Min(free)] = c]
                   /\ atts' = [atts EXCEPT ![c] = [NoAtt EXCEPT !.slot = Min(free), !.refs = 1]]
                   /\ callers' = [callers EXCEPT ![c].pc = "attaching", ![c].att = c]
    /\ UNCHANGED <<mounts, mnts, world>>

\* Mutant: a failed attach is not reported to the callers that wait for it.
SilentAttachFails(c) == slots' = [slots EXCEPT ![Slot(c)] = None] /\ UNCHANGED atts

AttachFails(c) ==
    /\ slots' = [slots EXCEPT ![Slot(c)] = None]
    /\ atts' = [atts EXCEPT ![c].done = TRUE, ![c].err = TRUE]

\* The first caller's call to the host returns.
HostAttach(c) ==
    /\ At(c, "attaching")
    /\ \/ /\ bus[Slot(c)] = None
          /\ bus' = [bus EXCEPT ![Slot(c)] = Disk(c)]
          /\ plugged' = plugged \cup {Slot(c)}
          /\ atts' = [atts EXCEPT ![c].done = TRUE]
          /\ Goes(c, "attached")
          /\ UNCHANGED slots
       \/ /\ "attach" \in Faults \/ bus[Slot(c)] # None
          /\ AttachFails(c)
          /\ Goes(c, "failed")
          /\ UNCHANGED <<bus, plugged>>
    /\ UNCHANGED <<mounts, mnts, guest>>

\* The others wake up.
AwaitAttach(c) ==
    /\ At(c, "awaitAttach")
    /\ atts[callers[c].att].done
    /\ Goes(c, IF atts[callers[c].att].err THEN "failed" ELSE "attached")
    /\ UNCHANGED <<tables, world>>

LastAttached(s) == atts[slots[s]].refs = 1
Dropped(s) == atts' = [atts EXCEPT ![slots[s]].refs = @ - 1]

\* detach: the last reference unplugs the device and takes the disk off the bus,
\* and the slot is free when both calls have succeeded.  No call is made with a
\* context that is done.
Detach(s, done) ==
    /\ Dropped(s)
    /\ \/ ~LastAttached(s) /\ UNCHANGED <<slots, bus, plugged>>
       \/ /\ LastAttached(s) /\ ("unplug" \in Faults \/ done)
          /\ UNCHANGED <<slots, bus, plugged>>
       \/ /\ LastAttached(s) /\ "detach" \in Faults /\ ~done
          /\ plugged' = plugged \ {s}
          /\ UNCHANGED <<slots, bus>>
       \/ /\ LastAttached(s) /\ ~done
          /\ plugged' = plugged \ {s}
          /\ bus' = [bus EXCEPT ![s] = None]
          /\ slots' = [slots EXCEPT ![s] = None]
    /\ UNCHANGED <<mounts, mnts, guest>>

-----------------------------------------------------------------------------
(* The mount manager.                                                       *)

Live == {i \in DOMAIN mounts : mounts[i] # None}
SameMount(c, i) ==
    mnts[mounts[i]].slot = Slot(c) /\ mnts[mounts[i]].config = Wanted[c].config
SamePath(c, i) == Wanted[c].path # None /\ Wanted[c].path = mnts[mounts[i]].path

\* trackMount: the first entry that is the same mount is shared, the first that
\* has the path of another refuses it; otherwise take the first free index.
Mount(c) ==
    /\ At(c, "attached")
    /\ LET hits == {i \in Live : SameMount(c, i) \/ SamePath(c, i)}
           holes == DOMAIN mounts \ Live
           i == IF holes = {} THEN Len(mounts) + 1 ELSE Min(holes)
       IN \/ /\ Wanted[c].config = None
             /\ Goes(c, "held") /\ UNCHANGED <<mounts, mnts>>
          \/ /\ Wanted[c].config # None /\ hits # {}
             /\ LET o == mounts[Min(hits)]
                IN IF SameMount(c, Min(hits))
                   THEN /\ mnts' = [mnts EXCEPT ![o].refs = @ + 1]
                        /\ callers' = [callers EXCEPT ![c].pc = "awaitMount", ![c].mnt = o]
                   ELSE Goes(c, "undo") /\ UNCHANGED mnts
             /\ UNCHANGED mounts
          \/ /\ Wanted[c].config # None /\ hits = {}
             /\ mounts' = IF holes = {} THEN Append(mounts, c) ELSE [mounts EXCEPT ![i] = c]
             /\ mnts' = [mnts EXCEPT ![c] =
                           [NoMnt EXCEPT !.index = i, !.slot = Slot(c), !.refs = 1,
                                         !.config = Wanted[c].config,
                                         !.path = IF Wanted[c].path = None THEN Generated(i)
                                                  ELSE Wanted[c].path]]
             /\ callers' = [callers EXCEPT ![c].pc = "mounting", ![c].mnt = c]
    /\ UNCHANGED <<slots, atts, world>>

Mounted(m) == [path |-> m.path, slot |-> m.slot, disk |-> bus[m.slot], config |-> m.config]

\* The guest mounts a device its kernel has, where nothing is mounted yet.
Mountable(m) == m.slot \in plugged /\ \A g \in guest : g.path # m.path

\* The first caller's call to the guest returns.
GuestMount(c) ==
    /\ At(c, "mounting")
    /\ \/ /\ Mountable(mnts[c])
          /\ guest' = guest \cup {Mounted(mnts[c])}
          /\ mnts' = [mnts EXCEPT ![c].done = TRUE]
          /\ Goes(c, "held")
          /\ UNCHANGED mounts
       \/ /\ "mount" \in Faults \/ ~Mountable(mnts[c])
          /\ mounts' = [mounts EXCEPT ![mnts[c].index] = None]
          /\ mnts' = [mnts EXCEPT ![c].done = TRUE, ![c].err = TRUE]
          /\ Goes(c, "undo")
          /\ UNCHANGED guest
    /\ UNCHANGED <<slots, atts, bus, plugged>>

AwaitMount(c) ==
    /\ At(c, "awaitMount")
    /\ mnts[callers[c].mnt].done
    /\ Goes(c, IF mnts[callers[c].mnt].err THEN "undo" ELSE "held")
    /\ UNCHANGED <<tables, world>>

\* The entry unmount works on: the first with the path, or the last of the table
\* when there is none.
Found(path) ==
    LET hits == {i \in Live : mnts[mounts[i]].path = path}
    IN mounts[IF hits = {} THEN Len(mounts) ELSE Min(hits)]

\* Mutant: the guest mount is removed with the first reference.
AnyReference(m) == TRUE
LastMounted(m) == m.refs = 1

Unmount(c) ==
    LET o == Found(mnts[callers[c].mnt].path)
        m == mnts[o]
    IN /\ mnts' = [mnts EXCEPT ![o].refs = @ - 1]
       /\ \/ ~LastMounted(m) /\ Goes(c, "detaching") /\ UNCHANGED <<mounts, guest>>
          \/ /\ LastMounted(m) /\ "unmount" \in Faults
             /\ Goes(c, "stuck") /\ UNCHANGED <<mounts, guest>>
          \/ /\ LastMounted(m)
             /\ guest' = {g \in guest : g.path # m.path}
             /\ mounts' = [mounts EXCEPT ![m.index] = None]
             /\ Goes(c, "detaching")

-----------------------------------------------------------------------------
(* The manager.                                                             *)

\* The context of a caller that waits is done.  The entry keeps the reference it
\* has counted for the caller.
GiveUp(c) ==
    /\ c \in Cancellable
    /\ callers[c].pc \in {"awaitAttach", "awaitMount"}
    /\ Goes(c, IF At(c, "awaitMount") THEN "cancelled" ELSE "failed")
    /\ UNCHANGED <<tables, world>>

\* A failed add gives its attachment back and drops the error of that.
Undo(c) ==
    /\ callers[c].pc \in {"undo", "cancelled"}
    /\ Detach(Slot(c), At(c, "cancelled"))
    /\ Goes(c, "failed")

\* Mutant: an unmount that failed does not keep the disk attached.
DetachesAnyway(c) ==
    /\ At(c, "held") \/ At(c, "stuck")
    /\ IF callers[c].mnt = None \/ At(c, "stuck")
       THEN Goes(c, "detaching") /\ UNCHANGED <<mounts, mnts, guest>> ELSE Unmount(c)
    /\ UNCHANGED <<slots, atts, bus, plugged>>

\* Mount.Release runs once; a failed unmount ends it before the detach.
Release(c) ==
    /\ At(c, "held")
    /\ IF callers[c].mnt = None THEN Goes(c, "detaching") /\ UNCHANGED <<mounts, mnts, guest>>
       ELSE Unmount(c)
    /\ UNCHANGED <<slots, atts, bus, plugged>>

ReleaseDetaches(c) == At(c, "detaching") /\ Detach(Slot(c), FALSE) /\ Goes(c, "released")

Add(c) ==
    \/ Attach(c) \/ HostAttach(c) \/ AwaitAttach(c)
    \/ Mount(c) \/ GuestMount(c) \/ AwaitMount(c) \/ GiveUp(c) \/ Undo(c)

Next == \E c \in Callers : Add(c) \/ Release(c) \/ ReleaseDetaches(c)

\* The calls that were made return, and goroutines get to run.
Running ==
    \E c \in Callers : \/ HostAttach(c) \/ AwaitAttach(c)
                       \/ Mount(c) \/ GuestMount(c) \/ AwaitMount(c) \/ Undo(c)

Spec == Init /\ [][Next]_vars /\ WF_vars(Running)

-----------------------------------------------------------------------------
(* Properties.                                                              *)

Holds(c) ==
    /\ bus[Slot(c)] = Disk(c)
    /\ callers[c].mnt # None =>
         \E g \in guest : /\ g.path = mnts[callers[c].mnt].path /\ g.slot = Slot(c)
                          /\ g.disk = Disk(c) /\ g.config = Wanted[c].config

\* The disk a Mount was asked for is in its slot, and mounted with the requested
\* config at its guest path, until it is released.
HeldIsMounted == \A c \in Callers : At(c, "held") => Holds(c)

\* remove and add undo the guest's mount before they detach, and keep the disk when
\* that fails.
MountsBacked == \A g \in guest : bus[g.slot] = g.disk

\* What AddVirtualDisk returned is there until it is released, whoever shares it,
\* fails or leaves meanwhile, and no disk is taken off the bus under a mount.
DisksServed == HeldIsMounted /\ MountsBacked

\* Every call to Add...Disk returns: whoever waits for the work of another caller
\* hears of its end, also when it fails, so that in the end no call is under way.
AddsReturn ==
    []<>(\A c \in Callers :
            callers[c].pc \notin {"attaching", "awaitAttach", "attached", "mounting", "awaitMount",
                                  "undo", "cancelled"})
=============================================================================

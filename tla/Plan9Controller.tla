-------------------------- MODULE Plan9Controller --------------------------
(***************************************************************************)
(* The Plan9 share controller of the LCOW v2 shim                          *)
(* (internal/controller/device/plan9): shares by host path, each with one  *)
(* counted guest mount.  Every operation runs under one mutex, so each is  *)
(* one action.                                                             *)
(*                                                                         *)
(* A caller reserves, maps once, and unmaps until that succeeds, which is  *)
(* what a container does (linuxcontainer/mounts.go, releaseResources).     *)
(* It gives the mount the configuration of the share.                      *)
(***************************************************************************)
EXTENDS Integers, FiniteSets

CONSTANTS
    Sharers,       \* callers
    HostPaths,
    ShareConfigs,  \* [readOnly, names]: share.Config other than the path
    noWritableFileShares,
    Plan9Faults,   \* the host and guest calls that may fail
    Names,         \* share names
    NoConfig

\* The counter of names does not run out: a name is taken by a share or by the
\* caller that has it.
ASSUME Plan9Assumption ==
    /\ Plan9Faults \subseteq {"addShare", "mountShare", "unmountShare", "removeShare"}
    /\ noWritableFileShares \in BOOLEAN
    /\ Names \subseteq Nat
    /\ IsFiniteSet(Sharers) /\ IsFiniteSet(HostPaths)
    /\ IsFiniteSet(Names) =>
          Cardinality(Names) > Cardinality(HostPaths) + Cardinality(Sharers)

VARIABLES
    sharesByHostPath, \* host path -> share and its mount
    vmShares,         \* the names of the shares the VM has
    guestShares,      \* the names of the shares the guest has mounted
    sharing           \* caller -> its reservation, and the share it was given

plan9Vars == <<sharesByHostPath, vmShares, guestShares, sharing>>

NoName == -1
NilShareMount == [state |-> "nil", refCount |-> 0]
NilShare == [state |-> "nil", name |-> NoName, config |-> NoConfig, mount |-> NilShareMount]
NotSharing == [phase |-> "idle", path |-> NoName, name |-> NoName]

Plan9Init ==
    /\ sharesByHostPath = [p \in HostPaths |-> NilShare]
    /\ vmShares = {} /\ guestShares = {}
    /\ sharing = [c \in Sharers |-> NotSharing]

\* nameCounter never returns to a value, so a name is the least that is unknown to
\* the VM, the guest, the shares and the callers.
Unused(n) ==
    /\ n \notin vmShares \cup guestShares
    /\ \A p \in HostPaths : sharesByHostPath[p].name # n
    /\ \A c \in Sharers : sharing[c].name # n

NextName == CHOOSE n \in Names : Unused(n) /\ \A k \in Names : Unused(k) => n <= k

\* share.NewReserved.
NewShare(cfg) ==
    [state |-> "Reserved", name |-> NextName, config |-> cfg, mount |-> NilShareMount]

\* Share.ReserveMount refuses a share that is going away, Mount.Reserve a mount
\* that failed.
MayReserveMount(s) ==
    s.state \in {"Reserved", "Added"} /\ s.mount.state \in {"nil", "Reserved", "Mounted"}

ReserveShareMount(s) ==
    IF s.mount = NilShareMount THEN [s EXCEPT !.mount = [state |-> "Reserved", refCount |-> 1]]
    ELSE [s EXCEPT !.mount.refCount = @ + 1]

\* A reservation that is refused leaves nothing behind.
ReserveShare(c, path, cfg) ==
    LET known == sharesByHostPath[path] # NilShare
        s == IF known THEN sharesByHostPath[path] ELSE NewShare(cfg)
    IN /\ sharing[c].phase = "idle"
       /\ cfg.readOnly \/ ~noWritableFileShares
       /\ s.config = cfg /\ MayReserveMount(s)
       /\ sharesByHostPath' = [sharesByHostPath EXCEPT ![path] = ReserveShareMount(s)]
       /\ sharing' = [sharing EXCEPT ![c] = [phase |-> "reserved", path |-> path, name |-> NoName]]
       /\ UNCHANGED <<vmShares, guestShares>>

-----------------------------------------------------------------------------
(* MapToGuest: Share.AddToVM, then Share.MountToGuest.  A caller that fails *)
(* goes on to release its reservation.                                      *)

SetShare(path, s) == sharesByHostPath' = [sharesByHostPath EXCEPT ![path] = s]
SetPhase(c, p) == sharing' = [sharing EXCEPT ![c].phase = p]

\* The share is there, invalid, gone or about to be added.
ShareAddFails(c, path, s) ==
    /\ s.state \notin {"Reserved", "Added"} \/ (s.state = "Reserved" /\ "addShare" \in Plan9Faults)
    /\ SetShare(path, IF s.state = "Reserved" THEN [s EXCEPT !.state = "Invalid"] ELSE s)
    /\ SetPhase(c, "releasing")
    /\ UNCHANGED <<vmShares, guestShares>>

ShareMountFails(c, path, s) ==
    /\ s.state \in {"Reserved", "Added"}
    /\ \/ s.mount.state = "Reserved" /\ "mountShare" \in Plan9Faults
       \/ s.mount.state \notin {"Reserved", "Mounted"}
    /\ SetShare(path, [s EXCEPT !.state = "Added",
                                !.mount.state = IF @ = "Reserved" THEN "Invalid" ELSE @])
    /\ SetPhase(c, "releasing")
    /\ vmShares' = vmShares \cup {s.name}
    /\ UNCHANGED guestShares

ShareMapped(c, path, s) ==
    /\ s.state \in {"Reserved", "Added"} /\ s.mount.state \in {"Reserved", "Mounted"}
    /\ SetShare(path, [s EXCEPT !.state = "Added", !.mount.state = "Mounted"])
    /\ sharing' = [sharing EXCEPT ![c].phase = "mapped", ![c].name = s.name]
    /\ vmShares' = vmShares \cup {s.name}
    /\ guestShares' = guestShares \cup {s.name}

MapShare(c) ==
    LET path == sharing[c].path
        s == sharesByHostPath[path]
    IN /\ sharing[c].phase = "reserved"
       /\ ShareAddFails(c, path, s) \/ ShareMountFails(c, path, s) \/ ShareMapped(c, path, s)

-----------------------------------------------------------------------------
(* UnmapFromGuest: Share.UnmountFromGuest, then Share.RemoveFromVM.         *)

\* Mutant: the mount is taken away whoever else uses it.
UnmountedAtOnce(s) == [s EXCEPT !.mount = NilShareMount]

\* The mount is dropped with its last reference.
Unmounted(s) ==
    IF s.mount.refCount <= 1 THEN [s EXCEPT !.mount = NilShareMount]
    ELSE [s EXCEPT !.mount.refCount = @ - 1]

\* The guest is asked to unmount.
Unmounts(s) == s.mount.state = "Mounted" /\ Unmounted(s).mount = NilShareMount

\* Mutant: a share that failed to be added is not removed.
RemovesAdded(s) == s.state = "Reserved" \/ (s.state = "Added" /\ s.mount = NilShareMount)

\* RemoveFromVM makes it StateRemoved: a share that was not added whatever its
\* mount, another one when it has no mount.
RemovesShare(s) == s.state = "Reserved" \/ s.mount = NilShareMount

UnmapShare(c) ==
    LET path == sharing[c].path
        s == sharesByHostPath[path]
        u == Unmounted(s)
        removes == RemovesShare(u)
        unmounted == IF Unmounts(s) THEN guestShares \ {s.name} ELSE guestShares
    IN /\ sharing[c].phase \in {"mapped", "releasing"}
       /\ \/ /\ \/ s = NilShare
                \/ Unmounts(s) /\ "unmountShare" \in Plan9Faults
             /\ SetPhase(c, "releasing")
             /\ UNCHANGED <<sharesByHostPath, vmShares, guestShares>>
          \/ /\ s.state = "Added" /\ removes /\ "removeShare" \in Plan9Faults
             /\ SetShare(path, u) /\ SetPhase(c, "releasing")
             /\ guestShares' = unmounted
             /\ UNCHANGED vmShares
          \/ /\ s # NilShare
             /\ SetShare(path, IF removes THEN NilShare ELSE u)
             /\ sharing' = [sharing EXCEPT ![c] = NotSharing]
             /\ guestShares' = unmounted
             /\ vmShares' = IF removes THEN vmShares \ {s.name} ELSE vmShares

Plan9Next ==
    \E c \in Sharers :
        \/ \E path \in HostPaths, cfg \in ShareConfigs : ReserveShare(c, path, cfg)
        \/ MapShare(c)
        \/ UnmapShare(c)

\* A caller maps what it reserved and retries a release, and the host and the
\* guest do not refuse the same call for ever.
Plan9Fairness ==
    \A c \in Sharers :
        /\ WF_plan9Vars(MapShare(c))
        /\ SF_plan9Vars(UnmapShare(c) /\ sharing'[c] = NotSharing)

-----------------------------------------------------------------------------
(* Properties.                                                              *)

\* A caller whose MapToGuest returned a guest path has its share in the VM and
\* mounted there until it calls UnmapFromGuest, whatever others do and however
\* their calls fail ("The guest unmount is issued only when it drops to zero",
\* mount.go:41).
SharesMounted ==
    \A c \in Sharers : sharing[c].phase = "mapped" => sharing[c].name \in vmShares \cap guestShares

\* The controller knows what the VM and the guest have, and keeps a share no
\* longer than some caller has a reservation on its path.
SharesTracked ==
    /\ vmShares = {sharesByHostPath[p].name : p \in
                     {q \in HostPaths : sharesByHostPath[q].state = "Added"}}
    /\ guestShares = {sharesByHostPath[p].name : p \in
                        {q \in HostPaths : sharesByHostPath[q].mount.state = "Mounted"}}
    /\ \A p \in HostPaths : sharesByHostPath[p] # NilShare => \E c \in Sharers : sharing[c].path = p

\* A caller that retries UnmapFromGuest gets its reservation released: it is not
\* releasing for ever.
SharesReleased == \A c \in Sharers : []<>(sharing[c].phase # "releasing")
=============================================================================

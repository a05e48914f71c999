---------------------------- MODULE GuestMounts ----------------------------
(***************************************************************************)
(* The mount requests of a confidential guest (internal/guest/runtime/     *)
(* hcsv2/uvm.go): SCSI disks, pmem devices, plan9 shares and overlays.     *)
(* Such a guest takes one request at a time and each request runs in a     *)
(* transaction of the policy, so a request is one action: the policy       *)
(* decides and records, HostMounts is updated, then the mount is made.     *)
(* A request that is refused changes nothing and is not an action.         *)
(*                                                                         *)
(* The policy is what framework.rego says of targets; the digests of the   *)
(* layers, which it also compares, are left out.                           *)
(***************************************************************************)
EXTENDS HostMounts

CONSTANTS
    Ids,         \* container IDs
    LayerPaths,  \* where read-only disks and pmem devices are mounted
    DiskPaths,   \* where writable disks are mounted
    SharePaths,  \* where plan9 shares are mounted
    Sources,     \* the disks
    RootOf(_),   \* container -> the path of its overlay
    Scratches(_),  \* container -> the scratch paths a request may name
    LayersOf     \* the sequences of layers a request may name

Roots == {RootOf(id) : id \in Ids}

\* Where HostMounts may have a device.
DevicePaths == LayerPaths \cup DiskPaths \cup Roots

\* The paths of the layers and of the scratch directories of overlays.
UsedPaths == LayerPaths \cup UNION {Scratches(id) : id \in Ids}

\* Each kind of mount has paths of its own, and a layer or a scratch
\* directory lies on one mount at most, never on an overlay: containers have
\* directories of their own (checkContainerSettings), and disks are mounted
\* neither on each other nor in an overlay.
ASSUME MountsAssumption ==
    /\ LayerPaths \cap DiskPaths = {} /\ (LayerPaths \cup DiskPaths) \cap SharePaths = {}
    /\ (LayerPaths \cup DiskPaths \cup SharePaths) \cap Roots = {}
    /\ NoPath \notin DevicePaths /\ \A p \in DevicePaths : Len(p) \in Nat
    /\ \A path \in UsedPaths : \A p, q \in DevicePaths :
          IsAbove(p, path) => p \notin Roots /\ (IsAbove(q, path) => p = q)
    /\ LayersOf \subseteq Seq(LayerPaths) /\ "pmem" \notin Sources

VARIABLES
    devices,   \* hostMounts.devices
    mounted,   \* path -> what the kernel has mounted there
    meta,      \* the metadata of the policy, see NoMetadata
    uvmError,  \* the guest was found to be inconsistent
    untracked  \* history: the paths of disks that HostMounts lost track of

mountVars == <<devices, mounted, meta, uvmError, untracked>>

NoMetadata == [devices |-> {}, rwDevices |-> {}, overlays |-> {}, shares |-> {},
               scratches |-> {}, matches |-> {}, started |-> {}]

MountsInit ==
    /\ devices = NoDevices
    /\ mounted = <<>>
    /\ meta = NoMetadata
    /\ uvmError = FALSE
    /\ untracked = {}

Put(f, path, what) == [p \in DOMAIN f \cup {path} |-> IF p = path THEN what ELSE f[p]]
Drop(f, path) == [p \in DOMAIN f \ {path} |-> f[p]]

\* mount_device and rw_mount_device refuse a target that is in use.
deviceMounted(path) == path \in meta.devices \cup meta.rwDevices

AllowDevice(path, ro) ==
    IF ro THEN [meta EXCEPT !.devices = @ \cup {path}] ELSE [meta EXCEPT !.rwDevices = @ \cup {path}]

DropDevice(path, ro) ==
    IF ro THEN [meta EXCEPT !.devices = @ \ {path}] ELSE [meta EXCEPT !.rwDevices = @ \ {path}]

Type(ro) == IF ro THEN "RO" ELSE "RW"

---------------------------------------------------------------------------
\* modifyMappedVirtualDisk.

\* The deferred undo of AddRODevice and AddRWDevice looks at a variable that
\* the result of scsi.Mount is never stored in: the device stays recorded
\* when the mount fails.
AddDisk(path, source, ro) ==
    /\ ~uvmError
    /\ path \in IF ro THEN LayerPaths ELSE DiskPaths
    /\ ~deviceMounted(path) /\ path \notin DOMAIN devices
    /\ devices' = doAddDevice(devices, path, Type(ro), source)
    /\ \/ /\ meta' = AllowDevice(path, ro)
          /\ mounted' = Put(mounted, path, source)
       \/ UNCHANGED <<meta, mounted>>
    /\ UNCHANGED <<uvmError, untracked>>

\* Mutant: the count of users is not looked at.
RemoveUsedDisk(path, source, ro) ==
    /\ ~uvmError
    /\ path \in IF ro THEN meta.devices ELSE meta.rwDevices
    /\ devices' = doRemoveDevice(devices, path)
    /\ meta' = DropDevice(path, ro)
    /\ mounted' = Drop(mounted, path)
    /\ UNCHANGED <<uvmError, untracked>>

\* When the unmount fails the policy and HostMounts are put back, and the
\* guest takes no more requests: whether the disk is still mounted is not
\* known.  When checkExists fails, or finds no directory, the metadata is put
\* back too, but HostMounts is not: the err it sets is not the one that the
\* deferred AddRODevice and AddRWDevice look at.
RemoveDisk(path, source, ro) ==
    /\ ~uvmError
    /\ path \in IF ro THEN meta.devices ELSE meta.rwDevices
    /\ Removable(devices, path, Type(ro), source)
    /\ \/ /\ devices' = doRemoveDevice(devices, path)
          /\ meta' = DropDevice(path, ro)
          /\ mounted' = Drop(mounted, path)
          /\ UNCHANGED <<uvmError, untracked>>
       \/ /\ uvmError' = TRUE
          /\ mounted' \in {mounted, Drop(mounted, path)}
          /\ UNCHANGED <<devices, meta, untracked>>
       \/ /\ devices' = doRemoveDevice(devices, path)
          /\ untracked' = untracked \cup {path}
          /\ UNCHANGED <<meta, mounted, uvmError>>

---------------------------------------------------------------------------
\* modifyMappedVPMemDevice, which does not use HostMounts.

AddPmem(path) ==
    /\ ~uvmError /\ path \in LayerPaths /\ ~deviceMounted(path)
    /\ meta' = AllowDevice(path, TRUE)
    /\ mounted' = Put(mounted, path, "pmem")
    /\ UNCHANGED <<devices, uvmError, untracked>>

\* pmem.Unmount unmounts what is at the path, be it a disk, and whether or
\* not HostMounts has overlays that use it.
RemovePmem(path) ==
    /\ ~uvmError /\ path \in meta.devices
    /\ \/ /\ meta' = DropDevice(path, TRUE)
          /\ mounted' = Drop(mounted, path)
          /\ untracked' = IF mounted[path] = "pmem" THEN untracked ELSE untracked \cup {path}
          /\ UNCHANGED uvmError
       \/ /\ uvmError' = TRUE
          /\ mounted' \in {mounted, Drop(mounted, path)}
          /\ UNCHANGED <<meta, untracked>>
    /\ UNCHANGED devices

---------------------------------------------------------------------------
\* modifyMappedDirectory.

AddShare(path) ==
    /\ ~uvmError /\ path \in SharePaths \ meta.shares
    /\ meta' = [meta EXCEPT !.shares = @ \cup {path}]
    /\ mounted' = Put(mounted, path, "plan9")
    /\ UNCHANGED <<devices, uvmError, untracked>>

RemoveShare(path) ==
    /\ ~uvmError /\ path \in meta.shares
    /\ \/ /\ meta' = [meta EXCEPT !.shares = @ \ {path}]
          /\ mounted' = Drop(mounted, path)
          /\ UNCHANGED uvmError
       \/ /\ uvmError' = TRUE
          /\ mounted' \in {mounted, Drop(mounted, path)}
          /\ UNCHANGED meta
    /\ UNCHANGED <<devices, untracked>>

---------------------------------------------------------------------------
\* modifyCombinedLayers.

\* mount_overlay and scratch_mount: a container has one overlay in its life
\* and a scratch directory is used once; neither is forgotten when the
\* overlay is removed.
AllowOverlay(id, scratch) ==
    [meta EXCEPT !.matches = @ \cup {id}, !.overlays = @ \cup {RootOf(id)},
                 !.scratches = IF scratch = NoPath THEN @ ELSE @ \cup {scratch}]

\* The disks the paths are on.
Disks == {p \in DOMAIN mounted \cap (LayerPaths \cup DiskPaths) : mounted[p] \in Sources}
Below(paths) ==
    {findDeviceContainingPath([p \in Disks |-> mounted[p]], paths[i]) : i \in DOMAIN paths} \ {NoPath}

\* Mutant: the metadata is rolled back and the guest goes on when an unmount
\* that has taken place reports an error.
CarriesOn(root, inUse) ==
    /\ ~uvmError /\ root \in meta.overlays /\ ~inUse
    /\ Removable(devices, root, "Overlay", root)
    /\ mounted' \in {mounted, Drop(mounted, root)}
    /\ UNCHANGED <<devices, meta, uvmError, untracked>>

\* As with a disk, a failed bind or mount leaves HostMounts changed.
AddCombinedLayers(id, layers, scratch) ==
    LET root == RootOf(id) IN
    /\ ~uvmError
    /\ id \notin meta.matches /\ root \notin meta.overlays /\ scratch \notin meta.scratches
    /\ Range(layers) \subseteq meta.devices
    /\ root \notin DOMAIN devices
    /\ devices' = AddOverlay(devices, root, layers, scratch)
    /\ \/ /\ meta' = AllowOverlay(id, scratch)
          /\ mounted' = Put(mounted, root, Below(Append(layers, scratch)))
       \/ UNCHANGED <<meta, mounted>>
    /\ UNCHANGED <<uvmError, untracked>>

RemoveCombinedLayers(root, inUse) ==
    /\ ~uvmError /\ root \in meta.overlays /\ ~inUse
    /\ Removable(devices, root, "Overlay", root)
    /\ \/ /\ devices' = RemoveOverlay(devices, root)
          /\ meta' = [meta EXCEPT !.overlays = @ \ {root}]
          /\ mounted' = Drop(mounted, root)
          /\ UNCHANGED uvmError
       \/ /\ uvmError' = TRUE
          /\ mounted' \in {mounted, Drop(mounted, root)}
          /\ UNCHANGED <<devices, meta>>
    /\ UNCHANGED untracked

ModifyMounts(inUse(_)) ==
    \/ \E path \in LayerPaths \cup DiskPaths, source \in Sources, ro \in BOOLEAN :
          AddDisk(path, source, ro) \/ RemoveDisk(path, source, ro)
    \/ \E path \in LayerPaths : AddPmem(path) \/ RemovePmem(path)
    \/ \E path \in SharePaths : AddShare(path) \/ RemoveShare(path)
    \/ \E id \in Ids, layers \in LayersOf : \E scratch \in Scratches(id) : AddCombinedLayers(id, layers, scratch)
    \/ \E id \in Ids : RemoveCombinedLayers(RootOf(id), inUse(RootOf(id)))

---------------------------------------------------------------------------
Overlays == DOMAIN mounted \cap Roots

\* The metadata the policy decides by says what is mounted in the guest, a
\* failed mount or unmount included, or the guest has stopped taking
\* requests (the rollback of WithMetadataRollback, setUVMInconsistent).
MetadataAgrees ==
    ~uvmError =>
        DOMAIN mounted = meta.devices \cup meta.rwDevices \cup meta.overlays \cup meta.shares

\* The usage of a device is the number of times the overlays refer to it.
UsageExact ==
    \A p \in DOMAIN devices :
        devices[p].usage =
            Cardinality(UNION {{<<q, i>> : i \in {j \in DOMAIN devices[q].refs : devices[q].refs[j] = p}}
                               : q \in DOMAIN devices})

\* The disks under the layers and the scratch directory of a mounted overlay
\* are not unmounted before it, whatever order the requests come in
\* (doRemoveDevice refuses a device in use), but for the disks that HostMounts
\* lost track of: one whose removal found no directory, and one that was
\* unmounted as a pmem device.  And the usage of a device is the number of
\* references of the overlays HostMounts has, so that with the last of them
\* it can be removed; an overlay whose mount failed stays among them, and
\* keeps its disks in use.
OverlayBacked ==
    /\ ~uvmError => \A root \in Overlays : mounted[root] \subseteq DOMAIN mounted \cup untracked
    /\ UsageExact
=============================================================================

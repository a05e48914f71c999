---------------------------- MODULE HostMounts -----------------------------
(***************************************************************************)
(* The record the guest agent of a confidential VM keeps of the mounts in  *)
(* it (internal/guest/runtime/hcsv2/uvm_state.go): path -> device, with    *)
(* the number of overlays that use the device.  The caller holds its lock, *)
(* so these are operators and not actions.  A path is the sequence of its  *)
(* components.  The encrypted flag of a device is left out.                *)
(***************************************************************************)
EXTENDS Naturals, Sequences, FiniteSets, Functions

NoPath == <<>>
NoDevices == <<>>

\* The mount path p is path or a directory above it.
IsAbove(p, path) == Len(p) <= Len(path) /\ \A i \in DOMAIN p : p[i] = path[i]

\* The device with the longest mount path that contains path.
findDeviceContainingPath(devices, path) ==
    LET above == {p \in DOMAIN devices : IsAbove(p, path)} IN
    IF above = {} THEN NoPath ELSE CHOOSE p \in above : \A q \in above : Len(q) <= Len(p)

doAddDevice(devices, path, ty, source) ==
    [p \in DOMAIN devices \cup {path} |->
        IF p \in DOMAIN devices THEN devices[p]
        ELSE [ty |-> ty, usage |-> 0, source |-> source, refs |-> <<>>]]

\* doRemoveDevice returns no error: there is no such device, or it is the
\* one that is meant and nothing uses it.
Removable(devices, path, ty, source) ==
    path \in DOMAIN devices =>
        /\ devices[path].source = source /\ devices[path].ty = ty
        /\ devices[path].usage = 0

doRemoveDevice(devices, path) ==
    [p \in DOMAIN devices \ {path} |-> devices[p]]

Times(refs, path) == Cardinality({i \in DOMAIN refs : refs[i] = path})

\* The devices below the layers and the scratch directory, each as often as
\* it is used; NoPath for a path that is on none.
usePath(devices, paths) ==
    [i \in DOMAIN paths |-> findDeviceContainingPath(devices, paths[i])]

\* Mutant: a device is counted once however many overlays use it.
AddOverlayOnce(devices, root, layers, scratch) ==
    LET added == doAddDevice(devices, root, "Overlay", root)
        refs == usePath(added, Append(layers, scratch))
    IN  [p \in DOMAIN added |->
           IF p = root THEN [added[p] EXCEPT !.refs = refs]
           ELSE [added[p] EXCEPT !.usage = IF Times(refs, p) > 0 THEN 1 ELSE @]]

AddOverlay(devices, root, layers, scratch) ==
    LET added == doAddDevice(devices, root, "Overlay", root)
        refs == usePath(added, Append(layers, scratch))
    IN  [p \in DOMAIN added |->
           IF p = root THEN [added[p] EXCEPT !.refs = refs]
           ELSE [added[p] EXCEPT !.usage = @ + Times(refs, p)]]

\* releaseDeviceUsage does not go below zero.
RemoveOverlay(devices, root) ==
    IF root \notin DOMAIN devices THEN devices
    ELSE LET refs == devices[root].refs
             left == doRemoveDevice(devices, root)
         IN  [p \in DOMAIN left |->
                [left[p] EXCEPT !.usage = IF @ >= Times(refs, p) THEN @ - Times(refs, p) ELSE 0]]

HasOverlayMountedAt(devices, path) ==
    path \in DOMAIN devices /\ devices[path].ty = "Overlay"
=============================================================================

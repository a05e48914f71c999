------------------------------ MODULE UvmVPMem ------------------------------
(***************************************************************************)
(* The virtual PMem devices of a v1 utility VM (internal/uvm/vpmem.go and  *)
(* vpmem_mapped.go): read-only layers, each on a device of its own, or     *)
(* packed onto devices at the offsets the memory pool gives out.  Every    *)
(* call holds the mutex of the UtilityVM, over its calls to the host and   *)
(* to the guest too, so every call is one step.                            *)
(*                                                                         *)
(* A device that holds one unpacked layer is described like a packed one,  *)
(* with one mapping at offset 0 and a pool nobody uses.                    *)
(***************************************************************************)
EXTENDS MemoryPool, Functions, TLC

CONSTANTS
    Layers, LayerSize,
    VPMemMaxCount, VPMemMaxSize,
    MaxMappedDeviceCount,  \* 1024 in the code
    PageSize,
    PmemFaults,            \* the host and guest calls that may fail
    MaxPmemFaults,         \* bound: how many of them fail in a behaviour
    MaxLayerRefs,          \* bound: each layer is added while its count is below
    Nil

Devices == 0..(VPMemMaxCount - 1)

VARIABLES
    multi,    \* vpmemMultiMapping
    pmem,     \* the devices: the pool, and the mappings of the layers
    surface,  \* what the host has mapped: device, offset and layer
    layerFS,  \* what the guest has mounted, likewise
    holders,  \* how many VPMEMMounts of each layer are not released
    orphaned, \* layers the guest has unmounted and the host failed to remove
    failed    \* how many calls have failed

pmemVars == <<multi, pmem, surface, layerFS, holders, orphaned, failed>>

PageAlign(t) == ((t + PageSize - 1) \div PageSize) * PageSize

NewDevice == [pool |-> NewPool, maps |-> <<>>]

PmemInit ==
    /\ multi \in BOOLEAN
    /\ pmem = [i \in Devices |-> Nil]
    /\ surface = {} /\ layerFS = {} /\ orphaned = {} /\ failed = 0
    /\ holders = [l \in Layers |-> 0]

Mapped(i, l) == pmem[i] # Nil /\ l \in DOMAIN pmem[i].maps
DevicesOf(l) == {i \in Devices : Mapped(i, l)}
Place(i, l) == [device |-> i, offset |-> pmem[i].maps[l].region.offset, layer |-> l]

\* A layer that is there already is counted once more.
AddKnownLayer(l) ==
    /\ DevicesOf(l) # {}
    /\ pmem[Min(DevicesOf(l))].maps[l].refs < MaxLayerRefs[l]
    /\ pmem' = [pmem EXCEPT ![Min(DevicesOf(l))].maps[l].refs = @ + 1]
    /\ holders' = [holders EXCEPT ![l] = @ + 1]
    /\ UNCHANGED <<multi, surface, layerFS, orphaned, failed>>

\* The host knows a mapping by its device and offset.
Vacant(at) == \A m \in surface : <<m.device, m.offset>> # <<at.device, at.offset>>

Fails(call) ==
    call \in PmemFaults /\ failed < MaxPmemFaults /\ failed' = failed + 1

\* modify with an Add: the host, then the guest; the host's part is undone when
\* the guest's fails, and stays when undoing it ("rollback") fails as well.
AddModified(at) ==
    /\ Vacant(at)
    /\ surface' = surface \cup {at} /\ layerFS' = layerFS \cup {at}
    /\ UNCHANGED failed

AddRefused(at) ==
    /\ \/ ~Vacant(at) /\ UNCHANGED <<surface, failed>>
       \/ (Fails("hostAdd") \/ Fails("guestAdd")) /\ UNCHANGED surface
       \/ Fails("rollback") /\ Vacant(at) /\ surface' = surface \cup {at}
    /\ UNCHANGED layerFS

Mapping(r) == [region |-> r, refs |-> 1]

AddVPMemDefault(l) ==
    LET free == {i \in Devices : pmem[i] = Nil}
        at == [device |-> Min(free), offset |-> 0, layer |-> l]
        maps == l :> Mapping(Region(Largest, 0))
    IN /\ ~multi /\ DevicesOf(l) = {}
       /\ LayerSize[l] <= VPMemMaxSize
       /\ free # {}
       /\ \/ /\ AddModified(at)
             /\ pmem' = [pmem EXCEPT ![at.device] = [NewDevice EXCEPT !.maps = maps]]
             /\ holders' = [holders EXCEPT ![l] = @ + 1]
          \/ AddRefused(at) /\ UNCHANGED <<pmem, holders>>
       /\ UNCHANGED <<multi, orphaned>>

Opened(i) == IF pmem[i] = Nil THEN NewDevice ELSE pmem[i]

Accepts(i, size) ==
    /\ Cardinality(DOMAIN Opened(i).maps) < MaxMappedDeviceCount
    /\ CanAllocate(Opened(i).pool, size)

\* allocateNextVPMemMappedDeviceLocation opens the devices it looks at, and takes
\* the first that accepts the layer.  A call that fails gives the region back.
AddVPMemMappedDevice(l) ==
    LET size == PageAlign(LayerSize[l])
        fits == {i \in Devices : Accepts(i, size)}
        opened(last) == [i \in Devices |-> IF i <= last THEN Opened(i) ELSE pmem[i]]
    IN /\ multi /\ DevicesOf(l) = {}
       /\ \/ /\ fits = {}
             /\ pmem' = opened(VPMemMaxCount - 1)
             /\ UNCHANGED <<surface, layerFS, holders, failed>>
          \/ /\ fits # {}
             /\ LET i == Min(fits)
                    got == Allocate(Opened(i).pool, size)
                    at == [device |-> i, offset |-> got.region.offset, layer |-> l]
                IN \/ /\ AddModified(at)
                      /\ pmem' = [opened(i) EXCEPT
                                    ![i].pool = got.pool,
                                    ![i].maps = @ @@ l :> Mapping(got.region)]
                      /\ holders' = [holders EXCEPT ![l] = @ + 1]
                   \/ /\ AddRefused(at)
                      /\ pmem' = [opened(i) EXCEPT
                                    ![i].pool = ReleaseRegion(got.pool, got.region)]
                      /\ UNCHANGED holders
       /\ UNCHANGED <<multi, orphaned>>

LastLayerRef(i, l) == pmem[i].maps[l].refs = 1

\* The region of a packed layer is free again, and a device without layers is
\* forgotten.
Unmapped(i, l) ==
    LET d == [pool |-> ReleaseRegion(pmem[i].pool, pmem[i].maps[l].region),
              maps |-> Restrict(pmem[i].maps, DOMAIN pmem[i].maps \ {l})]
    IN IF DOMAIN d.maps = {} THEN Nil ELSE d

\* VPMEMMount.Release.  Its caller drops the mount whatever the outcome.  modify
\* with a Remove: the guest, then the host.
RemoveVPMem(l) ==
    /\ holders[l] > 0
    /\ holders' = [holders EXCEPT ![l] = @ - 1]
    /\ LET i == Min(DevicesOf(l))
       IN \/ /\ ~LastLayerRef(i, l)
             /\ pmem' = [pmem EXCEPT ![i].maps[l].refs = @ - 1]
             /\ UNCHANGED <<surface, layerFS, orphaned, failed>>
          \/ /\ LastLayerRef(i, l) /\ Fails("guestRemove")
             /\ UNCHANGED <<pmem, surface, layerFS, orphaned>>
          \/ /\ LastLayerRef(i, l) /\ Fails("hostRemove")
             /\ layerFS' = layerFS \ {Place(i, l)}
             /\ orphaned' = orphaned \cup {l}
             /\ UNCHANGED <<pmem, surface>>
          \/ /\ LastLayerRef(i, l)
             /\ layerFS' = layerFS \ {Place(i, l)} /\ surface' = surface \ {Place(i, l)}
             /\ pmem' = [pmem EXCEPT ![i] = Unmapped(i, l)]
             /\ orphaned' = orphaned \ {l}
             /\ UNCHANGED failed
    /\ UNCHANGED multi

PmemNext ==
    \E l \in Layers :
        AddKnownLayer(l) \/ AddVPMemDefault(l) \/ AddVPMemMappedDevice(l) \/ RemoveVPMem(l)

-----------------------------------------------------------------------------
(* Properties.                                                              *)

Span(r) == r.offset..(r.offset + GetMemoryClassSize(r.class) - 1)
LayerRegion(i, l) == pmem[i].maps[l].region

\* However layers came and went, the packed ones of a device do not overlap, and
\* each has room for its size, within the device.
LayersApart ==
    \A i \in Devices, l \in Layers : multi /\ Mapped(i, l) =>
        /\ PageAlign(LayerSize[l]) <= GetMemoryClassSize(LayerRegion(i, l).class)
        /\ Span(LayerRegion(i, l)) \subseteq Span(Region(Largest, 0))
        /\ \A k \in Layers \ {l} :
             Mapped(i, k) => Span(LayerRegion(i, l)) \cap Span(LayerRegion(i, k)) = {}

\* No space is lost: while an aligned block of a class holds no layer, the pool
\* finds a region for a request of that class, since releasing merges regions and
\* failed calls give theirs back.
RoomIsFound ==
    \A i \in Devices, c \in Classes :
        LET used == UNION {Span(LayerRegion(i, l)) : l \in DOMAIN pmem[i].maps}
            blocks == {Region(c, k * GetMemoryClassSize(c)) : k \in 0..(4^(Largest - c) - 1)}
        IN multi /\ pmem[i] # Nil /\ (\E b \in blocks : Span(b) \cap used = {})
               => NextClass(pmem[i].pool, c) # NumClasses

\* The pool of every device is packed soundly and loses no space.
LayersPacked == LayersApart /\ RoomIsFound

\* A layer somebody holds is mapped by the host and mounted by the guest where
\* its VPMEMMount says, unless a removal failed half-way before it was added
\* again (the comment on removeVPMemMappedDevice describes that case).
LayersServed ==
    \A l \in Layers : holders[l] > 0 =>
        /\ DevicesOf(l) # {}
        /\ LET at == Place(Min(DevicesOf(l)), l)
           IN at \in surface /\ (at \in layerFS \/ l \in orphaned)
=============================================================================

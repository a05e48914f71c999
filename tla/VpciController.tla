--------------------------- MODULE VpciController ---------------------------
(***************************************************************************)
(* The vPCI device controller of the v2 shims                              *)
(* (internal/controller/device/vpci).  Every operation runs under one      *)
(* mutex, so each is one action.  A GUID is a number.                      *)
(*                                                                         *)
(* A caller reserves, adds, and removes until that succeeds, which is what *)
(* a container does (linuxcontainer/devices.go, releaseResources).  Two    *)
(* callers of one device have the same GUID.                               *)
(***************************************************************************)
EXTENDS Integers, FiniteSets

CONSTANTS
    Assigners,     \* callers
    PciDevices,    \* [DeviceInstanceID, VirtualFunctionIndex]
    VpciFaults,    \* the host and guest calls that may fail
    MaxGuids       \* bound: GUIDs made

Guids == 1 .. MaxGuids
NoGuid == 0

ASSUME VpciAssumption ==
    /\ IsFiniteSet(Assigners) /\ MaxGuids \in Nat
    /\ VpciFaults \subseteq {"addDevice", "waitDevice", "removeDevice"}

VARIABLES
    vpciDevices,   \* GUID -> deviceInfo
    deviceToGUID,  \* device -> GUID
    vmDevices,     \* the GUIDs the VM has a device for
    readyDevices,  \* the GUIDs whose device the guest has reported
    assigning      \* caller -> its GUID

vpciVars == <<vpciDevices, deviceToGUID, vmDevices, readyDevices, assigning>>

Untracked == [state |-> "nil", refCount |-> 0]
NotAssigning == [phase |-> "idle", guid |-> NoGuid]

VpciInit ==
    /\ vpciDevices = [g \in Guids |-> Untracked]
    /\ deviceToGUID = [d \in PciDevices |-> NoGuid]
    /\ vmDevices = {} /\ readyDevices = {}
    /\ assigning = [c \in Assigners |-> NotAssigning]

\* guid.NewV4: one that nobody has.
Fresh(g) ==
    /\ vpciDevices[g] = Untracked
    /\ \A c \in Assigners : assigning[c].guid # g

ReserveDevice(c, d) ==
    /\ assigning[c].phase = "idle"
    /\ \E g \in Guids :
          /\ IF deviceToGUID[d] # NoGuid
             THEN g = deviceToGUID[d] /\ UNCHANGED <<vpciDevices, deviceToGUID>>
             ELSE /\ Fresh(g) /\ \A h \in Guids : Fresh(h) => g <= h
                  /\ vpciDevices' = [vpciDevices EXCEPT ![g] = [state |-> "Reserved", refCount |-> 0]]
                  /\ deviceToGUID' = [deviceToGUID EXCEPT ![d] = g]
          /\ assigning' = [assigning EXCEPT ![c] = [phase |-> "reserved", guid |-> g]]
    /\ UNCHANGED <<vmDevices, readyDevices>>

\* What AddToVM makes of the device: ready, in the VM only, or neither.
DeviceReady(c, g) ==
    /\ vpciDevices[g].state \in {"Reserved", "Ready"}
    /\ vpciDevices' = [vpciDevices EXCEPT ![g] = [state |-> "Ready", refCount |-> @.refCount + 1]]
    /\ vmDevices' = vmDevices \cup {g} /\ readyDevices' = readyDevices \cup {g}
    /\ assigning' = [assigning EXCEPT ![c].phase = "assigned"]

DeviceFails(c, g) ==
    /\ \/ /\ vpciDevices[g].state = "Reserved" /\ "addDevice" \in VpciFaults
          /\ vpciDevices' = [vpciDevices EXCEPT ![g].state = "Removed"]
          /\ UNCHANGED vmDevices
       \/ /\ vpciDevices[g].state = "Reserved" /\ "waitDevice" \in VpciFaults
          /\ vpciDevices' = [vpciDevices EXCEPT ![g].state = "AssignedInvalid"]
          /\ vmDevices' = vmDevices \cup {g}
       \/ /\ vpciDevices[g].state \notin {"Reserved", "Ready"}
          /\ UNCHANGED <<vpciDevices, vmDevices>>
    /\ assigning' = [assigning EXCEPT ![c].phase = "releasing"]
    /\ UNCHANGED readyDevices

AddToVM(c) ==
    /\ assigning[c].phase = "reserved"
    /\ DeviceReady(c, assigning[c].guid) \/ DeviceFails(c, assigning[c].guid)
    /\ UNCHANGED deviceToGUID

untrack(g) ==
    /\ vpciDevices' = [vpciDevices EXCEPT ![g] = Untracked]
    /\ deviceToGUID' = [d \in PciDevices |-> IF deviceToGUID[d] = g THEN NoGuid ELSE deviceToGUID[d]]

\* Mutant: a shared device is removed with the first reference.
NotShared(v) == TRUE

LastOfDevice(v) == v.state # "Ready" \/ v.refCount <= 1

RemoveReleases(c, g) ==
    /\ vpciDevices[g] # Untracked
    /\ IF LastOfDevice(vpciDevices[g])
       THEN untrack(g) /\ vmDevices' = vmDevices \ {g} /\ readyDevices' = readyDevices \ {g}
       ELSE /\ vpciDevices' = [vpciDevices EXCEPT ![g].refCount = @ - 1]
            /\ UNCHANGED <<deviceToGUID, vmDevices, readyDevices>>
    /\ assigning' = [assigning EXCEPT ![c] = NotAssigning]

\* A device that another caller of the same GUID has removed is not found; one
\* the host fails to remove is kept for a retry.
RemoveFails(c, g) ==
    /\ \/ vpciDevices[g] = Untracked /\ UNCHANGED vpciDevices
       \/ /\ g \in vmDevices /\ LastOfDevice(vpciDevices[g]) /\ "removeDevice" \in VpciFaults
          /\ vpciDevices' = [vpciDevices EXCEPT ![g] = [state |-> "AssignedInvalid", refCount |-> 0]]
    /\ assigning' = [assigning EXCEPT ![c].phase = "releasing"]
    /\ UNCHANGED <<deviceToGUID, vmDevices, readyDevices>>

RemoveFromVM(c) ==
    /\ assigning[c].phase \in {"assigned", "releasing"}
    /\ RemoveReleases(c, assigning[c].guid) \/ RemoveFails(c, assigning[c].guid)

VpciNext ==
    \E c \in Assigners :
        (\E d \in PciDevices : ReserveDevice(c, d)) \/ AddToVM(c) \/ RemoveFromVM(c)

-----------------------------------------------------------------------------
(* Properties.                                                              *)

\* A caller whose AddToVM succeeded has the device in the VM and ready in the
\* guest until it calls RemoveFromVM, although a caller whose AddToVM failed
\* releases the same GUID.
DevicesReady ==
    \A c \in Assigners :
        assigning[c].phase = "assigned" => assigning[c].guid \in vmDevices \cap readyDevices

\* The devices the VM has are those the controller tracks as assigned, each is
\* found under its device, and no more than one reference is counted per caller.
DevicesTracked ==
    /\ vmDevices = {g \in Guids : vpciDevices[g].state \in {"Ready", "AssignedInvalid"}}
    /\ {g \in Guids : vpciDevices[g] # Untracked} = {deviceToGUID[d] : d \in PciDevices} \ {NoGuid}
    /\ \A g \in Guids : vpciDevices[g].refCount =
          Cardinality({c \in Assigners : assigning[c] = [phase |-> "assigned", guid |-> g]})
=============================================================================

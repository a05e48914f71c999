----------------------------- MODULE VmDevices -----------------------------
(***************************************************************************)
(* The device controllers a v2 shim keeps for its VM                       *)
(* (internal/controller/vm/vm_devices.go): SCSI disks, Plan9 shares, vPCI  *)
(* devices and the NICs of a pod.  Each has a mutex of its own and none    *)
(* reads the state of another: their steps commute, so a behaviour uses    *)
(* one of the four.                                                        *)
(***************************************************************************)
EXTENDS ScsiController, Plan9Controller, VpciController, NetworkController

VARIABLE used

deviceVars == <<vars, plan9Vars, vpciVars, netVars, used>>

DevicesInit ==
    /\ used \in {"scsi", "plan9", "vpci", "network"}
    /\ Init /\ Plan9Init /\ VpciInit /\ NetworkInit
    /\ used # "network" => supported

DevicesNext ==
    \/ used = "scsi" /\ Next /\ UNCHANGED <<plan9Vars, vpciVars, netVars, used>>
    \/ used = "plan9" /\ Plan9Next /\ UNCHANGED <<vars, vpciVars, netVars, used>>
    \/ used = "vpci" /\ VpciNext /\ UNCHANGED <<vars, plan9Vars, netVars, used>>
    \/ used = "network" /\ NetworkNext /\ UNCHANGED <<vars, plan9Vars, vpciVars, used>>

DevicesSpec ==
    DevicesInit /\ [][DevicesNext]_deviceVars /\ Fairness /\ Plan9Fairness /\ NetworkFairness

-----------------------------------------------------------------------------
(* Properties.                                                              *)

\* What a container was given stays usable until it starts to release it: its
\* disk attached and mounted, its share mounted, its device ready, whatever
\* other containers reserve, fail to get, release or fail to release.  A pod has
\* the NICs of its namespace, before a migration and after it.
DevicesServed == MappedIsLive /\ SharesMounted /\ DevicesReady /\ NicsWired

\* What the VM and the guest have is known to a controller, which counts one
\* reference for each caller, and a slot or a share nobody has a reservation
\* on is free again.
DevicesReclaimed == RefCountsMatch /\ SlotsReclaimed /\ SharesTracked /\ DevicesTracked /\ NicsTracked

\* A container that retries the release of its disks and shares gets rid of
\* them, and so does a pod with its NICs.  A device is not among them: see
\* RemoveFails.
DevicesReleased == Released /\ SharesReleased /\ NetworkReleased
=============================================================================

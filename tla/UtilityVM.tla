----------------------------- MODULE UtilityVM -----------------------------
(***************************************************************************)
(* The resources a v1 utility VM (internal/uvm) is given while it runs:    *)
(* disks and their mounts, layers on virtual PMem, shares and devices; and *)
(* the containers that hold them.  The SCSI manager has mutexes of its     *)
(* own, the others share the mutex of the UtilityVM, and no call of one    *)
(* reads the state of another: their steps commute, so a behaviour uses    *)
(* one of the three, or creates containers, which takes each of them for   *)
(* what it promises.                                                       *)
(***************************************************************************)
EXTENDS UvmScsi, UvmVPMem, UvmShares, ContainerCreation

VARIABLE used

uvmVars == <<vars, pmemVars, shareVars, creationVars, used>>

UvmInit ==
    /\ used \in {"scsi", "vpmem", "shares", "containers"}
    /\ Init /\ PmemInit /\ SharesInit /\ CreationInit
    /\ used = "scsi" <=> \E c \in Callers : callers[c].pc # "absent"
    /\ used # "vpmem" => ~multi
    /\ used = "containers" <=> \E c \in Containers : making[c].phase # "none"

UvmNext ==
    \/ used = "scsi" /\ Next /\ UNCHANGED <<pmemVars, shareVars, creationVars, used>>
    \/ used = "vpmem" /\ PmemNext /\ UNCHANGED <<vars, shareVars, creationVars, used>>
    \/ used = "shares" /\ SharesNext /\ UNCHANGED <<vars, pmemVars, creationVars, used>>
    \/ used = "containers" /\ CreationNext /\ UNCHANGED <<vars, pmemVars, shareVars, used>>

UvmSpec == UvmInit /\ [][UvmNext]_uvmVars /\ WF_vars(Running)

-----------------------------------------------------------------------------
(* Properties.                                                              *)

\* A container's layers, shares, devices and block CIMs are in the VM until it
\* releases them, whatever other containers add, fail to add, release or fail to
\* release.
ResourcesServed == LayersServed /\ SharesServed /\ CimsServed
=============================================================================

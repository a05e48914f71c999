------------------------------- MODULE MCScsi -------------------------------
(* Instances of ScsiController for TLC.                                      *)
EXTENDS ScsiController, TLC

(* The VM was booted from one disk, in the first slot.                       *)
RootInFirstSlot == 0 :> "rootfs.vhd"

IdSymmetry == Permutations(Ids)
=============================================================================

---------------------------- MODULE MCVmDevices ----------------------------
(* Instances of VmDevices for TLC.                                          *)
EXTENDS VmDevices, MCScsi

\* A directory, shared read-only or not.
Directory == {[readOnly |-> r, names |-> {}] : r \in BOOLEAN}
=============================================================================

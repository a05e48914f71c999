---------------------------- MODULE MCContainer ----------------------------
(* A model-checking instance of Container: two layers, a disk, a Plan9      *)
(* share and a device.                                                      *)
EXTENDS Container

CONSTANTS l1, l2, m1, m2, v1

TwoLayers == <<l1, l2>>
OneDisk == <<m1>>
OneShare == <<m2>>
OneDevice == <<v1>>
=============================================================================

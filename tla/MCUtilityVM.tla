---------------------------- MODULE MCUtilityVM ----------------------------
(* An instance of UtilityVM.  A size of 2 is a page, 4 the smallest region, *)
(* and a device has the 64 of a region of the third class; the layers are   *)
(* an empty one, some at and around the bounds of the classes, and one that *)
(* is too large for a device.  One container of each kind is created, with  *)
(* nothing optional, with all of it or with all but one, or two on a CIM.   *)
EXTENDS UtilityVM, MCUvmScsi

CONSTANTS l0, l1, l2, l3, l4, l5, d1, d2, f1, f2

Sizes == l0 :> 0 @@ l1 :> 3 @@ l2 :> 4 @@ l3 :> 16 @@ l4 :> 17 @@ l5 :> 65

\* Two of the layers are used by more than one container.
LayerRefs == [l \in Layers |-> IF l \in {l1, l3} THEN 2 ELSE 1]

SharersOrNone == Sharers \cup {{}}

\* Two files of a directory, the directory itself, and another, mapped directly.
Paths ==
    {[dir |-> d1, file |-> f, readOnly |-> TRUE, noDirectMap |-> TRUE] : f \in {f1, f2, NoFile}}
        \cup {[dir |-> d2, file |-> NoFile, readOnly |-> FALSE, noDirectMap |-> n] : n \in BOOLEAN}

Shape(k, isSandbox, w) == [kind |-> k, sandbox |-> isSandbox, wants |-> w]
NoContainer == Shape("none", FALSE, {})
Wants == {{}} \cup {Optional \ {w} : w \in Optional \cup {"none"}}

OneOrTwo ==
    {c1 :> Shape(k, s, w) @@ c2 :> NoContainer :
        k \in {"lcow", "wcow", "wcowCim", "argon", "argonCim"}, s \in BOOLEAN, w \in Wants}
    \cup {[c \in Containers |-> x] : x \in {NoContainer, Shape("wcowCim", FALSE, {})}}
=============================================================================

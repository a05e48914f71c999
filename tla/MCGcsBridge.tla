---------------------------- MODULE MCGcsBridge ----------------------------
(* Model-checking instances of GcsBridge: one wait, and at most one         *)
(* container, which is opened before its process.                           *)
EXTENDS GcsBridge

MCWaitID == [c \in Waits |-> 1]
MCOpening ==
    (IF Containers = {} THEN <<>> ELSE <<CHOOSE k \in Containers : TRUE>>)
        \o <<CHOOSE c \in Waits : TRUE>>
=============================================================================

----------------------------- MODULE MCShimHost -----------------------------
(* Instances of ShimHost for TLC.                                           *)
EXTENDS ShimHost

CONSTANTS sb, w, e, vm, init

\* A pod with a workload, or a single task with an exec.
MCUsed(k) == IF k.pod THEN {sb, w} ELSE {sb, e}
MCExecOf == [x \in {e} |-> sb]

\* A pod with a sandbox container in a VM is the largest: it has fewer faults,
\* and its VM forwards no logs.
Largest(k) == k.pod /\ k.vm /\ ~k.fake
MCKinds == {k \in AllKinds : Largest(k) => ~k.logs}
MCFaults(k) ==
    IF Largest(k) THEN {"publish", "wait", "stuck"}
    ELSE {"publish", "start", "process", "wait", "shutdown", "terminate", "release", "stuck"}

\* A system and a process in it.
MCSystemOf == [x \in {init} |-> vm]
=============================================================================

---------------------------- MODULE MCGuestHost ----------------------------
(***************************************************************************)
(* Instances of GuestHost: a pod whose workload container is created       *)
(* twice, and two containers over shared layers in a confidential guest.   *)
(***************************************************************************)
EXTENDS GuestHost, TLC

CONSTANTS s, c, x, s1, s2, c1, c2, x1, e1, w1, w2, w3, n1, n2

\* A pod with a workload container, and a container outside of any pod.
PodIdOf == (s1 :> s) @@ (s2 :> s) @@ (c1 :> c) @@ (c2 :> c) @@ (x1 :> x)
PodKind(id) == CASE id = s -> "sandbox" [] id = c -> "container" [] id = x -> "standalone"
PodSandbox(id) == IF id = x THEN x ELSE s
PodExecOf == (e1 :> x1)
PodWaits == (w1 :> x1) @@ (w2 :> x1) @@ (w3 :> e1)
NoRoot(id) == <<id>>
NoScratches(id) == {}

\* The pod is created again, the workload container is, the network is set
\* up meanwhile, processes are waited for.
PodScenarios == {{s1, s2, c1}, {s1, c1, c2}, {s1, s2, n1, n2}, {x1, e1, w1, w2, w3}}

\* The confidential guest: containers that use no pod.
OneIdOf == (s1 :> s)
OneScenario == {{s1}}
LoneKind(id) == "standalone"
LoneSandbox(id) == id
NoExecs == [e \in {} |-> s1]
NoWaits == [w \in {} |-> s1]
Root(id) == <<"c", id, "rootfs">>
ScratchPaths(id) == IF id = s THEN {<<"c", s, "scratch", s>>} ELSE {NoPath, <<"c", s, "scratch", c>>}
Layer1 == <<"m", "1">>
Layer2 == <<"m", "2">>
TwoLayers == {Layer1, Layer2}
Disk == {<<"c", s>>}
Share == {<<"c", s, "share">>}
LayerLists == {<<Layer1, Layer2>>}

\* HostMounts loses track of one disk at most, and once it has, the run goes
\* on without shares, errors and containers.  A container only keeps its overlay
\* from being removed, so the mounts get nowhere with one that they do not
\* without.
LostBound ==
    untracked # {} =>
        /\ Cardinality(untracked) = 1 /\ meta.shares = {} /\ ~uvmError
        /\ \A o \in Objs : objs[o] = NoObject
=============================================================================

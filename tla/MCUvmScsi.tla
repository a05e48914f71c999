----------------------------- MODULE MCUvmScsi -----------------------------
(* An instance of UvmScsi: two callers that want the same mount of a disk,  *)
(* one of them at a path; a third that wants the disk with another config   *)
(* at that path; a fourth that wants another disk, mounted like the first.  *)
(* A fifth wants the first disk without a mount.                            *)
EXTENDS UvmScsi, TLC

CONSTANTS c1, c2, c3, c4, c5, a, b, fs, raw, spot

Requests ==
    c1 :> [disk |-> a, config |-> fs, path |-> spot]
    @@ c2 :> [disk |-> a, config |-> fs, path |-> None]
    @@ c3 :> [disk |-> a, config |-> raw, path |-> spot]
    @@ c4 :> [disk |-> b, config |-> fs, path |-> None]
    @@ c5 :> [disk |-> a, config |-> None, path |-> None]

Sharers == {{c1, c2, c3, c4}, {c1, c4, c5}}
=============================================================================

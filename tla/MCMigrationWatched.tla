------------------------- MODULE MCMigrationWatched -------------------------
(* Model-checking instance of MigrationWatched: the symmetry of pods,        *)
(* drivers, cancelling threads and subscribers, which no action tells apart. *)
EXTENDS MigrationWatched, TLC

Symmetry ==
    Permutations(Pods) \cup Permutations(Drivers) \cup Permutations(Cancellers)
    \cup Permutations(Subscribers)
=============================================================================

-------------------------- MODULE MCSnapshotStore --------------------------
(* Bounds for the runs of SnapshotStore. *)
EXTENDS SnapshotStore, TLC

CONSTANTS p1, p2

TwoPruners == {p1, p2}
OnePruner == {p1}

Symmetry == Permutations(Pruners)
=============================================================================

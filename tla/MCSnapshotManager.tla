------------------------- MODULE MCSnapshotManager -------------------------
(* SnapshotManager for TLC: callers are interchangeable.                    *)
EXTENDS SnapshotManager

Symmetry == Permutations(Callers)
=============================================================================

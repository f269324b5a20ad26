-------------------------- MODULE MCSnapshotEvents --------------------------
(* Small instances of SnapshotEvents. *)
EXTENDS SnapshotEvents, TLC
CONSTANTS modelA, modelB

Symmetry == Permutations({modelA, modelB})
=============================================================================

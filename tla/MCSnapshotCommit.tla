--------------------------- MODULE MCSnapshotCommit ---------------------------
(* Instances of SnapshotCommit for TLC. *)
EXTENDS SnapshotCommit, TLC

CONSTANTS p1, p2

MCProc == {p1, p2}
MCSymmetry == Permutations(MCProc)
=============================================================================

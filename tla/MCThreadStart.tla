--------------------------- MODULE MCThreadStart ----------------------------
(* Instances of ThreadStart for TLC. *)
EXTENDS ThreadStart, TLC

(* Processes, and paths, are alike. *)
ProcSymmetry == Permutations(Proc)
PathSymmetry == Permutations(Path)
=============================================================================

----------------------------- MODULE MCMemory -----------------------------
(* Memory for TLC. *)
EXTENDS Memory, TLC

Symmetry == Permutations(Callers) \cup Permutations(Dirs) \cup Permutations(Slots)
=============================================================================

----------------------------- MODULE MCProcess -----------------------------
(* Process for TLC. *)
EXTENDS Process, TLC

Symmetry == Permutations(Acts)
=============================================================================

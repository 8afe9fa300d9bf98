----------------------------- MODULE MCRecovery -----------------------------
(* Small instance of Recovery for TLC.                                      *)
EXTENDS Recovery, TLC

Symmetry == Permutations(Requests) \cup Permutations(Tokens)
=============================================================================

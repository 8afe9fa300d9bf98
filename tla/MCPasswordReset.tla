-------------------------- MODULE MCPasswordReset --------------------------
(* Small instance of PasswordReset for TLC.                                 *)
EXTENDS PasswordReset, TLC

Symmetry == Permutations(Requests) \cup Permutations(Tokens)
=============================================================================

------------------------------ MODULE MCSignIn ------------------------------
(* Small instance of SignIn for TLC.                                        *)
EXTENDS SignIn, TLC

Symmetry == Permutations(Requests) \cup Permutations(Agents)
              \cup Permutations(Codes) \cup Permutations(Passwords)
=============================================================================

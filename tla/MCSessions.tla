----------------------------- MODULE MCSessions -----------------------------
(* Small instance of Sessions for TLC.                                      *)
EXTENDS Sessions, TLC

Symmetry == Permutations(Requests) \cup Permutations(Tokens)
              \cup Permutations(SessionIds)
=============================================================================

----------------------------- MODULE MCAccounts -----------------------------
(* Small instance of Accounts for TLC.  Of the bodies that do not fit, one   *)
(* without an id or a token is enough: what is refused leaves none behind.  *)
EXTENDS Accounts, TLC

MCBodies == {s \in Spread : s.fits \/ (s.id = None /\ s.token = None)}

Symmetry == Permutations(Requests) \cup Permutations(Ids) \cup Permutations(Aliases)
              \cup Permutations(Names) \cup Permutations(Points)
=============================================================================

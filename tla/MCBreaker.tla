----------------------------- MODULE MCBreaker -----------------------------
(* Small instance of Breaker for TLC.  It checks liveness: no symmetry.     *)
EXTENDS Breaker
=============================================================================

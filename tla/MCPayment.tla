----------------------------- MODULE MCPayment -----------------------------
(* Small instance of Payment for TLC.  It checks liveness: no symmetry.     *)
EXTENDS Payment
=============================================================================

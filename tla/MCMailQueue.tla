---------------------------- MODULE MCMailQueue ----------------------------
(* Small instance of MailQueue for TLC.                                     *)
EXTENDS MailQueue, TLC

Symmetry == Permutations(Mails)
=============================================================================

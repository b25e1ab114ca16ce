---------------------------- MODULE MC_RateLimit ----------------------------
(* Instances of RateLimit for TLC.                                         *)
EXTENDS RateLimit
=============================================================================

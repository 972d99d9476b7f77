---------------------------- MODULE MCRateLimit ----------------------------
(* Small instances of RateLimit for TLC: model values are enough. *)
EXTENDS RateLimit
=============================================================================

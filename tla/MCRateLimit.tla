----------------------------- MODULE MCRateLimit -----------------------------
(* RateLimit for TLC, with the mutated forms of its definitions. *)
EXTENDS RateLimit
=============================================================================

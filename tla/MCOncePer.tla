----------------------------- MODULE MCOncePer -----------------------------
(* OncePer for TLC: three goroutines and two keys. *)
EXTENDS OncePer
=============================================================================

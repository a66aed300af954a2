--------------------------- MODULE MCSmartStatus ---------------------------
(* SmartStatus for TLC: three actions and a table of one or two rows. *)
EXTENDS SmartStatus
=============================================================================

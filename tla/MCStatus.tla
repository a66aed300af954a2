------------------------------ MODULE MCStatus ------------------------------
(* Status for TLC: one tool with two callers and one with one. *)
EXTENDS Status

MCToolOf == [c \in {"a", "b", "c"} |-> IF c = "c" THEN "ninja" ELSE "products"]
=============================================================================

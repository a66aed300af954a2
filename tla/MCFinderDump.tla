---------------------------- MODULE MCFinderDump ----------------------------
(* FinderDump for TLC: three processes and databases of one or two chunks. *)
EXTENDS FinderDump
=============================================================================

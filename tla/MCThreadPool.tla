---------------------------- MODULE MCThreadPool ----------------------------
(* ThreadPool for TLC: four functions that may request each other, two at a time. *)
EXTENDS ThreadPool
=============================================================================

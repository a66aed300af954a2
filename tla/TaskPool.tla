------------------------------ MODULE TaskPool ------------------------------
(***************************************************************************)
(* What finder.go's threadPool promises to loadFromFilesystem: a set of    *)
(* pending functions, to which the main goroutine and the pending ones add *)
(* more, and a Wait that returns when there is none left.  Abstract        *)
(* specification; ThreadPool implements it.                                *)
(***************************************************************************)
CONSTANT Tasks

VARIABLES pending,   \* requested and not finished
          finished,
          main       \* "running" (may call Run), "waiting" (in Wait) or "returned"

vars == <<pending, finished, main>>

Init == pending = {} /\ finished = {} /\ main = "running"

Run(t) ==
  /\ t \notin pending \cup finished
  /\ main = "running" \/ pending # {}
  /\ pending' = pending \cup {t}
  /\ UNCHANGED <<finished, main>>

Finish(t) ==
  /\ t \in pending
  /\ pending' = pending \ {t}
  /\ finished' = finished \cup {t}
  /\ UNCHANGED main

Wait == main = "running" /\ main' = "waiting" /\ UNCHANGED <<pending, finished>>

WaitReturns ==
  /\ main = "waiting" /\ pending = {}
  /\ main' = "returned"
  /\ UNCHANGED <<pending, finished>>

Next == (\E t \in Tasks : Run(t) \/ Finish(t)) \/ Wait \/ WaitReturns

Spec == Init /\ [][Next]_vars
=============================================================================

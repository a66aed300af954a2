------------------------------ MODULE OncePer ------------------------------
(***************************************************************************)
(* android/onceper.go: OncePer, a value per key that the first caller of   *)
(* Once constructs while the others wait for it.  A goroutine calls Once   *)
(* or Get, one call after the other; the map's operations are atomic       *)
(* (sync.Map).  A constructed value is the goroutine that constructed it.  *)
(***************************************************************************)
EXTENDS Integers

CONSTANTS Procs,     \* the goroutines
          Keys,
          Nothing,   \* the key is not in the map
          Waiter,    \* the key's placeholder
          Nil        \* the value after a constructor panicked

ASSUME OnceAssumption == {Nothing, Waiter, Nil} \cap Procs = {} /\ Nothing # Waiter /\ Nothing # Nil /\ Waiter # Nil

VARIABLES values,    \* the map
          closed,    \* the keys whose waiter is closed
          pc,        \* where each goroutine is
          key,       \* the key of its call
          result,    \* what its last call returned
          builds     \* how often a constructor was called for each key

vars == <<values, closed, pc, key, result, builds>>

Init ==
  /\ values = [k \in Keys |-> Nothing]
  /\ closed = {}
  /\ pc = [p \in Procs |-> "idle"]
  /\ key \in [Procs -> Keys]
  /\ result = [p \in Procs |-> Nothing]
  /\ builds = [k \in Keys |-> 0]

Goto(p, label) == pc' = [pc EXCEPT ![p] = label]

Return(p, v) ==
  /\ result' = [result EXCEPT ![p] = v]
  /\ Goto(p, "returned")
  /\ UNCHANGED <<values, closed, key, builds>>

\* maybeWaitFor, with the value that was loaded.
MutMaybeWaitFor(p, v) == Return(p, v)

MaybeWaitFor(p, v) ==
  IF v = Waiter
  THEN Goto(p, "waiting") /\ UNCHANGED <<values, closed, key, result, builds>>
  ELSE Return(p, v)

\* The goroutine is done with a call and makes the next one: Once or Get.
Once(p, k) ==
  /\ pc[p] \in {"idle", "returned"}
  /\ key' = [key EXCEPT ![p] = k]
  /\ result' = [result EXCEPT ![p] = Nothing]
  /\ Goto(p, "load")
  /\ UNCHANGED <<values, closed, builds>>

Get(p, k) ==
  /\ pc[p] \in {"idle", "returned"}
  /\ key' = [key EXCEPT ![p] = k]
  /\ result' = [result EXCEPT ![p] = Nothing]
  /\ Goto(p, "get")
  /\ UNCHANGED <<values, closed, builds>>

\* Get panics if the key is not in the map.
LoadForGet(p) ==
  LET v == values[key[p]] IN
  /\ pc[p] = "get"
  /\ IF v = Nothing
     THEN Goto(p, "panicked") /\ UNCHANGED <<values, closed, key, result, builds>>
     ELSE MaybeWaitFor(p, v)

Load(p) ==
  LET v == values[key[p]] IN
  /\ pc[p] = "load"
  /\ IF v = Nothing
     THEN Goto(p, "store") /\ UNCHANGED <<values, closed, key, result, builds>>
     ELSE MaybeWaitFor(p, v)

\* A Store instead of the LoadOrStore: the key may have appeared since Load.
MutLoadOrStore(p) ==
  /\ pc[p] = "store"
  /\ values' = [values EXCEPT ![key[p]] = Waiter]
  /\ builds' = [builds EXCEPT ![key[p]] = @ + 1]
  /\ Goto(p, "building")
  /\ UNCHANGED <<closed, key, result>>

LoadOrStore(p) ==
  LET v == values[key[p]] IN
  /\ pc[p] = "store"
  /\ IF v = Nothing
     THEN /\ values' = [values EXCEPT ![key[p]] = Waiter]
          /\ builds' = [builds EXCEPT ![key[p]] = @ + 1]
          /\ Goto(p, "building")
          /\ UNCHANGED <<closed, key, result>>
     ELSE MaybeWaitFor(p, v)

\* The constructor returns or panics; the deferred function stores the value,
\* then closes the waiter.
MutStoreValue(p) ==
  /\ pc[p] = "building"
  /\ \E v \in {p, Nil} :
       /\ values' = [values EXCEPT ![key[p]] = IF v = Nil THEN @ ELSE v]
       /\ result' = [result EXCEPT ![p] = v]
  /\ Goto(p, "close")
  /\ UNCHANGED <<closed, key, builds>>

MutStoreEarly(p) ==
  /\ pc[p] = "building"
  /\ values' = [values EXCEPT ![key[p]] = Nil]
  /\ \E v \in {p, Nil} : result' = [result EXCEPT ![p] = v]
  /\ Goto(p, "close")
  /\ UNCHANGED <<closed, key, builds>>

StoreValue(p) ==
  /\ pc[p] = "building"
  /\ \E v \in {p, Nil} :
       /\ values' = [values EXCEPT ![key[p]] = v]
       /\ result' = [result EXCEPT ![p] = v]
  /\ Goto(p, "close")
  /\ UNCHANGED <<closed, key, builds>>

MutCloseWaiter(p) ==
  /\ pc[p] = "close"
  /\ closed' = IF result[p] = Nil THEN closed ELSE closed \cup {key[p]}
  /\ Goto(p, IF result[p] = Nil THEN "panicked" ELSE "returned")
  /\ UNCHANGED <<values, key, result, builds>>

CloseWaiter(p) ==
  /\ pc[p] = "close"
  /\ closed' = closed \cup {key[p]}
  /\ Goto(p, IF result[p] = Nil THEN "panicked" ELSE "returned")
  /\ UNCHANGED <<values, key, result, builds>>

\* The waiter is closed: the value is loaded again, and must not be a waiter.
Woken(p) ==
  LET v == values[key[p]] IN
  /\ pc[p] = "waiting" /\ key[p] \in closed
  /\ IF v = Waiter
     THEN Goto(p, "invalid") /\ UNCHANGED <<values, closed, key, result, builds>>
     ELSE Return(p, v)

Step(p) == Load(p) \/ LoadForGet(p) \/ LoadOrStore(p) \/ StoreValue(p) \/ CloseWaiter(p) \/ Woken(p)

Next == \E p \in Procs : Step(p) \/ \E k \in Keys : Once(p, k) \/ Get(p, k)

\* A goroutine that can go on does, and constructors end.
Fairness == \A p \in Procs : WF_vars(Step(p))

Spec == Init /\ [][Next]_vars
FairSpec == Spec /\ Fairness

-----------------------------------------------------------------------------
Built == Procs \cup {Nil}
PC == {"idle", "load", "get", "store", "building", "close", "waiting", "returned", "panicked", "invalid"}

\* Type invariant.
TypeOK ==
  /\ values \in [Keys -> {Nothing, Waiter} \cup Built]
  /\ closed \subseteq Keys
  /\ pc \in [Procs -> PC] /\ key \in [Procs -> Keys]
  /\ result \in [Procs -> {Nothing} \cup Built]
  /\ builds \in [Keys -> Nat]

\* "Once computes a value the first time it is called with a given key": two
\* goroutines never both construct it, whatever happens between Load and
\* LoadOrStore, and a panic does not make a later caller construct it again.
ComputedOnce == \A k \in Keys : builds[k] <= 1

\* All the calls with one key that return, return the value that is in the map:
\* the constructed one or, after a panic, nil; never a waiter.
SameValue ==
  \A p \in Procs : pc[p] = "returned" => result[p] = values[key[p]] /\ result[p] \in Built

\* "Once() waiter completed but key is still not valid" never happens.
WaiterValid == \A p \in Procs : pc[p] # "invalid"

\* A value that is in the map stays.
ValuesStay == [][\A k \in Keys : values[k] \in Built => values'[k] = values[k]]_values

\* Every call ends, also one that waits for a constructor that panics.
CallEnds == \A p \in Procs : pc[p] \in {"load", "get", "waiting"} ~> pc[p] \in {"returned", "panicked"}
=============================================================================

--------------------------- MODULE OncePerProofs ---------------------------
(***************************************************************************)
(* OncePer for any goroutines and keys.  The inductive invariant follows   *)
(* the life of a key: not in the map and never built; a waiter, with one   *)
(* goroutine at most in the constructor and the waiter open; a value, for  *)
(* good.                                                                   *)
(***************************************************************************)
EXTENDS OncePer, TLAPS

KeyLife ==
  \A k \in Keys :
    /\ values[k] = Nothing => builds[k] = 0
    /\ values[k] # Nothing => builds[k] = 1
    /\ k \in closed => values[k] \in Built

BuilderState ==
  \A p \in Procs :
    /\ pc[p] = "building" => values[key[p]] = Waiter
    /\ pc[p] = "close" => values[key[p]] \in Built /\ result[p] = values[key[p]]

OneBuilder ==
  \A p, q \in Procs : pc[p] = "building" /\ pc[q] = "building" /\ key[p] = key[q] => p = q

\* The inductive invariant.
IInv == TypeOK /\ KeyLife /\ BuilderState /\ OneBuilder /\ SameValue /\ WaiterValid

\* The special values are not values.
LEMMA Distinct == Nothing \notin Built /\ Waiter \notin Built /\ Nothing # Waiter /\ Nil \in Built
  BY OnceAssumption DEF Built

LEMMA IInvInit == Init => IInv
  BY Distinct DEF Init, IInv, TypeOK, KeyLife, BuilderState, OneBuilder, SameValue, WaiterValid, PC

\* A step that changes only where p is, and its key and result, if it is not at
\* a place that the invariant speaks of, or has returned the value in the map.
LEMMA MoveStep ==
  ASSUME IInv, NEW p \in Procs, NEW label \in PC \ {"building", "close", "invalid"},
         NEW k \in Keys, NEW v \in {Nothing} \cup Built,
         UNCHANGED <<values, closed, builds>>,
         pc' = [pc EXCEPT ![p] = label],
         key' = [key EXCEPT ![p] = k],
         result' = [result EXCEPT ![p] = v],
         label = "returned" => v \in Built /\ v = values[k]
  PROVE  IInv'
<1>1. TypeOK'
  BY DEF IInv, TypeOK
<1>2. KeyLife'
  BY DEF IInv, KeyLife
<1>3. BuilderState' /\ OneBuilder'
  BY DEF IInv, TypeOK, BuilderState, OneBuilder
<1>4. SameValue' /\ WaiterValid'
  BY DEF IInv, TypeOK, SameValue, WaiterValid
<1>5. QED
  BY <1>1, <1>2, <1>3, <1>4 DEF IInv

\* A function that is updated with its own value is the same.
LEMMA SameFunction ==
  ASSUME NEW S, NEW T, NEW f \in [S -> T], NEW x \in S
  PROVE  f = [f EXCEPT ![x] = f[x]]
  OBVIOUS

LEMMA MaybeWaitForStep ==
  ASSUME IInv, NEW p \in Procs, MaybeWaitFor(p, values[key[p]]), values[key[p]] # Nothing
  PROVE  IInv'
<1>1. key[p] \in Keys /\ result[p] \in {Nothing} \cup Built /\ key = [key EXCEPT ![p] = key[p]]
      /\ result = [result EXCEPT ![p] = result[p]] /\ values[key[p]] \in {Waiter} \cup Built
  BY SameFunction DEF IInv, TypeOK
<1>2. CASE values[key[p]] = Waiter
  <2>1. /\ pc' = [pc EXCEPT ![p] = "waiting"] /\ key' = [key EXCEPT ![p] = key[p]]
        /\ result' = [result EXCEPT ![p] = result[p]] /\ UNCHANGED <<values, closed, builds>>
    BY <1>1, <1>2 DEF MaybeWaitFor, Goto
  <2>2. "waiting" \in PC \ {"building", "close", "invalid"} /\ "waiting" # "returned"
    BY DEF PC
  <2>3. QED
    BY <1>1, <2>1, <2>2, MoveStep
<1>3. CASE values[key[p]] # Waiter
  <2>1. /\ pc' = [pc EXCEPT ![p] = "returned"] /\ key' = [key EXCEPT ![p] = key[p]]
        /\ result' = [result EXCEPT ![p] = values[key[p]]] /\ UNCHANGED <<values, closed, builds>>
    BY <1>1, <1>3 DEF MaybeWaitFor, Return, Goto
  <2>2. "returned" \in PC \ {"building", "close", "invalid"}
    BY DEF PC
  <2>3. values[key[p]] \in Built
    BY <1>1, <1>3
  <2>4. QED
    BY <1>1, <2>1, <2>2, <2>3, MoveStep
<1>4. QED
  BY <1>2, <1>3

\* A step that changes only where p is.
LEMMA GotoStep ==
  ASSUME IInv, NEW p \in Procs, NEW label \in PC \ {"building", "close", "invalid", "returned"},
         Goto(p, label), UNCHANGED <<values, closed, key, result, builds>>
  PROVE  IInv'
<1>1. key[p] \in Keys /\ result[p] \in {Nothing} \cup Built /\ key' = [key EXCEPT ![p] = key[p]]
      /\ result' = [result EXCEPT ![p] = result[p]]
  BY SameFunction DEF IInv, TypeOK
<1>2. pc' = [pc EXCEPT ![p] = label] /\ label \in PC \ {"building", "close", "invalid"} /\ label # "returned"
  BY DEF Goto
<1>3. UNCHANGED <<values, closed, builds>>
  OBVIOUS
<1>4. label = "returned" => result[p] \in Built /\ result[p] = values[key[p]]
  BY <1>2
<1>5. QED
  BY ONLY IInv, p \in Procs, <1>1, <1>2, <1>3, <1>4, MoveStep

LEMMA CallStep ==
  ASSUME IInv, NEW p \in Procs, NEW k \in Keys, Once(p, k) \/ Get(p, k)
  PROVE  IInv'
<1>1. PICK label \in {"load", "get"} : pc' = [pc EXCEPT ![p] = label]
  BY DEF Once, Get, Goto
<1>2. label \in PC \ {"building", "close", "invalid"} /\ label # "returned"
  BY DEF PC
<1>3. key' = [key EXCEPT ![p] = k] /\ result' = [result EXCEPT ![p] = Nothing] /\ UNCHANGED <<values, closed, builds>>
  BY DEF Once, Get
<1>4. QED
  BY <1>1, <1>2, <1>3, MoveStep

LEMMA LoadStep ==
  ASSUME IInv, NEW p \in Procs, Load(p) \/ LoadForGet(p)
  PROVE  IInv'
<1>1. CASE values[key[p]] # Nothing
  BY <1>1, MaybeWaitForStep DEF Load, LoadForGet
<1>2. CASE values[key[p]] = Nothing
  <2>1. PICK label \in {"store", "panicked"} : Goto(p, label)
    BY <1>2 DEF Load, LoadForGet
  <2>2. label \in PC \ {"building", "close", "invalid", "returned"}
    BY DEF PC
  <2>3. UNCHANGED <<values, closed, key, result, builds>>
    BY <1>2 DEF Load, LoadForGet
  <2>4. QED
    BY <2>1, <2>2, <2>3, GotoStep
<1>3. QED
  BY <1>1, <1>2

\* The key was not in the map, so nobody else is constructing its value.
LEMMA LoadOrStoreStep ==
  ASSUME IInv, NEW p \in Procs, LoadOrStore(p)
  PROVE  IInv'
<1>1. CASE values[key[p]] # Nothing
  BY <1>1, MaybeWaitForStep DEF LoadOrStore
<1>2. CASE values[key[p]] = Nothing
  <2> DEFINE k == key[p]
  <2>1. /\ values' = [values EXCEPT ![k] = Waiter]
        /\ builds' = [builds EXCEPT ![k] = builds[k] + 1]
        /\ pc' = [pc EXCEPT ![p] = "building"]
        /\ UNCHANGED <<closed, key, result>>
    BY <1>2 DEF LoadOrStore, Goto
  <2>2. k \in Keys /\ builds[k] = 0 /\ k \notin closed
    BY <1>2, Distinct DEF IInv, TypeOK, KeyLife
  <2>3. TypeOK'
    BY <2>1, <2>2 DEF IInv, TypeOK, PC
  <2>4. KeyLife'
    BY <2>1, <2>2, Distinct DEF IInv, TypeOK, KeyLife
  <2>5. BuilderState' /\ OneBuilder'
    BY <1>2, <2>1, <2>2, Distinct DEF IInv, TypeOK, BuilderState, OneBuilder
  <2>6. SameValue' /\ WaiterValid'
    BY <1>2, <2>1, <2>2, Distinct DEF IInv, TypeOK, SameValue, WaiterValid
  <2>7. QED
    BY <2>3, <2>4, <2>5, <2>6 DEF IInv
<1>3. QED
  BY <1>1, <1>2

\* The only constructor of the key is done; no caller has returned before.
LEMMA StoreValueStep ==
  ASSUME IInv, NEW p \in Procs, StoreValue(p)
  PROVE  IInv'
<1> DEFINE k == key[p]
<1>1. PICK v \in {p, Nil} : values' = [values EXCEPT ![k] = v] /\ result' = [result EXCEPT ![p] = v]
  BY DEF StoreValue
<1>2. pc[p] = "building" /\ pc' = [pc EXCEPT ![p] = "close"] /\ UNCHANGED <<closed, key, builds>>
  BY DEF StoreValue, Goto
<1>3. k \in Keys /\ values[k] = Waiter /\ v \in Built
  BY <1>2 DEF IInv, TypeOK, BuilderState, Built
<1>4. TypeOK'
  BY <1>1, <1>2, <1>3 DEF IInv, TypeOK, PC
<1>5. KeyLife'
  BY <1>1, <1>2, <1>3, Distinct DEF IInv, TypeOK, KeyLife
<1>6. BuilderState' /\ OneBuilder'
  BY <1>1, <1>2, <1>3, Distinct DEF IInv, TypeOK, BuilderState, OneBuilder
<1>7. SameValue' /\ WaiterValid'
  BY <1>1, <1>2, <1>3, Distinct DEF IInv, TypeOK, SameValue, WaiterValid
<1>8. QED
  BY <1>4, <1>5, <1>6, <1>7 DEF IInv

LEMMA CloseWaiterStep ==
  ASSUME IInv, NEW p \in Procs, CloseWaiter(p)
  PROVE  IInv'
<1>1. PICK label \in {"panicked", "returned"} : pc' = [pc EXCEPT ![p] = label]
  BY DEF CloseWaiter, Goto
<1>2. pc[p] = "close" /\ closed' = closed \cup {key[p]} /\ UNCHANGED <<values, key, result, builds>>
  BY DEF CloseWaiter
<1>3. key[p] \in Keys /\ values[key[p]] \in Built /\ result[p] = values[key[p]]
  BY <1>2 DEF IInv, TypeOK, BuilderState
<1>4. TypeOK'
  BY <1>1, <1>2, <1>3 DEF IInv, TypeOK, PC
<1>5. KeyLife'
  BY <1>2, <1>3 DEF IInv, TypeOK, KeyLife
<1>6. BuilderState' /\ OneBuilder'
  BY <1>1, <1>2 DEF IInv, TypeOK, BuilderState, OneBuilder
<1>7. SameValue' /\ WaiterValid'
  BY <1>1, <1>2, <1>3 DEF IInv, TypeOK, SameValue, WaiterValid
<1>8. QED
  BY <1>4, <1>5, <1>6, <1>7 DEF IInv

\* The waiter is closed, so the key has its value.
LEMMA WokenStep ==
  ASSUME IInv, NEW p \in Procs, Woken(p)
  PROVE  IInv'
<1>1. key[p] \in Keys /\ values[key[p]] \in Built
  BY DEF Woken, IInv, TypeOK, KeyLife
<1>2. MaybeWaitFor(p, values[key[p]]) /\ values[key[p]] # Nothing
  BY <1>1, Distinct DEF Woken, MaybeWaitFor
<1>3. QED
  BY <1>2, MaybeWaitForStep

LEMMA IInvNext == IInv /\ [Next]_vars => IInv'
<1> SUFFICES ASSUME IInv, [Next]_vars PROVE IInv'
  OBVIOUS
<1>1. CASE \E p \in Procs : \E k \in Keys : Once(p, k) \/ Get(p, k)
  BY <1>1, CallStep
<1>2. CASE \E p \in Procs : Step(p)
  BY <1>2, LoadStep, LoadOrStoreStep, StoreValueStep, CloseWaiterStep, WokenStep DEF Step
<1>3. CASE UNCHANGED vars
  BY <1>3 DEF vars, IInv, TypeOK, KeyLife, BuilderState, OneBuilder, SameValue, WaiterValid
<1>4. QED
  BY <1>1, <1>2, <1>3 DEF Next

THEOREM Inductive == Spec => []IInv
  BY IInvInit, IInvNext, PTL DEF Spec

\* The state stays well typed: no caller gets the placeholder as its value.
THEOREM TypeCorrect == Spec => []TypeOK
  BY Inductive, PTL DEF IInv

\* Each value is constructed once at most.
THEOREM Once_ComputesOnce == Spec => []ComputedOnce
<1>1. IInv => ComputedOnce
  BY DEF IInv, TypeOK, KeyLife, ComputedOnce
<1>2. QED
  BY <1>1, Inductive, PTL

\* All callers of a key get one value.
THEOREM Once_SameValue == Spec => []SameValue
  BY Inductive, PTL DEF IInv

\* The panic in maybeWaitFor is unreachable.
THEOREM Once_WaiterValid == Spec => []WaiterValid
  BY Inductive, PTL DEF IInv

\* What is in the map stays.
THEOREM Once_ValuesStay == Spec => ValuesStay
<1>1. ASSUME IInv, [Next]_vars
      PROVE  [\A k \in Keys : values[k] \in Built => values'[k] = values[k]]_values
  <2>1. CASE \E p \in Procs : LoadOrStore(p)
    BY <1>1, <2>1, Distinct DEF LoadOrStore, MaybeWaitFor, Return, IInv, TypeOK
  <2>2. CASE \E p \in Procs : StoreValue(p)
    BY <1>1, <2>2, Distinct DEF StoreValue, IInv, TypeOK, BuilderState
  <2>3. CASE \E p \in Procs : Load(p) \/ LoadForGet(p) \/ CloseWaiter(p) \/ Woken(p) \/ \E k \in Keys : Once(p, k) \/ Get(p, k)
    BY <2>3 DEF Load, LoadForGet, CloseWaiter, Woken, Once, Get, MaybeWaitFor, Return
  <2>4. CASE UNCHANGED vars
    BY <2>4 DEF vars
  <2>5. QED
    BY <1>1, <2>1, <2>2, <2>3, <2>4 DEF Next, Step
<1>2. QED
  BY <1>1, Inductive, PTL DEF Spec, ValuesStay
=============================================================================

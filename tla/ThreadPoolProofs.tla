-------------------------- MODULE ThreadPoolProofs --------------------------
(***************************************************************************)
(* ThreadPool for every finite set of functions and every capacity.  The   *)
(* inductive invariant says what the two counters count: the WaitGroup the *)
(* requested functions that are not done, the semaphore the running ones.  *)
(***************************************************************************)
EXTENDS ThreadPool, FiniteSetTheorems, TLAPS

States ==
  /\ pc \in [Tasks -> PC]
  /\ main \in {"running", "waiting", "returned"}

CountersExact ==
  /\ received = Cardinality(Pending)
  /\ active = Cardinality(Holding)
  /\ active <= Capacity

\* The inductive invariant.
IInv == States /\ CountersExact /\ WaitIsComplete

\* The sets that the counters count are finite.
LEMMA CountedFinite ==
  /\ IsFiniteSet(Pending) /\ IsFiniteSet(Holding)
  /\ Cardinality(Pending) \in Nat /\ Cardinality(Holding) \in Nat
<1>1. Pending \subseteq Tasks /\ Holding \subseteq Tasks
  BY DEF Pending, Holding
<1>2. IsFiniteSet(Pending) /\ IsFiniteSet(Holding)
  BY <1>1, PoolAssumption, FS_Subset
<1>3. QED
  BY <1>2, FS_CardinalityType

\* Adding an element to a finite set, and removing one.
LEMMA Grow ==
  ASSUME NEW S, NEW T, NEW x, IsFiniteSet(S), x \notin S, T = S \cup {x}
  PROVE  Cardinality(T) = Cardinality(S) + 1
  BY FS_AddElement

LEMMA Shrink ==
  ASSUME NEW S, NEW T, NEW x, IsFiniteSet(S), x \in S, T = S \ {x}
  PROVE  Cardinality(T) = Cardinality(S) - 1
  BY FS_RemoveElement

\* Run requests one function more; it does not run yet.
LEMMA RunStep ==
  ASSUME IInv, NEW g \in Tasks \cup {Main}, NEW t \in Tasks, Run(g, t)
  PROVE  IInv'
<1>1. pc[t] = "new" /\ pc' = [pc EXCEPT ![t] = "lock"] /\ States'
  BY DEF Run, IInv, States, PC
<1>2. Pending' = Pending \cup {t} /\ t \notin Pending
  BY <1>1 DEF Pending, IInv, States
<1>3. Holding' = Holding
  BY <1>1 DEF Holding, IInv, States
<1>4. Cardinality(Pending') = Cardinality(Pending) + 1
  BY <1>2, CountedFinite, Grow
<1>5. CountersExact'
  BY <1>3, <1>4 DEF Run, IInv, CountersExact
<1>6. main # "returned"
  <2>1. CASE g = Main
    BY <2>1 DEF Run, Caller
  <2>2. CASE g # Main
    <3>1. g \in Pending
      BY <2>2 DEF Run, Caller, Pending
    <3>2. QED
      BY <3>1 DEF IInv, WaitIsComplete
  <2>3. QED
    BY <2>1, <2>2
<1>7. QED
  BY <1>1, <1>5, <1>6 DEF Run, IInv, WaitIsComplete

\* Lock makes one more function run.
LEMMA LockStep ==
  ASSUME IInv, NEW t \in Tasks, Lock(t)
  PROVE  IInv'
<1>1. pc[t] = "lock" /\ pc' = [pc EXCEPT ![t] = "running"] /\ States'
  BY DEF Lock, IInv, States, PC
<1>2. Pending' = Pending
  BY <1>1 DEF Pending, IInv, States
<1>3. Holding' = Holding \cup {t} /\ t \notin Holding
  BY <1>1 DEF Holding, IInv, States
<1>4. Cardinality(Holding') = Cardinality(Holding) + 1
  BY <1>3, CountedFinite, Grow
<1>5. CountersExact'
  BY <1>2, <1>4, CountedFinite, PoolAssumption DEF Lock, IInv, CountersExact
<1>6. QED
  BY <1>1, <1>2, <1>5 DEF Lock, IInv, WaitIsComplete

\* Unlock makes room for another one.
LEMMA UnlockStep ==
  ASSUME IInv, NEW t \in Tasks, Unlock(t)
  PROVE  IInv'
<1>1. pc[t] = "running" /\ pc' = [pc EXCEPT ![t] = "unlocked"] /\ States'
  BY DEF Unlock, IInv, States, PC
<1>2. Pending' = Pending
  BY <1>1 DEF Pending, IInv, States
<1>3. Holding' = Holding \ {t} /\ t \in Holding
  BY <1>1 DEF Holding, IInv, States
<1>4. Cardinality(Holding') = Cardinality(Holding) - 1
  BY <1>3, CountedFinite, Shrink
<1>5. CountersExact'
  BY <1>2, <1>4, CountedFinite, PoolAssumption DEF Unlock, IInv, CountersExact
<1>6. QED
  BY <1>1, <1>2, <1>5 DEF Unlock, IInv, WaitIsComplete

\* Done takes the function out of those that Wait waits for.
LEMMA DoneStep ==
  ASSUME IInv, NEW t \in Tasks, Done(t)
  PROVE  IInv'
<1>1. pc[t] = "unlocked" /\ pc' = [pc EXCEPT ![t] = "done"] /\ States'
  BY DEF Done, IInv, States, PC
<1>2. Pending' = Pending \ {t} /\ t \in Pending
  BY <1>1 DEF Pending, IInv, States
<1>3. Holding' = Holding
  BY <1>1 DEF Holding, IInv, States
<1>4. Cardinality(Pending') = Cardinality(Pending) - 1
  BY <1>2, CountedFinite, Shrink
<1>5. CountersExact'
  BY <1>3, <1>4, CountedFinite DEF Done, IInv, CountersExact
<1>6. QED
  BY <1>1, <1>2, <1>5 DEF Done, IInv, WaitIsComplete

\* Wait returns only when nothing is counted any more.
LEMMA WaitStep ==
  ASSUME IInv, Wait \/ WaitReturns
  PROVE  IInv'
<1>1. pc' = pc /\ received' = received /\ active' = active
  BY DEF Wait, WaitReturns
<1>2. Pending' = Pending /\ Holding' = Holding
  BY <1>1 DEF Pending, Holding
<1>3. States' /\ CountersExact'
  BY <1>1, <1>2 DEF Wait, WaitReturns, IInv, States, CountersExact
<1>4. CASE Wait
  BY <1>3, <1>4 DEF Wait, IInv, WaitIsComplete
<1>5. CASE WaitReturns
  <2>1. Cardinality(Pending) = 0
    BY <1>5 DEF WaitReturns, IInv, CountersExact
  <2>2. Pending = {}
    BY <2>1, CountedFinite, FS_EmptySet
  <2>3. QED
    BY <1>2, <1>3, <2>2 DEF IInv, WaitIsComplete
<1>6. QED
  BY <1>4, <1>5

\* The invariant holds at first, and every step preserves it.
LEMMA IInvInit == Init => IInv
<1> SUFFICES ASSUME Init PROVE IInv
  OBVIOUS
<1>1. States
  BY DEF Init, States, PC
<1>2. Pending = {} /\ Holding = {}
  BY DEF Init, Pending, Holding
<1>3. Cardinality(Pending) = 0 /\ Cardinality(Holding) = 0
  BY <1>2, FS_EmptySet
<1>4. QED
  BY <1>1, <1>2, <1>3, PoolAssumption DEF Init, IInv, CountersExact, WaitIsComplete

LEMMA IInvNext == IInv /\ [Next]_vars => IInv'
<1> SUFFICES ASSUME IInv, [Next]_vars PROVE IInv'
  OBVIOUS
<1>1. CASE \E t \in Tasks : \E g \in Tasks \cup {Main} : Run(g, t)
  BY <1>1, RunStep
<1>2. CASE \E t \in Tasks : Goroutine(t)
  BY <1>2, LockStep, UnlockStep, DoneStep DEF Goroutine
<1>3. CASE Wait \/ WaitReturns
  BY <1>3, WaitStep
<1>4. CASE UNCHANGED vars
  BY <1>4 DEF vars, IInv, States, CountersExact, WaitIsComplete, Pending, Holding
<1>5. QED
  BY <1>1, <1>2, <1>3, <1>4 DEF Next

THEOREM Inductive == Spec => []IInv
  BY IInvInit, IInvNext, PTL DEF Spec

\* The counters stay in range: the WaitGroup is never negative.
THEOREM TypeCorrect == Spec => []TypeOK
<1>1. IInv => TypeOK
  BY CountedFinite, PoolAssumption DEF IInv, States, CountersExact, TypeOK
<1>2. QED
  BY <1>1, Inductive, PTL

\* At most Capacity functions run at once.
THEOREM PoolThrottles == Spec => []Throttled
<1>1. IInv => Throttled
  BY DEF IInv, CountersExact, Throttled
<1>2. QED
  BY <1>1, Inductive, PTL

\* When Wait has returned, no requested function is left.
THEOREM WaitReturnsLast == Spec => []WaitIsComplete
  BY Inductive, PTL DEF IInv

-----------------------------------------------------------------------------
\* Every step of the goroutines is a step of the abstract pool or changes
\* nothing of it.
LEMMA StepMaps == IInv /\ IInv' /\ [Next]_vars => [Pool!Next]_(Pool!vars)
<1> SUFFICES ASSUME IInv, [Next]_vars PROVE [Pool!Next]_(Pool!vars)
  OBVIOUS
<1> DEFINE finished == {t \in Tasks : pc[t] = "done"}
<1>1. ASSUME NEW t \in Tasks, NEW g \in Tasks \cup {Main}, Run(g, t)
      PROVE  Pool!Run(t)
  <2>1. pc[t] = "new" /\ pc' = [pc EXCEPT ![t] = "lock"] /\ main' = main
    BY <1>1 DEF Run
  <2>2. Pending' = Pending \cup {t} /\ finished' = finished /\ t \notin Pending \cup finished
    BY <2>1 DEF Pending, IInv, States
  <2>3. main = "running" \/ Pending # {}
    BY <1>1 DEF Run, Caller, Pending
  <2>4. QED
    BY <2>1, <2>2, <2>3 DEF Pool!Run
<1>2. ASSUME NEW t \in Tasks, Lock(t) \/ Unlock(t)
      PROVE  UNCHANGED Pool!vars
  BY <1>2 DEF Lock, Unlock, Pool!vars, Pending, IInv, States
<1>3. ASSUME NEW t \in Tasks, Done(t)
      PROVE  Pool!Finish(t)
  <2>1. pc[t] = "unlocked" /\ pc' = [pc EXCEPT ![t] = "done"] /\ main' = main
    BY <1>3 DEF Done
  <2>2. Pending' = Pending \ {t} /\ finished' = finished \cup {t} /\ t \in Pending
    BY <2>1 DEF Pending, IInv, States
  <2>3. QED
    BY <2>1, <2>2 DEF Pool!Finish
<1>4. ASSUME Wait PROVE Pool!Wait
  BY <1>4 DEF Wait, Pool!Wait, Pending
<1>5. ASSUME WaitReturns PROVE Pool!WaitReturns
  <2>1. Cardinality(Pending) = 0
    BY <1>5 DEF WaitReturns, IInv, CountersExact
  <2>2. Pending = {}
    BY <2>1, CountedFinite, FS_EmptySet
  <2>3. QED
    BY <1>5, <2>2 DEF WaitReturns, Pool!WaitReturns, Pending
<1>6. ASSUME UNCHANGED vars PROVE UNCHANGED Pool!vars
  BY <1>6 DEF vars, Pool!vars, Pending
<1>7. QED
  BY <1>1, <1>2, <1>3, <1>4, <1>5, <1>6 DEF Next, Goroutine, Pool!Next

\* The thread pool implements the abstract pool.
THEOREM Refinement == Spec => ImplementsTaskPool
<1>1. Init => Pool!Init
  BY DEF Init, Pool!Init, Pending
<1>2. QED
  BY <1>1, StepMaps, Inductive, PTL DEF Spec, Pool!Spec, ImplementsTaskPool
=============================================================================

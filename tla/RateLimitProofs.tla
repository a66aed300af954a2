--------------------------- MODULE RateLimitProofs ---------------------------
(***************************************************************************)
(* The safety properties of the rate limiter, for any number of callers,   *)
(* any sizes and any capacity.                                             *)
(***************************************************************************)
EXTENDS RateLimit, FiniteSetTheorems, TLAPS

(***************************************************************************)
(* Sums of sizes as cardinalities.                                         *)
(***************************************************************************)

\* One caller of size n holds n units.
LEMMA UnitsOfOne ==
  ASSUME NEW c, NEW n \in Nat
  PROVE  /\ IsFiniteSet({c} \X (1 .. n))
         /\ Cardinality({c} \X (1 .. n)) = n
<1>1. IsFiniteSet({c}) /\ Cardinality({c}) = 1
  BY FS_Singleton
<1>2. IsFiniteSet(1 .. n) /\ Cardinality(1 .. n) = n
  BY FS_Interval
<1>3. /\ IsFiniteSet({c} \X (1 .. n))
      /\ Cardinality({c} \X (1 .. n)) = Cardinality({c}) * Cardinality(1 .. n)
  BY <1>1, <1>2, FS_Product, Zenon
<1>4. QED
  BY <1>1, <1>2, <1>3

\* A caller that is let in adds its size to the units in use.
LEMMA UnitsAdd ==
  ASSUME NEW S, NEW f, NEW c, c \notin S, f[c] \in Nat,
         IsFiniteSet(Units(S, f))
  PROVE  /\ IsFiniteSet(Units(S \cup {c}, f))
         /\ Cardinality(Units(S \cup {c}, f)) = Cardinality(Units(S, f)) + f[c]
<1> DEFINE U == {c} \X (1 .. f[c])
<1>1. IsFiniteSet(U) /\ Cardinality(U) = f[c]
  BY UnitsOfOne
<1>2. Units(S \cup {c}, f) = Units(S, f) \cup U
  BY DEF Units
<1>3. Units(S, f) \cap U = {}
  BY DEF Units
<1>4. Cardinality(Units(S, f)) \in Nat
  BY FS_CardinalityType
<1> HIDE DEF U
<1>5. /\ IsFiniteSet(Units(S, f) \cup U)
      /\ Cardinality(Units(S, f) \cup U)
           = Cardinality(Units(S, f)) + Cardinality(U) - Cardinality(Units(S, f) \cap U)
  BY <1>1, FS_Union, Zenon
<1>6. Cardinality(Units(S, f) \cap U) = 0
  BY <1>3, FS_EmptySet, Zenon
<1>7. Cardinality(Units(S, f) \cup U) = Cardinality(Units(S, f)) + f[c]
  BY <1>1, <1>4, <1>5, <1>6
<1>8. QED
  BY <1>2, <1>5, <1>7, Zenon

\* A caller that finishes takes its size back.
LEMMA UnitsRemove ==
  ASSUME NEW S, NEW f, NEW c \in S, f[c] \in Nat, IsFiniteSet(Units(S, f))
  PROVE  /\ IsFiniteSet(Units(S \ {c}, f))
         /\ Cardinality(Units(S \ {c}, f)) = Cardinality(Units(S, f)) - f[c]
<1>1. Units(S \ {c}, f) \in SUBSET Units(S, f)
  BY DEF Units
<1>2. IsFiniteSet(Units(S \ {c}, f))
  BY <1>1, FS_Subset
<1>3. (S \ {c}) \cup {c} = S
  OBVIOUS
<1>4. Cardinality(Units((S \ {c}) \cup {c}, f)) = Cardinality(Units(S \ {c}, f)) + f[c]
  <2>1. c \notin S \ {c}
    OBVIOUS
  <2>2. QED
    BY <1>2, <2>1, UnitsAdd, Zenon
<1>5. Cardinality(Units(S \ {c}, f)) \in Nat
  BY <1>2, FS_CardinalityType
<1>6. Cardinality(Units(S, f)) = Cardinality(Units(S \ {c}, f)) + f[c]
  BY <1>3, <1>4, Zenon
<1>7. QED
  BY <1>2, <1>5, <1>6

\* Two different callers together hold at most all the units in use.
LEMMA UnitsOfTwo ==
  ASSUME NEW S, NEW f, NEW c \in S, NEW d \in S, c # d,
         f[c] \in Nat, f[d] \in Nat, IsFiniteSet(Units(S, f))
  PROVE  f[c] + f[d] <= Cardinality(Units(S, f))
<1>1. /\ IsFiniteSet(Units(S \ {c}, f))
      /\ Cardinality(Units(S \ {c}, f)) = Cardinality(Units(S, f)) - f[c]
  BY UnitsRemove
<1>2. d \in S \ {c}
  OBVIOUS
<1>3. /\ IsFiniteSet(Units((S \ {c}) \ {d}, f))
      /\ Cardinality(Units((S \ {c}) \ {d}, f)) = Cardinality(Units(S \ {c}, f)) - f[d]
  BY <1>1, <1>2, UnitsRemove
<1>4. Cardinality(Units((S \ {c}) \ {d}, f)) \in Nat
  BY <1>3, FS_CardinalityType
<1>5. Cardinality(Units(S, f)) \in Nat
  BY FS_CardinalityType
<1>6. QED
  BY <1>1, <1>3, <1>4, <1>5

\* Units only depends on the sizes of the callers in the set.
LEMMA UnitsSame ==
  ASSUME NEW S, NEW f, NEW g, \A c \in S : f[c] = g[c]
  PROVE  Units(S, f) = Units(S, g)
BY DEF Units

(***************************************************************************)
(* The inductive invariant.  UsageWithinCapacity is not inductive alone:   *)
(* that a caller finishing leaves the counter equal to the size of the one *)
(* that remains needs CounterExact, and CounterExact needs that the units  *)
(* in use are finitely many.                                               *)
(***************************************************************************)
IInv ==
  /\ TypeOK
  /\ IsFiniteSet(Units(InUse, size))
  /\ CounterExact
  /\ UsageWithinCapacity
  /\ QueuedDoesNotFit

USE CallersAssumption, SizesAssumption, CapacityAssumption

\* NewRateLimit starts the monitor in a state of the invariant.
LEMMA InitIInv == Init => IInv
<1> SUFFICES ASSUME Init PROVE IInv
  OBVIOUS
<1>1. InUse = {}
  BY DEF Init, InUse
<1>2. Units({}, size) = {}
  BY DEF Units
<1>3. IsFiniteSet(Units(InUse, size)) /\ Cardinality(Units(InUse, size)) = 0
  BY <1>1, <1>2, FS_EmptySet, Zenon
<1>4. TypeOK
  BY DEF Init, TypeOK, PC
<1>5. QED
  BY <1>3, <1>4 DEF IInv, Init, CounterExact, UsageWithinCapacity, QueuedDoesNotFit

\* The steps of callers, Stop and the monitor's return leave the counter, the
\* queued request and the units in use alone.
LEMMA QuietStep ==
  ASSUME IInv, TypeOK', InUse' = InUse, Units(InUse', size') = Units(InUse, size),
         UNCHANGED <<usedCapacity, currentRequest>>,
         \A c \in InUse : size'[c] = size[c],
         currentRequest # None => size'[currentRequest] = size[currentRequest]
  PROVE  IInv'
<1>1. IsFiniteSet(Units(InUse, size))' /\ CounterExact'
  BY DEF IInv, CounterExact
<1>2. UsageWithinCapacity' /\ QueuedDoesNotFit'
  BY DEF IInv, UsageWithinCapacity, QueuedDoesNotFit, Accepts
<1>3. QED
  BY <1>1, <1>2 DEF IInv

\* The end of an iteration of monitorChannels: whatever the receive left (used,
\* pcs), accepting or keeping the queued request c restores the invariant.
LEMMA AcceptStep ==
  ASSUME IInv, NEW c \in Callers \cup {None}, NEW used \in Nat,
         NEW pcs \in [Callers -> PC],
         \A d \in Callers : pcs[d] = "queued" <=> d = c,
         NEW S \in SUBSET Callers,
         \A d \in Callers : d \in S <=> pcs[d] \in {"accepted", "holding", "finishing"},
         IsFiniteSet(Units(S, size)), used = Cardinality(Units(S, size)),
         used <= Capacity \/ \E d \in S : used = size[d],
         AcceptQueued(c, used, pcs), UNCHANGED <<size, stopped, monitor>>
  PROVE  IInv'
<1>1. TypeOK'
  BY DEF IInv, TypeOK, AcceptQueued, PC
<1>2. CASE c # None /\ Accepts(used, size[c])
  <2>1. /\ usedCapacity' = used + size[c]
        /\ pc' = [pcs EXCEPT ![c] = "accepted"]
        /\ currentRequest' = None
    BY <1>2 DEF AcceptQueued
  <2>2. c \in Callers /\ c \notin S /\ size[c] \in Nat
    BY <1>2 DEF IInv, TypeOK
  <2>3. InUse' = S \cup {c}
    BY <2>1, <2>2 DEF InUse
  <2>4. /\ IsFiniteSet(Units(S \cup {c}, size))
        /\ Cardinality(Units(S \cup {c}, size)) = Cardinality(Units(S, size)) + size[c]
    <3>1. IsFiniteSet(Units(S, size))
      OBVIOUS
    <3>2. QED
      BY ONLY <2>2, <3>1, UnitsAdd, Zenon
  <2>5. IsFiniteSet(Units(InUse, size))' /\ CounterExact'
    BY <2>1, <2>3, <2>4 DEF CounterExact
  <2>6. UsageWithinCapacity'
    <3>1. CASE used = 0
      <4>1. c \in InUse' /\ usedCapacity' = size'[c]
        BY <2>1, <2>2, <2>3, <3>1
      <4>2. QED
        BY <4>1 DEF UsageWithinCapacity
    <3>2. CASE Capacity >= used + size[c]
      BY <2>1, <3>2 DEF UsageWithinCapacity
    <3>3. QED
      BY <1>2, <3>1, <3>2 DEF Accepts
  <2>7. QED
    BY <1>1, <2>1, <2>5, <2>6 DEF IInv, QueuedDoesNotFit
<1>3. CASE ~(c # None /\ Accepts(used, size[c]))
  <2>1. usedCapacity' = used /\ pc' = pcs /\ currentRequest' = c
    BY <1>3 DEF AcceptQueued
  <2>2. InUse' = S
    BY <2>1 DEF InUse
  <2>3. IsFiniteSet(Units(InUse, size))' /\ CounterExact'
    BY <2>1, <2>2 DEF CounterExact
  <2>4. UsageWithinCapacity' /\ QueuedDoesNotFit'
    BY <1>3, <2>1, <2>2 DEF UsageWithinCapacity, QueuedDoesNotFit, Accepts
  <2>5. QED
    BY <1>1, <2>3, <2>4 DEF IInv
<1>4. QED
  BY <1>2, <1>3

\* An iteration of monitorChannels that receives a new request.
LEMMA ReceiveRequestStep ==
  ASSUME IInv, NEW c \in Callers, ReceiveRequest(c)
  PROVE  IInv'
<1> DEFINE pcs == [pc EXCEPT ![c] = "queued"]
<1>1. /\ pcs \in [Callers -> PC]
      /\ \A d \in Callers : pcs[d] = "queued" <=> d = c
  BY DEF IInv, TypeOK, PC, ReceiveRequest
<1>2. /\ InUse \in SUBSET Callers
      /\ \A d \in Callers : d \in InUse <=> pcs[d] \in {"accepted", "holding", "finishing"}
  BY DEF IInv, TypeOK, InUse, ReceiveRequest
<1>3. usedCapacity \in Nat /\ IsFiniteSet(Units(InUse, size))
      /\ usedCapacity = Cardinality(Units(InUse, size))
      /\ (usedCapacity <= Capacity \/ \E d \in InUse : usedCapacity = size[d])
  BY DEF IInv, TypeOK, CounterExact, UsageWithinCapacity
<1>4. AcceptQueued(c, usedCapacity, pcs) /\ UNCHANGED <<size, stopped, monitor>>
  BY DEF ReceiveRequest
<1> HIDE DEF pcs
<1>5. QED
  BY <1>1, <1>2, <1>3, <1>4, AcceptStep

\* An iteration of monitorChannels that receives a completion.
LEMMA ReceiveCompletionStep ==
  ASSUME IInv, NEW c \in Callers, ReceiveCompletion(c)
  PROVE  IInv'
<1> DEFINE pcs == [pc EXCEPT ![c] = "idle"]
           used == usedCapacity - size[c]
           S == InUse \ {c}
<1>1. c \in InUse /\ size[c] \in Nat /\ usedCapacity \in Nat
  BY DEF IInv, TypeOK, InUse, ReceiveCompletion
<1>2. IsFiniteSet(Units(InUse, size)) /\ usedCapacity = Cardinality(Units(InUse, size))
  BY DEF IInv, CounterExact
<1>3. /\ IsFiniteSet(Units(S, size))
      /\ Cardinality(Units(S, size)) = Cardinality(Units(InUse, size)) - size[c]
  BY <1>1, <1>2, UnitsRemove, Zenon
<1>4. Cardinality(Units(S, size)) \in Nat
  BY <1>3, FS_CardinalityType
<1>5. used \in Nat /\ used = Cardinality(Units(S, size))
  BY <1>2, <1>3, <1>4
<1>6. used <= Capacity \/ \E d \in S : used = size[d]
  <2>1. CASE usedCapacity <= Capacity
    BY <2>1, <1>1
  <2>2. ASSUME NEW d \in InUse, usedCapacity = size[d]
        PROVE  used <= Capacity \/ \E e \in S : used = size[e]
    <3>1. CASE d = c
      BY <2>2, <3>1, <1>1
    <3>2. CASE d # c
      <4>1. size[d] \in Nat
        BY DEF IInv, TypeOK, InUse
      <4>2. size[c] + size[d] <= usedCapacity
        BY <1>1, <1>2, <3>2, <4>1, UnitsOfTwo
      <4>3. used = size[d]
        BY <1>1, <2>2, <4>1, <4>2
      <4>4. QED
        BY <3>2, <4>3
    <3>3. QED
      BY <3>1, <3>2
  <2>3. QED
    BY <2>1, <2>2 DEF IInv, UsageWithinCapacity
<1>7. /\ pcs \in [Callers -> PC]
      /\ S \in SUBSET Callers
      /\ \A d \in Callers : d \in S <=> pcs[d] \in {"accepted", "holding", "finishing"}
      /\ \A d \in Callers : pcs[d] = "queued" <=> d = currentRequest
      /\ currentRequest \in Callers \cup {None}
  BY DEF IInv, TypeOK, PC, InUse, ReceiveCompletion
<1>8. AcceptQueued(currentRequest, used, pcs) /\ UNCHANGED <<size, stopped, monitor>>
  BY <1>5 DEF ReceiveCompletion
<1> HIDE DEF pcs, used, S
<1>9. QED
  BY <1>3, <1>5, <1>6, <1>7, <1>8, AcceptStep

\* Every step of the limiter and of its callers preserves the invariant.
LEMMA NextIInv == IInv /\ [Next]_vars => IInv'
<1> SUFFICES ASSUME IInv, [Next]_vars PROVE IInv'
  OBVIOUS
<1>1. ASSUME NEW c \in Callers, Request(c) PROVE IInv'
  <2>1. InUse' = InUse /\ TypeOK'
    BY <1>1 DEF Request, InUse, IInv, TypeOK, PC
  <2>2. c \notin InUse /\ currentRequest # c /\ c # None
    BY <1>1 DEF Request, InUse, IInv, TypeOK
  <2>3. \A d \in Callers \ {c} : size'[d] = size[d]
    BY <1>1 DEF Request, IInv, TypeOK
  <2>4. \A d \in InUse : size'[d] = size[d]
    BY <2>2, <2>3 DEF InUse
  <2>5. Units(InUse', size') = Units(InUse, size)
    BY <2>1, <2>4, UnitsSame
  <2>6. currentRequest # None => size'[currentRequest] = size[currentRequest]
    BY <2>2, <2>3 DEF IInv, TypeOK
  <2>7. QED
    BY <1>1, <2>1, <2>4, <2>5, <2>6, QuietStep DEF Request
<1>2. ASSUME NEW c \in Callers, Serviced(c) \/ Finish(c) PROVE IInv'
  <2>1. InUse' = InUse /\ TypeOK'
    BY <1>2 DEF Serviced, Finish, InUse, IInv, TypeOK, PC
  <2>2. UNCHANGED <<size, usedCapacity, currentRequest>>
    BY <1>2 DEF Serviced, Finish
  <2>3. QED
    BY <2>1, <2>2, QuietStep
<1>3. ASSUME Stop \/ ReceiveStop \/ UNCHANGED vars PROVE IInv'
  <2>1. InUse' = InUse /\ TypeOK'
    BY <1>3 DEF Stop, ReceiveStop, vars, InUse, IInv, TypeOK, PC
  <2>2. UNCHANGED <<size, usedCapacity, currentRequest>>
    BY <1>3 DEF Stop, ReceiveStop, vars
  <2>3. QED
    BY <2>1, <2>2, QuietStep
<1>4. QED
  BY <1>1, <1>2, <1>3, ReceiveRequestStep, ReceiveCompletionStep DEF Next

\* The limiter's counter never goes below zero, so monitorChannels' panic is
\* unreachable, and all the variables keep their types.
THEOREM TypeCorrect == Spec => []TypeOK
<1>1. IInv => TypeOK
  BY DEF IInv
<1>2. QED
  BY <1>1, InitIInv, NextIInv, PTL DEF Spec

\* usedCapacity is the sum of the sizes let in, whatever the interleaving of
\* requests, completions and Stop.
THEOREM CounterIsExact == Spec => []CounterExact
<1>1. IInv => CounterExact
  BY DEF IInv
<1>2. QED
  BY <1>1, InitIInv, NextIInv, PTL DEF Spec

\* The promise of NewRateLimit: at most Capacity in use, or a single caller.
THEOREM CapacityRespected == Spec => []UsageWithinCapacity
<1>1. IInv => UsageWithinCapacity
  BY DEF IInv
<1>2. QED
  BY <1>1, InitIInv, NextIInv, PTL DEF Spec

\* A request waits in monitorChannels only while it would not fit.
THEOREM NoNeedlessWait == Spec => []QueuedDoesNotFit
<1>1. IInv => QueuedDoesNotFit
  BY DEF IInv
<1>2. QED
  BY <1>1, InitIInv, NextIInv, PTL DEF Spec

\* While a request is queued nobody else is let in.
THEOREM QueueNotOvertaken == Spec => NoOvertaking
<1>1. IInv /\ [Next]_vars
        => [currentRequest # None /\ currentRequest' = currentRequest
              => InUse' \subseteq InUse]_vars
  <2> SUFFICES ASSUME IInv, Next, currentRequest # None, currentRequest' = currentRequest
               PROVE  InUse' \subseteq InUse
    BY DEF vars
  <2>1. ASSUME NEW c \in Callers, Request(c) \/ Serviced(c) \/ Finish(c)
        PROVE  InUse' \subseteq InUse
    BY <2>1 DEF Request, Serviced, Finish, InUse, IInv, TypeOK
  <2>2. ASSUME NEW c \in Callers, ReceiveRequest(c) PROVE FALSE
    BY <2>2 DEF ReceiveRequest
  <2>3. ASSUME NEW c \in Callers, ReceiveCompletion(c) PROVE InUse' \subseteq InUse
    BY <2>3 DEF ReceiveCompletion, AcceptQueued, InUse, IInv, TypeOK
  <2>4. ASSUME Stop \/ ReceiveStop PROVE InUse' \subseteq InUse
    BY <2>4 DEF Stop, ReceiveStop, InUse
  <2>5. QED
    BY <2>1, <2>2, <2>3, <2>4 DEF Next
<1>2. QED
  BY <1>1, InitIInv, NextIInv, PTL DEF Spec, NoOvertaking
=============================================================================

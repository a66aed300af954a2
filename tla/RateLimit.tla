------------------------------ MODULE RateLimit ------------------------------
(***************************************************************************)
(* zip/rate_limit.go: one goroutine (monitorChannels) owns the counter     *)
(* usedCapacity and at most one queued request; callers reach it through   *)
(* two unbuffered channels.  A caller blocked in a channel send is a       *)
(* caller whose pc is "requesting" or "finishing"; the receive, and the    *)
(* rest of that iteration of the loop, is one step of the monitor.         *)
(***************************************************************************)
EXTENDS Integers, FiniteSets

CONSTANTS Callers,    \* goroutines that use the limiter
          Sizes,      \* the sizes they ask for
          Capacity,   \* NewRateLimit's argument
          None        \* no queued request (a nil currentRequest)

ASSUME CallersAssumption == IsFiniteSet(Callers) /\ None \notin Callers
ASSUME SizesAssumption == Sizes \subseteq Nat
ASSUME CapacityAssumption == Capacity \in Nat

VARIABLES pc,             \* where each caller is in Request ... Finish
          size,           \* the size of each caller's request
          usedCapacity,   \* monitorChannels' counter
          currentRequest, \* the caller whose request is queued, or None
          stopped,        \* the stop channel is closed
          monitor         \* "running", "returned" or "panicked"

vars == <<pc, size, usedCapacity, currentRequest, stopped, monitor>>

Init ==
  /\ pc = [c \in Callers |-> "idle"]
  /\ size = [c \in Callers |-> 0]
  /\ usedCapacity = 0
  /\ currentRequest = None
  /\ stopped = FALSE
  /\ monitor = "running"

(***************************************************************************)
(* The callers.                                                            *)
(***************************************************************************)
Request(c) ==
  /\ pc[c] = "idle"
  /\ \E n \in Sizes : size' = [size EXCEPT ![c] = n]
  /\ pc' = [pc EXCEPT ![c] = "requesting"]
  /\ UNCHANGED <<usedCapacity, currentRequest, stopped, monitor>>

\* The caller takes the token out of its own buffered channel "serviced".
Serviced(c) ==
  /\ pc[c] = "accepted"
  /\ pc' = [pc EXCEPT ![c] = "holding"]
  /\ UNCHANGED <<size, usedCapacity, currentRequest, stopped, monitor>>

Finish(c) ==
  /\ pc[c] = "holding"
  /\ pc' = [pc EXCEPT ![c] = "finishing"]
  /\ UNCHANGED <<size, usedCapacity, currentRequest, stopped, monitor>>

Stop ==
  /\ ~stopped
  /\ stopped' = TRUE
  /\ UNCHANGED <<pc, size, usedCapacity, currentRequest, monitor>>

(***************************************************************************)
(* The monitor.  Every iteration ends with the attempt to accept the       *)
(* queued request.                                                         *)
(***************************************************************************)
MutAcceptsAnySize(used, n) == used = 0 \/ Capacity > used
MutAcceptsOnlyFitting(used, n) == Capacity >= used + n

Accepts(used, n) == used = 0 \/ Capacity >= used + n

MutAcceptUncounted(c, used, pcs) ==
  /\ usedCapacity' = used
  /\ IF c # None /\ Accepts(used, size[c])
     THEN pc' = [pcs EXCEPT ![c] = "accepted"] /\ currentRequest' = None
     ELSE pc' = pcs /\ currentRequest' = c

AcceptQueued(c, used, pcs) ==
  IF c # None /\ Accepts(used, size[c])
  THEN /\ usedCapacity' = used + size[c]
       /\ pc' = [pcs EXCEPT ![c] = "accepted"]
       /\ currentRequest' = None
  ELSE /\ usedCapacity' = used
       /\ pc' = pcs
       /\ currentRequest' = c

MutReceiveAlways(c) ==
  /\ monitor = "running"
  /\ pc[c] = "requesting"
  /\ AcceptQueued(c, usedCapacity, [pc EXCEPT ![c] = "queued"])
  /\ UNCHANGED <<size, stopped, monitor>>

MutReceiveBypass(c) ==
  /\ monitor = "running"
  /\ pc[c] = "requesting"
  /\ \/ /\ currentRequest = None
        /\ AcceptQueued(c, usedCapacity, [pc EXCEPT ![c] = "queued"])
     \/ /\ currentRequest # None
        /\ Accepts(usedCapacity, size[c])
        /\ usedCapacity' = usedCapacity + size[c]
        /\ pc' = [pc EXCEPT ![c] = "accepted"]
        /\ UNCHANGED currentRequest
  /\ UNCHANGED <<size, stopped, monitor>>

ReceiveRequest(c) ==
  /\ monitor = "running"
  /\ currentRequest = None
  /\ pc[c] = "requesting"
  /\ AcceptQueued(c, usedCapacity, [pc EXCEPT ![c] = "queued"])
  /\ UNCHANGED <<size, stopped, monitor>>

MutCompletionOnly(c) ==
  /\ monitor = "running"
  /\ pc[c] = "finishing"
  /\ usedCapacity' = usedCapacity - size[c]
  /\ pc' = [pc EXCEPT ![c] = "idle"]
  /\ UNCHANGED <<size, currentRequest, stopped, monitor>>

ReceiveCompletion(c) ==
  /\ monitor = "running"
  /\ pc[c] = "finishing"
  /\ IF usedCapacity - size[c] < 0
     THEN /\ monitor' = "panicked"
          /\ usedCapacity' = usedCapacity - size[c]
          /\ pc' = [pc EXCEPT ![c] = "idle"]
          /\ UNCHANGED currentRequest
     ELSE /\ AcceptQueued(currentRequest, usedCapacity - size[c],
                          [pc EXCEPT ![c] = "idle"])
          /\ UNCHANGED monitor
  /\ UNCHANGED <<size, stopped>>

ReceiveStop ==
  /\ monitor = "running"
  /\ stopped
  /\ monitor' = "returned"
  /\ UNCHANGED <<pc, size, usedCapacity, currentRequest, stopped>>

Next ==
  \/ \E c \in Callers : \/ Request(c) \/ Serviced(c) \/ Finish(c)
                        \/ ReceiveRequest(c) \/ ReceiveCompletion(c)
  \/ Stop
  \/ ReceiveStop

(***************************************************************************)
(* Fairness: goroutines are scheduled, a caller that was let in finishes,  *)
(* and a channel serves its blocked senders in the order they came, so     *)
(* none of them is passed over for ever (strong fairness of the receive).  *)
(***************************************************************************)
Fairness ==
  \A c \in Callers : /\ WF_vars(Serviced(c))
                     /\ WF_vars(Finish(c))
                     /\ SF_vars(ReceiveRequest(c))
                     /\ SF_vars(ReceiveCompletion(c))

Spec == Init /\ [][Next]_vars
FairSpec == Spec /\ Fairness

-----------------------------------------------------------------------------
PC == {"idle", "requesting", "queued", "accepted", "holding", "finishing"}

\* Callers whose size is counted: accepted, and not yet taken back.
InUse == {c \in Callers : pc[c] \in {"accepted", "holding", "finishing"}}

\* The capacity a set S of callers holds when their sizes are f, unit by unit:
\* the cardinality of this set is the sum of the sizes.
Units(S, f) == UNION {{c} \X (1 .. f[c]) : c \in S}

\* Type invariant.  The queued request is the one its caller waits on, and
\* the panic "usedCapacity < 0" of monitorChannels is never reached.
TypeOK ==
  /\ pc \in [Callers -> PC]
  /\ size \in [Callers -> Nat]
  /\ usedCapacity \in Nat
  /\ currentRequest \in Callers \cup {None}
  /\ stopped \in BOOLEAN
  /\ monitor \in {"running", "returned"}
  /\ \A c \in Callers : pc[c] = "queued" <=> currentRequest = c

\* usedCapacity is the sum of the sizes of the executions let in and not yet
\* finished: no token is lost or counted twice between the three channels.
CounterExact == usedCapacity = Cardinality(Units(InUse, size))

\* "permits the usage of up to <capacity> at once, except when no capacity is
\* in use, in which case the first caller is always permitted" (NewRateLimit):
\* the sizes in use sum to at most Capacity, or all of them come from one caller.
UsageWithinCapacity ==
  \/ usedCapacity <= Capacity
  \/ \E c \in InUse : usedCapacity = size[c]

\* No one overtakes the queued request: while monitorChannels keeps it queued
\* nobody else is let in, so small requests cannot starve a large one.
NoOvertaking ==
  [][currentRequest # None /\ currentRequest' = currentRequest
       => InUse' \subseteq InUse]_vars

\* A queued request is refused only while it would not fit: the monitor never
\* goes back to its select with a request it could have accepted.
QueuedDoesNotFit ==
  currentRequest # None => ~Accepts(usedCapacity, size[currentRequest])

\* Every Request returns, however large and whoever else asks, as long as the
\* limiter is not stopped.
RequestServed ==
  \A c \in Callers : pc[c] = "requesting" ~> (pc[c] = "holding" \/ stopped)
=============================================================================

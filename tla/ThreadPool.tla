----------------------------- MODULE ThreadPool -----------------------------
(***************************************************************************)
(* finder/finder.go: threadPool and semaphore.  The main goroutine and the *)
(* functions that are running request functions with Run; each gets a      *)
(* goroutine at once, which waits for the semaphore, runs the function and *)
(* counts down the WaitGroup that Wait waits for.                          *)
(***************************************************************************)
EXTENDS Integers, FiniteSets

CONSTANTS Tasks,     \* the functions that may be requested
          Capacity,  \* maxNumConcurrentThreads
          Main       \* the main goroutine

ASSUME PoolAssumption == IsFiniteSet(Tasks) /\ Capacity \in Nat \ {0} /\ Main \notin Tasks

VARIABLES parent,     \* who requests each task, if it gets to run: main or another task
          pc,         \* the goroutine of each task: "new", "lock", "running", "unlocked", "done"
          received,   \* the WaitGroup receivedRequests
          active,     \* how many values are in the semaphore's channel
          main        \* "running", "waiting" (in Wait) or "returned"

vars == <<parent, pc, received, active, main>>

Init ==
  /\ parent \in [Tasks -> Tasks \cup {Main}]
  /\ pc = [t \in Tasks |-> "new"]
  /\ received = 0 /\ active = 0
  /\ main = "running"

\* Who may call Run: main before it calls Wait, and the functions that run.
Caller(g) == IF g = Main THEN main = "running" ELSE pc[g] = "running"
Calls(g) == {t \in Tasks : parent[t] = g}
CalledAll(g) == \A t \in Calls(g) : pc[t] # "new"

\* Run waits for capacity before it returns: what the comment in Run warns of.
MutRun(g, t) ==
  /\ Caller(g) /\ t \in Calls(g) /\ pc[t] = "new"
  /\ active < Capacity
  /\ received' = received + 1
  /\ active' = active + 1
  /\ pc' = [pc EXCEPT ![t] = "running"]
  /\ UNCHANGED <<parent, main>>

\* Run without Add.
MutNoAdd(g, t) ==
  /\ Caller(g) /\ t \in Calls(g) /\ pc[t] = "new"
  /\ pc' = [pc EXCEPT ![t] = "lock"]
  /\ UNCHANGED <<parent, received, active, main>>

Run(g, t) ==
  /\ Caller(g) /\ t \in Calls(g) /\ pc[t] = "new"
  /\ received' = received + 1
  /\ pc' = [pc EXCEPT ![t] = "lock"]
  /\ UNCHANGED <<parent, active, main>>

MutLock(t) ==
  /\ pc[t] = "lock" /\ active <= Capacity
  /\ active' = active + 1
  /\ pc' = [pc EXCEPT ![t] = "running"]
  /\ UNCHANGED <<parent, received, main>>

Lock(t) ==
  /\ pc[t] = "lock" /\ active < Capacity
  /\ active' = active + 1
  /\ pc' = [pc EXCEPT ![t] = "running"]
  /\ UNCHANGED <<parent, received, main>>

Unlock(t) ==
  /\ pc[t] = "running" /\ CalledAll(t)
  /\ active' = active - 1
  /\ pc' = [pc EXCEPT ![t] = "unlocked"]
  /\ UNCHANGED <<parent, received, main>>

\* Done at the end of the function, and once more by the goroutine.
MutDone(t) ==
  /\ pc[t] = "unlocked"
  /\ received' = received - 2
  /\ pc' = [pc EXCEPT ![t] = "done"]
  /\ UNCHANGED <<parent, active, main>>

Done(t) ==
  /\ pc[t] = "unlocked"
  /\ received' = received - 1
  /\ pc' = [pc EXCEPT ![t] = "done"]
  /\ UNCHANGED <<parent, active, main>>

Wait == main = "running" /\ CalledAll(Main) /\ main' = "waiting" /\ UNCHANGED <<parent, pc, received, active>>

MutWaitReturns ==
  /\ main = "waiting" /\ active = 0
  /\ main' = "returned"
  /\ UNCHANGED <<parent, pc, received, active>>

WaitReturns ==
  /\ main = "waiting" /\ received = 0
  /\ main' = "returned"
  /\ UNCHANGED <<parent, pc, received, active>>

Goroutine(t) == Lock(t) \/ Unlock(t) \/ Done(t)

Next ==
  \/ \E t \in Tasks : Goroutine(t) \/ \E g \in Tasks \cup {Main} : Run(g, t)
  \/ Wait \/ WaitReturns

\* Goroutines run as long as they can; a function that is running ends.
Fairness ==
  /\ \A t \in Tasks : WF_vars(Unlock(t)) /\ WF_vars(Done(t)) /\ SF_vars(Lock(t))
  /\ \A t \in Tasks, g \in Tasks \cup {Main} : WF_vars(Run(g, t))
  /\ WF_vars(Wait) /\ WF_vars(WaitReturns)

Spec == Init /\ [][Next]_vars
FairSpec == Spec /\ Fairness

-----------------------------------------------------------------------------
PC == {"new", "lock", "running", "unlocked", "done"}
Pending == {t \in Tasks : pc[t] \in {"lock", "running", "unlocked"}}
Holding == {t \in Tasks : pc[t] = "running"}

\* Type invariant; the WaitGroup's counter never goes below zero.
TypeOK ==
  /\ pc \in [Tasks -> PC]
  /\ received \in Nat /\ active \in 0 .. Capacity
  /\ main \in {"running", "waiting", "returned"}

\* "Without throttling, Go may exhaust the maximum number of various
\* resources": at most Capacity functions run at once.
Throttled == Cardinality(Holding) <= Capacity

\* "Wait waits until all goroutines are done": when Wait has returned, no
\* requested function is left, the ones that running functions requested while
\* main was already waiting included, and none can be requested any more.
WaitIsComplete == main = "returned" => Pending = {}

\* Wait returns although running functions request more than the semaphore has
\* room for: Run does not wait for capacity.
WaitEnds == <>(main = "returned")

\* The pool that loadFromFilesystem relies on, where a requested function is
\* just pending until it has finished.
Pool == INSTANCE TaskPool WITH
  pending <- Pending,
  finished <- {t \in Tasks : pc[t] = "done"}

\* ThreadPool implements TaskPool: no step of the goroutines adds, loses or
\* finishes a request in another way.
ImplementsTaskPool == Pool!Spec
=============================================================================

CONSTANTS
  Procs = {p1, p2, p3}
  Keys = {k1, k2}
  Nothing = Nothing
  Waiter = Waiter
  Nil = Nil
SPECIFICATION FairSpec
INVARIANTS TypeOK ComputedOnce SameValue WaiterValid
PROPERTIES CallEnds
CHECK_DEADLOCK FALSE

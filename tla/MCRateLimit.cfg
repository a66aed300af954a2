CONSTANTS
  c1 = c1
  c2 = c2
  c3 = c3
  None = None
  Callers = {c1, c2, c3}
  Sizes = {0, 1, 2, 4}
  Capacity = 3
SPECIFICATION FairSpec
INVARIANTS TypeOK CounterExact UsageWithinCapacity QueuedDoesNotFit
PROPERTIES NoOvertaking RequestServed
CHECK_DEADLOCK FALSE

CONSTANTS
  Procs = {p1, p2, p3}
  MaxSize = 2
  Exclusive = TRUE
SPECIFICATION Spec
INVARIANTS DbWhole LoadedWhole
CHECK_DEADLOCK FALSE

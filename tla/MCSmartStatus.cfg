CONSTANTS
  Actions = {a1, a2, a3}
  TableMode = TRUE
  MaxHeight = 2
SPECIFICATION FairSpec
INVARIANTS RunningExact
PROPERTIES ShownInTime
CHECK_DEADLOCK FALSE

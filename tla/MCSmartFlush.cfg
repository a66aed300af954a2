CONSTANTS
  Actions = {a1, a2, a3}
  TableMode = TRUE
  MaxHeight = 2
SPECIFICATION FairSpec
PROPERTIES FlushReturns
CHECK_DEADLOCK FALSE

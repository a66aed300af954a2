CONSTANTS
  Tasks = {t1, t2, t3, t4}
  Capacity = 2
  Main = Main
SPECIFICATION FairSpec
INVARIANTS TypeOK Throttled WaitIsComplete
PROPERTIES WaitEnds ImplementsTaskPool
CHECK_DEADLOCK FALSE

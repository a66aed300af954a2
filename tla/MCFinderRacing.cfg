CONSTANTS
  None = None
  DirOrder <- MCDirOrder
  Roots <- MCRoots
  ExcludeDirs = {"out"}
  Files = {"f", "prune"}
  PruneFile = "prune"
  NumThreads = 2
  MaxChanges = 2
  MaxLoads = 2
  Racing = TRUE
  Chmods = {"r"}
SPECIFICATION FairSpec
INVARIANTS OneTaskPerNode 
PROPERTIES LoadEnds
CHECK_DEADLOCK FALSE

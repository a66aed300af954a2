CONSTANTS
  None = None
  DirOrder <- MCDirOrderExcluded
  Roots <- MCRoots
  ExcludeDirs = {"out"}
  Files = {"f", "prune"}
  PruneFile = "prune"
  NumThreads = 2
  MaxChanges = 2
  MaxLoads = 2
  Racing = FALSE
  Chmods = {"r"}
SPECIFICATION Spec
INVARIANTS QuietLoadIsFresh
CHECK_DEADLOCK FALSE

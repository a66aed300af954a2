CONSTANTS
  None = None
  Layouts <- MCLayouts
  BlockSize = 2
  MinParallel = 4
  CpuCapacity = 2
  MemCapacity = 3
  WriteOpsCap = 1
SPECIFICATION FairSpec
INVARIANTS ArchiveInOrder  ErrorsReported MemoryBalanced CpuBound NoReadAfterClose
PROPERTIES Termination
CHECK_DEADLOCK FALSE

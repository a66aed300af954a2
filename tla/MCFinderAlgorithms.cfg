CONSTANTS
  DirOrder <- MCDirOrder
  Devices = {1, 2}
  Threads = {1, 2, 3, 4}
  MaxWork = 2
  MaxThreads = 4
SPECIFICATION MCSpec
INVARIANTS RoundTrip BlocksPartition FoundExactly
CHECK_DEADLOCK FALSE

\* Two groups, two I/O threads, one of which may be missing; reads that fail.
CONSTANTS
  AGs = 2
  Clusters <- FourAndOne
  Dirs <- DirBlocks
  Cached <- Mixed
  Skew <- Skewed
  MaxQueue = 1
  IO_THRESHOLD = 2
  BatchFsbs = 1
  IoThreads = 2
  Stride = FALSE
  Faults = {"read", "worker", "first"}
  None = None
SPECIFICATION FairSpec
INVARIANTS QueuedLocked CountExact Asserts ArgsAlive
PROPERTIES Finishes
CHECK_DEADLOCK FALSE

\* Two threads that read and write the same blocks, as those of xfs_repair do.
CONSTANTS
  None = None
  Threads = {t1, t2}
  Blocks = {k1, k2}
  Bufs = {b1, b2, b3}
  UseLock = TRUE
  MaxHeld = 1
  MaxVersion = 2
  Faults = {}
SPECIFICATION BufferSpec
INVARIANT SyncedToDisk
CHECK_DEADLOCK FALSE

\* Two threads read, load and reload the same list; leaves are corrupt, the
\* device fails, and the process may die of it.
CONSTANTS
  t1 = t1  t2 = t2
  Threads = {t1, t2}
  BlockSize = 2
  Records <- Dense
  Unwritten = {}
  LeafSize = 2
  Btree = TRUE
  Size = 6
  Requests <- SomeRequests
  Junk <- SomeJunk
  DeviceFails = TRUE
  LeafFails = TRUE
SPECIFICATION Spec
SYMMETRY Symmetry
INVARIANTS LoadRemembered
PROPERTIES NoOverrun
CHECK_DEADLOCK FALSE

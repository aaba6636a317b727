\* The same thread, and one extent that is allocated but not written.
CONSTANTS
  t1 = t1  t2 = t2
  Threads = {t1}
  BlockSize = 2
  Records <- Sparse
  Unwritten = {2}
  LeafSize = 2
  Btree = TRUE
  Size = 13
  Requests <- AllRequests
  Junk = {}
  DeviceFails = FALSE
  LeafFails = FALSE
SPECIFICATION Spec
INVARIANTS ReadRight
CHECK_DEADLOCK FALSE

\* One thread and a btree-format fork; the device fails now and then.
CONSTANTS
  t1 = t1  t2 = t2
  Threads = {t1}
  BlockSize = 2
  Records <- Sparse
  Unwritten = {}
  LeafSize = 2
  Btree = TRUE
  Size = 13
  Requests <- AllRequests
  Junk = {}
  DeviceFails = TRUE
  LeafFails = FALSE
SPECIFICATION Spec
INVARIANTS ReadRight
CHECK_DEADLOCK FALSE

\* One thread, a buffer for two blocks, two inodes, chunks of two descriptors.
CONSTANTS
  None = None
  Threads = {t1}
  Blocks = {k1, k2}
  Bufs = {b1}
  Inodes = {i1, i2}
  UseLock = TRUE
  MaxHeld = 1
  MaxVersion = 1
  Faults = {"read"}
  NumSlots = 2
  MaxRecur = 1
  CancelDirty = FALSE
  FlushFails = FALSE
SPECIFICATION Spec
SYMMETRY Alike
INVARIANTS DescriptorsExact ReferencesReturned LoggedReadBack LoggedNotLost FreedNotWritten Unjoined

\* Three targets, any of which may fail at any write, three fills of the buffer.
CONSTANTS
  NumTargets = 3
  NumBufs = 3
  NumTail = 2
SPECIFICATION FairSpec
INVARIANTS KeptUp Reported
PROPERTIES BufferStable Ends
\* The main thread sleeps for ever when all targets have failed.
CHECK_DEADLOCK FALSE

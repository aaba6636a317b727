\* Three workers, five groups, four addresses for items.
CONSTANTS
  w1 = w1  w2 = w2  w3 = w3
  a1 = a1  a2 = a2  a3 = a3  a4 = a4
  NULL = NULL
  Workers = {w1, w2, w3}
  Addresses = {a1, a2, a3, a4}
  AGs = 5
SPECIFICATION FairSpec
INVARIANTS ListExact NoLostWakeup Barrier
PROPERTY Ends

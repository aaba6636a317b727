\* Two keys on one chain and two nodes: one node is all a shake takes, so that a
\* lookup retries at the same priority and another client can refill the cache.
CONSTANTS
  t1 = t1  t2 = t2  k1 = k1  k2 = k2  k3 = k3  b1 = b1  b2 = b2
  n1 = n1  n2 = n2
  None = None
  Threads = {t1, t2}
  Slots = {1}
  Keys = {k1, k2}
  Buckets = {b1}
  Hash <- OneChain
  Nodes = {n1, n2}
  MaxPriority = 1
  ShakeCount = 1
  InitMaxcount = 1
  MaxcountBound = 2
SPECIFICATION FairSpec
PROPERTIES CallsReturn

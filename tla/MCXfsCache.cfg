\* Two threads, one reference each; two keys on one chain, a third on another.
CONSTANTS
  t1 = t1  t2 = t2  k1 = k1  k2 = k2  k3 = k3  b1 = b1  b2 = b2
  n1 = n1  n2 = n2
  None = None
  Threads = {t1, t2}
  Slots = {1}
  Keys = {k1, k2, k3}
  Buckets = {b1, b2}
  Hash <- TwoChains
  Nodes = {n1, n2}
  MaxPriority = 1
  ShakeCount = 1
  InitMaxcount = 1
  MaxcountBound = 3
SPECIFICATION Spec
SYMMETRY Symmetry
INVARIANTS TypeOK RefCountExact PinnedStaysCached Reclaimable ShakerAsserts CapacityExact CapacityBound
PROPERTIES PurgeComplete RefinesPinnedStore

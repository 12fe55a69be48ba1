SPECIFICATION Spec
CONSTANTS
  s1 = s1
  s2 = s2
  k1 = k1
  k2 = k2
  k3 = k3
  m1 = m1
  r1 = r1
  r2 = r2
  Servers = {s1, s2}
  Conns = {k1, k2, k3}
  HomeOf <- Homes
  Caches = {m1}
  CacheOf <- OneRedis
  Requests = {r1, r2}
  MaxChannels = 2
  MaxHolds = 2
  None = None
SYMMETRY Symmetry
CONSTRAINT InScope
INVARIANTS TypeOK ExclusionAcrossServers OneRolloverPerWindow OneSelected CacheStaleHasCause
PROPERTIES SelectionStays
CHECK_DEADLOCK FALSE

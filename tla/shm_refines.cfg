SPECIFICATION FairSpec
CONSTANTS
  w1 = w1 w2 = w2 c1 = c1 c2 = c2 srv = srv fa = fa fb = fb
  Nil = Nil
  Workers = {w1, w2}
  Confs = {c1, c2}
  Owner <- MCOwner
  Keys = {srv, fa, fb}
  TypeOf <- MCTypeOf
  Hash <- DistinctHash
  Limited <- MCLimited
  Slots = {p1, p2}
  filter_max_node = 2
  PoolMayFail = TRUE
  MaxReqs = 1
  MaxTime = 1
  MaxCrashes = 0
PROPERTIES
  ImplementsStats
  CriticalSectionEnds

SPECIFICATION Spec
CONSTANTS
  w1 = w1 w2 = w2 c1 = c1 c2 = c2 srv = srv fa = fa fb = fb
  Nil = Nil
  Workers = {w1, w2}
  Confs = {c1, c2}
  Owner <- MCOwner
  Keys = {srv, fa, fb}
  TypeOf <- MCTypeOf
  Hash <- DistinctHash
  Limited <- MCLimited
  Slots = {p1, p2}
  filter_max_node = 1
  PoolMayFail = FALSE
  MaxReqs = 2
  MaxTime = 0
  MaxCrashes = 1
SYMMETRY PageSymmetry
INVARIANTS
  TypeOK
  NodeKeysUnique
  CachedNodeServes
  CountsOwnNode
  FilterNodesBounded
  SlabLeaksOnlyByCrash

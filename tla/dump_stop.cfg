CHECK_DEADLOCK FALSE
SPECIFICATION Spec
CONSTANTS
  Workers = {w1, w2, w3}
  Keys = {a, b, c}
  LongKeys = {}
  Nil = Nil
  Pages = 3
  filter_max_node = 2
  dump_period = 0
  DiskMayFill = FALSE
  MaxReqs = 2
  MaxTime = 1
  MaxDeletes = 1
  MaxKills = 0
  MaxStarts = 2
SYMMETRY Symmetry
INVARIANTS
  TypeOK
  StopSavesAll
  RestoreComplete
PROPERTIES
  LiveCountersKept

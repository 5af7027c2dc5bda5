CHECK_DEADLOCK FALSE
SPECIFICATION Spec
CONSTANTS
  Workers = {w1, w2}
  Keys = {a, b}
  LongKeys = {}
  Nil = Nil
  Pages = 2
  filter_max_node = 0
  dump_period = 1
  DiskMayFill = FALSE
  MaxReqs = 2
  MaxTime = 2
  MaxDeletes = 1
  MaxKills = 2
  MaxStarts = 1
SYMMETRY Symmetry
INVARIANTS
  DumpSurvives

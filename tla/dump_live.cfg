CHECK_DEADLOCK FALSE
SPECIFICATION FairSpec
CONSTANTS
  Workers = {w1, w2}
  Keys = {a, b}
  LongKeys = {a}
  Nil = Nil
  Pages = 2
  filter_max_node = 0
  dump_period = 1
  DiskMayFill = TRUE
  MaxReqs = 1
  MaxTime = 2
  MaxDeletes = 1
  MaxKills = 1
  MaxStarts = 1
PROPERTIES
  StopEnds

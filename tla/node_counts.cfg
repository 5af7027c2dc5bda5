SPECIFICATION Spec
CONSTANTS
  s1 = s1 s2 = s2 u = u
  Zones = {s1, s2, u}
  Upstreams = {u}
  QUEUE_LEN = 3
  W = 3
  Msecs = {0, 2}
  Buckets <- TwoBuckets
  average_method = "WMA"
  average_period = 1
  MaxReqs = 4
  MaxTime = 1
SYMMETRY ServerSymmetry
INVARIANTS
  TypeOK
  QueueKeepsNewest
  AverageOfRecent
  CountersExact
  HistogramCumulative
  SumExact
  SumIsNewest

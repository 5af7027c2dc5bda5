SPECIFICATION Spec
CONSTANTS
  s1 = s1 s2 = s2 u = u
  Zones = {s1}
  Upstreams = {}
  QUEUE_LEN = 3
  W = 3
  Msecs = {0, 1, 2}
  Buckets <- TwoBuckets
  average_method = "AMM"
  average_period = 1
  MaxReqs = 4
  MaxTime = 2
INVARIANTS
  ResetIsInit

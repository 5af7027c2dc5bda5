CHECK_DEADLOCK FALSE
SPECIFICATION Spec
CONSTANTS
  Runs = {r1, r2, r3}
  Pages = {p1, p2}
  MaxAtOnce = 2
  MaxInterrupts = 0
SYMMETRY HostSymmetry
INVARIANTS
  AtMostOneInside

CONSTANTS
  Nodes = {n1, n2}
  Strategies = {p1, p2}
  Known = {n1}
  Timeout = 0
  MaxTime = 1
SPECIFICATION NbrFairSpec
CHECK_DEADLOCK TRUE
INVARIANTS SeenIsTracked
PROPERTIES SilentIsReported

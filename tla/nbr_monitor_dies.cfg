CONSTANTS
  Nodes = {n1, n2}
  Strategies = {p1}
  Known = {}
  Timeout = 1
  MaxTime = 2
SPECIFICATION NbrSpec
CHECK_DEADLOCK TRUE
INVARIANT MonitorSurvives

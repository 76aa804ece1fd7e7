CONSTANTS
  Sims = {d1}
  Physicals = {d2, d3}
  OwnNames = {a}
  DeviceNames = {b}
  Servers = {s1, s2}
  Ports = {p1, p2}
  None = None
  RemoveEarly = FALSE
SPECIFICATION FairSpec
CHECK_DEADLOCK TRUE
INVARIANTS NoLostDevice ExitLeavesNothing
PROPERTIES FleetReachesAll ServersEnd

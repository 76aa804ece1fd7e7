CONSTANTS
  Nodes = {n1}
  Fns = {f}
  Hearts = {h1, h2}
  Backends = {b1, b2}
  User = User
  None = None
  Global = Global
  Strategies = {"passive", "ping", "always"}
  Modes = {"sequential", "parallel"}
  CallbackActs = {"return", "raise", "stop", "close"}
  MaxCalls = 4
SPECIFICATION Spec
CHECK_DEADLOCK FALSE
CONSTRAINT Orderly
INVARIANTS QuietAfterClose OneMonitor WorkersLive PingsReach

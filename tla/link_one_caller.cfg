CONSTANTS
  Backends = {b1, b2}
  Loops = {k1, k2}
  User = user
  NoObject = NoObject
  ConnectOutcomes = {"ok", "createFails", "subscribeFails"}
  GetStateOutcomes = {"ok", "ConnectionError", "RuntimeError"}
  JoinTimesOut = FALSE
  ConnectWhileAuto = FALSE
SPECIFICATION FairSpec
CHECK_DEADLOCK TRUE
INVARIANTS NoOrphan LinkConsistent ClosedIsClosed OneLoop
PROPERTIES HealsLostLink CallsReturn 

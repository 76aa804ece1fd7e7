CONSTANTS
  Clients = {caller, monitor}
  MaxCalls = 3
SPECIFICATION FairSpec
CHECK_DEADLOCK FALSE
INVARIANTS 
PROPERTIES ImplementsRpc CleanAnswersOwn CallsReturn

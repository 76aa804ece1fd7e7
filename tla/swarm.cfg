CONSTANTS
  Processes = {p1, p2}
  NoProcess = NoProcess
  InitialNodes = 1
  MaxSeq = 3
  MaxBatch = 2
  MaxNum = 4
  PickIds = {5}
  AddOutcomes = {"ok", "lost", "late"}
  RemoveOutcomes = {"ok", "late"}
  StartOutcomes = {"ok", "fails"}
  StartAgain = FALSE
SPECIFICATION Spec
CHECK_DEADLOCK TRUE
INVARIANTS NoDuplicateNode ClosedMeansStopped CountsAgree EveryNodeKnown

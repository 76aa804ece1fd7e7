CONSTANTS
  Processes = {p1, p2}
  NoProcess = NoProcess
  InitialNodes = 1
  MaxSeq = 3
  MaxBatch = 2
  MaxNum = 4
  PickIds = {2, 3}
  AddOutcomes = {"ok"}
  RemoveOutcomes = {"ok"}
  StartOutcomes = {"ok"}
  StartAgain = FALSE
SPECIFICATION Spec
CHECK_DEADLOCK TRUE
INVARIANT NoDuplicateNode

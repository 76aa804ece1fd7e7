CONSTANTS
  Stream = stream
  Workers = {w1, w2}
  Main = main
  MaxSnap = 3
  MaxPoolSnap = 2
  HistorySize = 1
  MaxRounds = 1
  MaxAttach = 1
SPECIFICATION Spec
CHECK_DEADLOCK TRUE
INVARIANTS RingsAgree ListsAligned
PROPERTIES DetachIsQuiet ShownInTheEnd

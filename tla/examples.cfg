CONSTANTS
  N = 4
  Far = 5
  MaxMoves = 1
  Readings = {0, 1}
  SwitchTick = 2
  MsgStart = 1
  MsgEnd = 2
  MsgInterval = 2
  SendInterval = 2
  MaxTick = 3
  QueryTimeout = 2
  Tiles = {1, 2}
  ExploreTicks = 1
  Width = 2
  Height = 1
  Comm2 = 2
  Devs = {0, 1, 2}
  Threshold = 40
  MaxPasses = 1
  Sinks = 1
  Sources = 2
  Extent = 3
SPECIFICATION FairSpec
CHECK_DEADLOCK FALSE
INVARIANTS NothingInvented SetupServes TilesCut RestIsRight
PROPERTY SettlesRight

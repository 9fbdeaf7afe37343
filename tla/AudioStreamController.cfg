SPECIFICATION Spec
CONSTANTS
  LastSN = 2
  Tracks = {0, 1}
  SecondPart = {2}
  MaxRetry = 1
  Lag = 2
  Faults = 1
  Moves = 1
INVARIANTS UnderWay RightInit
PROPERTIES AudioBuffered EosRight Settles
CHECK_DEADLOCK FALSE

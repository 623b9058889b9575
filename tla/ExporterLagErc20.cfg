SPECIFICATION Spec
CONSTANTS
  i1 = i1
  Instance = {i1}
  StartBlock <- DefaultStart
  BlockInterval = 2
  Confirmations = 1
  EventBlocks = {0, 1, 3, 4}
  InitHead = 1
  MaxHead = 4
  MaxReorg = 0
  MaxVersion = 1
  MaxLag = 3
  Tracking = "interval"
  Advance = "assign"
  ReadMayFail = FALSE
  MaxInterruptions = 2
  NoPosition = NoPosition
PROPERTIES
  PositionNeverBackwards

SPECIFICATION FairLagSpec
CONSTANTS
  i1 = i1
  Instance = {i1}
  StartBlock <- DefaultStart
  BlockInterval = 2
  Confirmations = 1
  EventBlocks = {0, 1, 3}
  InitHead = 1
  MaxHead = 3
  MaxReorg = 0
  MaxVersion = 1
  MaxLag = 2
  Tracking = "equality"
  Advance = "count"
  ReadMayFail = FALSE
  MaxInterruptions = 2
  NoPosition = NoPosition
PROPERTIES
  ContinuesAfterRestart

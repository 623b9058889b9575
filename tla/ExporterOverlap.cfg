SPECIFICATION Spec
CONSTANTS
  i1 = i1
  i2 = i2
  Instance = {i1, i2}
  StartBlock <- DefaultStart
  BlockInterval = 2
  Confirmations = 1
  EventBlocks = {0, 1, 2}
  InitHead = 2
  MaxHead = 3
  MaxReorg = 1
  MaxVersion = 1
  MaxLag = 1
  Tracking = "equality"
  Advance = "count"
  ReadMayFail = TRUE
  MaxInterruptions = 1
  NoPosition = NoPosition
SYMMETRY Symmetry
INVARIANTS
  IInv
PROPERTIES
  WholeBatches
  ImplementsStream

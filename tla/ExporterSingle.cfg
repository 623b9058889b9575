SPECIFICATION FairLagSpec
CONSTANTS
  i1 = i1
  Instance = {i1}
  StartBlock <- DefaultStart
  BlockInterval = 2
  Confirmations = 1
  EventBlocks = {0, 1, 3}
  InitHead = 1
  MaxHead = 4
  MaxReorg = 1
  MaxVersion = 1
  MaxLag = 2
  Tracking = "interval"
  Advance = "strict"
  ReadMayFail = FALSE
  MaxInterruptions = 3
  NoPosition = NoPosition
INVARIANTS
  TypeOK
  SavedPositionCovered
  CommittedWithoutGaps
  ExportedIsFinal
  DuplicatesBounded
  GracefulStopIsClean
PROPERTIES
  NothingSavedIsResent
  PositionNeverBackwards
  ConfirmedIsEventuallyExported
  StopTerminates

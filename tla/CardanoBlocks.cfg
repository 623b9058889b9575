SPECIFICATION FairSpec
CONSTANTS
  BlockInterval = 3
  Confirmations = 1
  GenesisCount = 2
  StartKey = 0
  InitTip = 4
  MaxTip = 5
  MaxLag = 1
  MaxTxPerBlock = 2
  MaxCrashes = 1
INVARIANTS
  KeysAreRanks
  SavedIsExported
  BlocksAreWhole
  OnlyConfirmed
PROPERTIES
  EventuallyExported

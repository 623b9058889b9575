SPECIFICATION FairSpec
CONSTANTS
  ValidatorCount = 3
  SecondsPerSlot = 2
  SecondsPerDay = 20
  SlotsPerEpoch = 3
  GenesisTime = 7
  StartSlot = 0
  StartKey = 0
  MaxKafkaMessages = 2
  MaxSlot = 24
  MaxBalance = 1
  MaxCrashes = 2
  Null = Null
INVARIANTS
  SavedDayIsComplete
  SavedKeyCounts
  RecordsChain
  DaysInOrder
PROPERTIES
  EveryDayIsExported

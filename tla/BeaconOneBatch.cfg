SPECIFICATION Spec
CONSTANTS
  ValidatorCount = 2
  SecondsPerSlot = 2
  SecondsPerDay = 20
  SlotsPerEpoch = 3
  GenesisTime = 7
  StartSlot = 0
  StartKey = 0
  MaxKafkaMessages = 1
  MaxSlot = 24
  MaxBalance = 2
  MaxCrashes = 0
  Null = Null
INVARIANTS
  WorkUpdatesPosition

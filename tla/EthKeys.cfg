SPECIFICATION Spec
CONSTANTS
  LONDON_FORK_BLOCK = 2
  THE_MERGE = 3
  DAO_HACK_FORK_BLOCK = 1
  LogsLimit = 4
  Concurrency = 2
  PRIMARY_KEY_MULTIPLIER = 100
  OldContracts = {"OLD"}
  ContractsUnmodified = {"SAN", "WETH"}
  Multiplier = 10
  CustomBlock = 2
  Modes = {"eth"}
  BLOCK_INTERVAL = 2
  MaxBlock = 3
  MaxFailures = 1
  MaxCrashes = 1
INVARIANT
  EthKeysIdentify

SPECIFICATION FairSpec
CONSTANTS
  Workers = {"icp", "icrc", "xrp", "utxo"}
  Batch = 2
  Confirmations = 1
  Attempts = 2
  TransactionsLimit = 5
  BlockLimit = 3
  MaxTip = 4
  MaxLag = 1
  MaxFailures = 2
  MaxCrashes = 1
INVARIANTS
  BalancesAgree
  LedgersAgree
  KeysIdentify
PROPERTIES
  RewindsOnlyByLag
  ConnectionErrorSurfaces
  EventuallyExported

SPECIFICATION Spec
CONSTANTS
  broken = broken
  healthy = healthy
  flaky = flaky
  Contract = {broken, healthy, flaky}
  Broken = {broken}
  Healthy = {healthy}
  Batches <- MCBatches
  MaxConcurrency = 3
  FailureThreshold = 2
  MaxRounds = 1
INVARIANTS
  EveryPairResolvedOnce
  BrokenContractIsDropped
PROPERTIES
  OutageBlamesNobody
CHECK_DEADLOCK FALSE

SPECIFICATION Spec
CONSTANTS
  Kinds = {"raw", "unsigned", "withdraw", "deposit", "gasPrice", "revision", "wallet", "other"}
  MaxActions = 2
  LastBlock = 2
  DeployBlock = 0
  DefaultGasLimit = 3
  Endpoints = {TRUE}
  Samples = {1}
  Shows <- FullOrMissing
  FaultSets <- NoFaults
INVARIANTS
  RecoveredDataIsUsed
CHECK_DEADLOCK FALSE

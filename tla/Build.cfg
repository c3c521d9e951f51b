SPECIFICATION Spec
CONSTANTS
  Kinds = {"raw", "unsigned", "withdraw", "deposit", "gasPrice", "revision", "wallet", "other"}
  MaxActions = 2
  LastBlock = 3
  DeployBlock = 1
  DefaultGasLimit = 3
  Endpoints = {TRUE, FALSE}
  Samples = {1, 2}
  Shows <- AnyShown
  FaultSets <- FaultChoices
INVARIANTS
  TypeOK
  SentIsCanonical
  ExtraFieldsMatch
  GasFits
PROPERTIES
  PayloadsLink
CHECK_DEADLOCK FALSE

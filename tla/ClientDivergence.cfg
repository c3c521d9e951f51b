SPECIFICATION Spec
CONSTANTS
  Content = {c, d}
  Canonical = c
  BlockDelta = 1
  MaxBlock = 4
  MaxLib = 5
  NoHash = NoHash
  NoLib = NoLib
  NoBlock = NoBlock
  Translations = {c, d}
  StartBlock = 1
  StopBlock = 3
  ValidateHash = NoHash
  BatchSize = 2
  SafeHashLookup = 1
  LatestBlocksInDb = 1
  CheckpointInterval = 2
  MaximumSyncRange = 0
  MaxRetry = 1
  Clean = FALSE
  IrreversibleOnly = TRUE
  ChannelCap = 1
  InitialHeads <- AnyHeads
  Faults = {"call", "errorAnswer", "database", "crash", "executor", "executorUnnoticed", "stream", "streamEnd"}
  MaxFaults = 2
INVARIANTS
  NeverReplacesExecutorBlock
  ForkChoiceOnOneChain
  StoredRowsAreAncestors
CHECK_DEADLOCK FALSE

SPECIFICATION Spec
CONSTANTS
  Content = {c, d}
  Canonical = c
  BlockDelta = 1
  MaxBlock = 4
  MaxLib = 5
  NoHash = NoHash
  NoLib = NoLib
  NoBlock = NoBlock
  Translations = {c}
  StartBlock = 1
  StopBlock = 9
  ValidateHash = NoHash
  BatchSize = 2
  SafeHashLookup = 1
  LatestBlocksInDb = 1
  CheckpointInterval = 2
  MaximumSyncRange = 4
  MaxRetry = 2
  Clean = FALSE
  IrreversibleOnly = TRUE
  ChannelCap = 1
  InitialHeads <- DivergentHead
  Faults = {}
  MaxFaults = 0
PROPERTIES
  ResumesOnExecutorChain
CHECK_DEADLOCK FALSE

SPECIFICATION Spec
CONSTANTS
  Content = {c, d}
  Canonical = c
  BlockDelta = 1
  MaxBlock = 4
  MaxLib = 5
  NoHash = NoHash
  NoLib = NoLib
  NoBlock = NoBlock
  Translations = {c, d}
  StartBlock = 1
  StopBlock = 3
  ValidateHash = NoHash
  BatchSize = 2
  SafeHashLookup = 1
  LatestBlocksInDb = 1
  CheckpointInterval = 2
  MaximumSyncRange = 4
  MaxRetry = 1
  Clean = FALSE
  IrreversibleOnly = TRUE
  ChannelCap = 1
  InitialHeads <- CanonicalHeads
  Faults = {"errorAnswer"}
  MaxFaults = 1
PROPERTIES
  NeverReorganized
CHECK_DEADLOCK FALSE

SPECIFICATION Spec
CONSTANTS
  Content = {c, d}
  Canonical = c
  BlockDelta = 1
  MaxBlock = 4
  MaxLib = 5
  NoHash = NoHash
  NoLib = NoLib
  NoBlock = NoBlock
  Translations = {c, d}
  StartBlock = 1
  StopBlock = 9
  ValidateHash <- CanonicalStart
  BatchSize = 2
  SafeHashLookup = 1
  LatestBlocksInDb = 3
  CheckpointInterval = 3
  MaximumSyncRange = 4
  MaxRetry = 1
  Clean = FALSE
  IrreversibleOnly = FALSE
  ChannelCap = 1
  InitialHeads <- CanonicalHeads
  Faults = {"call", "errorAnswer", "response", "database", "crash"}
  MaxFaults = 1
INVARIANTS
  OnlyValidatedChainSent
PROPERTIES
  ResumesAtFinalBlock
  StoredLibNeverRegresses
CHECK_DEADLOCK FALSE

SPECIFICATION FairSpec
CONSTANTS
  Content = {c}
  Canonical = c
  BlockDelta = 1
  MaxBlock = 5
  MaxLib = 6
  NoHash = NoHash
  NoLib = NoLib
  NoBlock = NoBlock
  Translations = {c}
  StartBlock = 1
  StopBlock = 9
  ValidateHash = NoHash
  BatchSize = 2
  SafeHashLookup = 1
  LatestBlocksInDb = 1
  CheckpointInterval = 3
  MaximumSyncRange = 4
  MaxRetry = 3
  Clean = FALSE
  IrreversibleOnly = TRUE
  ChannelCap = 1
  InitialHeads <- CanonicalHeads
  Faults = {"call", "errorAnswer", "response", "database", "crash", "executor"}
  MaxFaults = 3
INVARIANTS
  TypeOK
  BatchIsChain
  PayloadsConnect
  NothingLost
PROPERTIES
  ResumesOnExecutorChain
  ResumesNearFinalized
  FollowsCanonicalChain
  ExecutorCatchesUp
CHECK_DEADLOCK FALSE

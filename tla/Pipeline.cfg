SPECIFICATION FairSpec
CONSTANTS
  StartBlock = 1
  StopBlock = 5
  LastBlock = 6
  ChainBegins = {0, 1}
  RawCap = 1
  BlockCap = 1
  FinalCap = 1
  OutCap = 1
  MaxInFlight = 3
  AckThreshold = 1
  MaxEmpty = 1
  FaultSets <- AllOrNone
INVARIANTS
  TypeOK
  OkMeansDelivered
  AcksAreOwed
  NeverStuck
PROPERTIES
  DeliversInOrder
  OneEndsAllEnd
  ReachesStopBlock
CHECK_DEADLOCK FALSE

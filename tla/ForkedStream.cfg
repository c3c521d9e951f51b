SPECIFICATION FairSpec
CONSTANTS
  Labels = {1, 2}
  MaxBlock = 5
  StartBlock = 2
  BlockDelta = 1
  MaxSwitches = 2
INVARIANTS
  TypeOK
  BuiltOnNativeParent
  ForkBasesAreKept
  FailsOnlyAtStart
PROPERTIES
  EndsOnHead
CHECK_DEADLOCK FALSE

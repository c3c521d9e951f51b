SPECIFICATION FairSpec
CONSTANTS
  addr0 = addr0
  addr1 = addr1
  none = none
  Accounts <- mc_Accounts
  Address <- mc_Address
  NoAddress = none
  MaxRetry = 1
  Capacity = 1
  Keys = {1}
  LastBlock = 2
  Behaviours <- mc_Behaviours
INVARIANTS
  TypeOK
  AddressesAreRight
  StorageTracksContract
  DropsAreEarned
  FilesAreWhole
  PayloadHasItsFile
  FileIsCurrent
PROPERTIES
  ReachesLastBlock
CHECK_DEADLOCK FALSE

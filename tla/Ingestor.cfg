SPECIFICATION MCSpec
CONSTANTS
  seawaterAddr = seawaterAddr
  thirdwebAddr = thirdwebAddr
  leoAddr = leoAddr
  other = other
  Kind <- ThreeKinds
  PaginationMin = 2
  PaginationMax = 4
  MaxBlocks = 3
  MaxLogs = 2
  MaxGap = 1
  MaxCrashes = 1
INVARIANTS
  TypeOK
  ExactlyOnce
PROPERTIES
  MirrorsChain
  CatchesUp

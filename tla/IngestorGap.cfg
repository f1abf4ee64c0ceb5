SPECIFICATION MCSpec
CONSTANTS
  seawaterAddr = seawaterAddr
  thirdwebAddr = thirdwebAddr
  leoAddr = leoAddr
  other = other
  Kind <- OneKind
  PaginationMin = 2
  PaginationMax = 3
  MaxBlocks = 5
  MaxLogs = 1
  MaxGap = 2
  MaxCrashes = 1
PROPERTIES
  CatchesUp

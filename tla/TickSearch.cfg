SPECIFICATION Spec
CONSTANTS
  MAX_TICK = 12
  SqrtRatio <- Ladder
  Q96 = 8
  Q128 = 32
  ONE_FEE = 4
  WORD = 2
  U128 = 64
  U256 = 1048576
INVARIANTS
  SearchCorrect
PROPERTIES
  SearchHalves
CHECK_DEADLOCK FALSE

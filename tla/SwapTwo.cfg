SPECIFICATION MCSpec
CONSTANTS
  MAX_TICK = 2
  SqrtRatio <- Ratios
  Q96 = 8
  Q128 = 32
  ONE_FEE = 4
  WORD = 2
  U128 = 128
  U256 = 1048576
  A = A
  B = B
  PoolAddr <- BothPools
  fUSDC = fUSDC
  MaxPositions = 2
  MaxCalls = 6
  PoolParams <- Params
  Ranges <- ProviderRanges
  Deltas <- ProviderDeltas
  Amounts <- Offers
  MinOuts <- Accepted
INVARIANTS
  PoolsSolvent
  BalanceIsReserves
PROPERTIES
  RoundTripLoses
CHECK_DEADLOCK FALSE

SPECIFICATION MCSpec
CONSTANTS
  MAX_TICK = 2
  SqrtRatio <- Ratios
  Q96 = 8
  Q128 = 32
  ONE_FEE = 4
  WORD = 2
  U128 = 64
  U256 = 1048576
  MaxPositions = 2
  MaxCalls = 3
  InitParams <- Params
  Ranges <- AnyRanges
  Deltas <- ProviderDeltas
  Desired <- Wanted
  SwapAmounts <- BothAmounts
  PriceLimits <- FreeLimits
  AdminPrices <- SomePrices
INVARIANTS
  TicksMatchPositions
  BitmapMatchesTicks
PROPERTIES
  AdjustsWithinDesired

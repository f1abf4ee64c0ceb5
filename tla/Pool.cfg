SPECIFICATION MCSpec
CONSTANTS
  MAX_TICK = 2
  SqrtRatio <- Ratios
  Q96 = 8
  Q128 = 32
  ONE_FEE = 4
  WORD = 2
  U128 = 64
  U256 = 1048576
  MaxPositions = 2
  MaxCalls = 5
  InitParams <- Params
  Ranges <- OrderedRanges
  Deltas <- ProviderDeltas
  Desired <- NoAmounts
  SwapAmounts <- BothAmounts
  PriceLimits <- Limits
  AdminPrices <- NoPrices
INVARIANTS
  TypeOK
  LiquidityIsInRange
  PriceInCurrentTick
  SwapWithinLimits
  OutsideWithinGlobal
  CanWithdraw
  Solvent
  NothingStranded
  SwapProgress
PROPERTIES
  DisabledIsFrozen

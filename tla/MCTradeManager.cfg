SPECIFICATION RSpec
CONSTANTS
  A = A
  B = B
  C = C
  SENTINEL = SENTINEL
  Coins <- MCCoins
  Keys <- MCKeys
  Deposit <- MCDeposit
  Chains <- Opposite
  FireOnlyTop = FALSE
  SortByRoi = TRUE
  RatioNum = 9
  RatioDen = 10
  RoiDen = 100
  Limits <- MCLimits
  MarketOrders <- MCMarketOrders
  TTL = 1
  Start = 1
  MaxTime = 1
  MaxRefreshes = 2
  MaxFlips = 0
  MaxRebalances = 2
  MayShutDown = FALSE
  MaxTaken = 0
  MaxFailures = 0
INVARIANTS AllOrNothing CommentTellsFate CacheAccounting NoPromiseOfCommittedFunds
CHECK_DEADLOCK FALSE

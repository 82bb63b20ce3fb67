SPECIFICATION RFairSpec
CONSTANTS
  A = A
  B = B
  C = C
  SENTINEL = SENTINEL
  Coins <- MCCoins
  Keys <- MCKeys
  Deposit <- MCDeposit
  Chains <- TwoSightings
  FireOnlyTop = TRUE
  SortByRoi = FALSE
  RatioNum = 9
  RatioDen = 10
  RoiDen = 100
  Limits <- MCLimits
  MarketOrders <- MCMarketOrders
  TTL = 1
  Start = 1
  MaxTime = 2
  MaxRefreshes = 1
  MaxFlips = 3
  MaxRebalances = 0
  MayShutDown = TRUE
  MaxTaken = 2
  MaxFailures = 1
INVARIANTS RecordTellsFate
PROPERTIES OnlyTheChainInHand EveryChainRecorded
CHECK_DEADLOCK FALSE

SPECIFICATION TSpec
CONSTANTS
  Tickers <- MCTickers
  UsdPrices <- MCUsdPrices
  Fees <- NoFees
  DefaultFee <- HalfFee
INVARIANTS MatchedIsLargestTrade ProfitMeansGain NeverBothWays
CHECK_DEADLOCK FALSE

SPECIFICATION RSpec
CONSTANTS
  BUSD = BUSD
  EUR = EUR
  BTC = BTC
  Coins <- MCCoins
  UsdCoins <- MCUsdCoins
  Markets <- MCMarkets
  Deposit <- MCDeposit
  Quotes <- MCQuotes
  Opening <- MCOpening
  LossNum = 1
  LossDen = 5
  DevNum = 3
  DevDen = 4
  MaxMoves = 1
  Traded = {}
  MaxFailures = 1
PROPERTIES NoRebalancingWhenStopped

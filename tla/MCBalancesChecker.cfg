SPECIFICATION FairSpec
CONSTANTS
  BUSD = BUSD
  BTC = BTC
  Coins <- MCCoins
  UsdCoins <- MCUsdCoins
  Deposit <- MCDeposit
  Quotes <- MCQuotes
  Opening <- MCOpening
  Traded <- MCTraded
  LossNum = 1
  LossDen = 5
  MaxMoves = 2
PROPERTIES UndisturbedDecisionIsRight LastingLossStops RecoveryResumes

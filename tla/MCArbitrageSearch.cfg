SPECIFICATION SFairSpec
CONSTANTS
  BaseQuote <- OneTriangle
  OnlyCoins <- MCCoins
  UsdCoins <- MCUsd
  Fees <- NoFees
  DefaultFee <- HalfFee
  Books <- MCBooks
  Unlisted <- New
  FireAsap = {TRUE, FALSE}
  MaxEvents = 4
  KINESIS_MAX_BATCH_SIZE = 14
INVARIANTS RefreshedBeforeNotified SearchIsComplete OneMomentPerSearch FiredOnceAndStored BatchFits StoredOnce
PROPERTIES NoUpdateUnseen
CHECK_DEADLOCK FALSE

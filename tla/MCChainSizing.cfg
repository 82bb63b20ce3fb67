SPECIFICATION Spec
CONSTANTS
  A = A
  B = B
  C = C
  Coins <- MCCoins
  Volumes <- MCVolumes
  Prices <- MCPrices
  Rois <- MCRois
  Amounts <- MCAmounts
  RatioNum = 9
  RatioDen = 10
  RoiDen = 4
  Limits <- MCLimits
INVARIANTS WithinRatioAtQuote LegsStayMatched CutIsNeeded PriceConcedesAtMostRoi
CHECK_DEADLOCK FALSE

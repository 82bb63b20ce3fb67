SPECIFICATION CFairSpec
CONSTANTS
  o1 = o1
  o2 = o2
  e1 = e1
  SENTINEL = SENTINEL
  Orders <- MCOrders
  Executors <- MCExecutors
  GoodTillCancelled = TRUE
  MaxLag = 0
  MaxFailures = 1
INVARIANTS RowTruthful
PROPERTIES NoOrderRestsForever
CHECK_DEADLOCK FALSE

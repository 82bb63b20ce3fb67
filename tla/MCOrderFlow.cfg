SPECIFICATION CFairSpec
CONSTANTS
  o1 = o1
  o2 = o2
  e1 = e1
  e2 = e2
  SENTINEL = SENTINEL
  Orders <- MCOrders
  Executors <- MCExecutors
  GoodTillCancelled = FALSE
  MaxLag = 1
  MaxFailures = 1
INVARIANTS NothingLost SentinelSurvives ShutdownDrains
PROPERTIES EachOrderHasItsLifecycle EveryOrderRecorded
CHECK_DEADLOCK FALSE

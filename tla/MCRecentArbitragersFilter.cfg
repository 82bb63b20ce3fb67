SPECIFICATION Spec
CONSTANTS
  k1 = k1
  k2 = k2
  Keys <- MCKeys
  TTL = 3
  Start = 3
  MaxTime = 10
INVARIANTS TypeOK
PROPERTIES DropsOnlyRecentRepeats NeverTwiceInARow

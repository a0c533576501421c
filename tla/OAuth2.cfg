\* Lives below, and above, the margin, and a response that states none.
SPECIFICATION Spec
CONSTANTS
  Workers = {"w1", "w2"}
  Lives = {0, 2, 5}
  DefaultLife = 7
  Margin = 3
  ClientTimeout = 1
  MaxTime = 8
INVARIANTS TypeOK CachedTokenIsAlive
PROPERTIES NoStampede EveryAskReturns
CHECK_DEADLOCK FALSE

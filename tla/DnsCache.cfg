\* A query may last half the TTL.  The clock stops, so deadlock is not checked.
SPECIFICATION Spec
CONSTANTS
  Workers = {"w1", "w2"}
  TTL = 4
  MaxQuery = 2
  MaxTime = 7
INVARIANTS TypeOK BoundedStaleness
PROPERTIES RegressionBounded
CHECK_DEADLOCK FALSE

\* A worker ends, so deadlock is not checked.
SPECIFICATION Spec
CONSTANTS
  Setups <- MCSetups
  MaxJobs = 3
INVARIANTS TypeOK OwnAnswer NoConnectionLeaks
PROPERTIES EveryJobReported
CHECK_DEADLOCK FALSE

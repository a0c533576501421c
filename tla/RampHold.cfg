\* A stage that holds the largest number of users starves the scheduler.
SPECIFICATION Spec
CONSTANTS
  Scenarios <- MCScenarios
INVARIANTS HoldStageServes
CHECK_DEADLOCK FALSE

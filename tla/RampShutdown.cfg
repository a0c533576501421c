\* The scheduler of `sudd run --scenario` does not always return.
SPECIFICATION Spec
CONSTANTS
  Scenarios <- MCScenarios
PROPERTIES GracefulShutdown
CHECK_DEADLOCK FALSE

\* Both schedulers, `sudd run --scenario` and the agent's.  They end, and the first
\* may wait for ever (RampShutdown.cfg): deadlock is not checked.
SPECIFICATION Spec
CONSTANTS
  Scenarios <- MCScenarios
INVARIANTS TypeOK SemaphoreTracksGoal ReleaseBlocksOnlyAtZero
PROPERTIES ReleaseReturns ReleaseReturnsUnlessDrained 
CHECK_DEADLOCK FALSE

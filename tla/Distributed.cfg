\* Two agents with ids of their own, or with none.  A run ends, so deadlock is not checked.
SPECIFICATION Spec
CONSTANTS
  a1 = a1
  a2 = a2
  noId = noId
  Agents = {a1, a2}
  Ids = {a1, a2, noId}
  IdChoices <- WithAndWithoutIds
  SnapBuf = 1
  MaxRequests = 1
  MaxTicks = 1
INVARIANTS TypeOK CleanFinishIsFinal
PROPERTIES LiveCountsGrow AgentsQuiesce InterruptReturns
CHECK_DEADLOCK FALSE

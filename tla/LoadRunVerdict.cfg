\* `sudd run --scenario` can pass a run in which every response was an error.
SPECIFICATION Spec
CONSTANTS
  http = http
  tcp = tcp
  w1 = w1
  w2 = w2
  MaxJobs = 3
  Pools = {http, tcp}
  Workers = {w1, w2}
  Modes <- ScenarioOnly
  JobBuf = 1
  ResBuf = 1
  MergedBuf = 1
  ErrLimit = 50
INVARIANTS BreachExitsWithOne
CHECK_DEADLOCK FALSE

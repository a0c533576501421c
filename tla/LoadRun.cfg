\* Both forms of `sudd run`, every buffer at its limit.
\* The run ends or wedges: deadlock is not checked.
SPECIFICATION Spec
CONSTANTS
  http = http
  tcp = tcp
  w1 = w1
  w2 = w2
  MaxJobs = 3
  Pools = {http, tcp}
  Workers = {w1, w2}
  Modes <- BothForms
  JobBuf = 1
  ResBuf = 1
  MergedBuf = 1
  ErrLimit = 50
INVARIANTS TypeOK CountersMatch OnePlace
PROPERTIES ImplementsLedger EveryResultConsumed ShutdownOrWedged
CHECK_DEADLOCK FALSE

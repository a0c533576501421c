\* Up to three results, one of them perhaps beyond the histogram, and two browsers.
\* A run ends, so deadlock is not checked.
SPECIFICATION Spec
CONSTANTS
  Browsers = {b1, b2}
  MaxResults = 3
  MaxLatency = 3
  HistMax = 2
  Modes <- AtMostOne
  Limits <- P99Limit
INVARIANTS TypeOK ErrorsWithinRequests SummaryFitsTogether SlownessReported
PROPERTIES LeaversForgotten StopEndsRun
CHECK_DEADLOCK FALSE

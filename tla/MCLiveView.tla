----------------------------- MODULE MCLiveView -----------------------------
(***************************************************************************)
(* A run on its own, one with --metrics-addr and two with --web, with      *)
(* results and with browsers.  The updater, the scrape and the dashboard   *)
(* do not touch each other's state, so each is checked with the main       *)
(* goroutine but not with the other.                                       *)
(***************************************************************************)
EXTENDS LiveView

AtMostOne ==
    {[metrics |-> FALSE, web |-> FALSE, results |-> 3, slowest |-> 3, visitors |-> {}],
     [metrics |-> TRUE, web |-> FALSE, results |-> 2, slowest |-> 1, visitors |-> {}],
     [metrics |-> FALSE, web |-> TRUE, results |-> 2, slowest |-> 1, visitors |-> {}],
     [metrics |-> FALSE, web |-> TRUE, results |-> 0, slowest |-> 0,
      visitors |-> Browsers]}
P99Limit == [p99 |-> 1, p95 |-> 0, errorRate |-> 0]
=============================================================================

------------------------------- MODULE LiveView -----------------------------
(***************************************************************************)
(* Those who look at a run while it goes on and at its end (cmd/run.go):   *)
(* the goroutine that stores the Prometheus gauges twice a second and the  *)
(* handler that a scrape runs (internal/prometheus), the goroutine that    *)
(* broadcasts frames to the dashboard's browsers, the stop button, and the *)
(* main goroutine with its summary, thresholds, saved run and exit code.   *)
(* All of them read the aggregator field by field while results are        *)
(* counted.                                                                *)
(*                                                                         *)
(* A getter and the store of what it returned are one step: nobody else    *)
(* writes the record it goes to.  Main waits for the scheduler too.  Its   *)
(* loop is the subject of LoadRun and RampScheduler, which show where it   *)
(* hangs; here it returns after the end of the context, or hangs.          *)
(***************************************************************************)
EXTENDS Aggregator, Dashboard

CONSTANTS
    Modes,       \* [metrics, web, results, slowest, visitors]: combinations of
                 \* --metrics-addr and --web; bounds: the results of such a run,
                 \* their latency, and the browsers that come
    Limits       \* [p99, p95, errorRate]: the scenario's thresholds, 0 if not set

ASSUME LiveViewAssumption ==
    /\ Modes \subseteq [metrics : BOOLEAN, web : BOOLEAN, results : 0..MaxResults,
                        slowest : 0..MaxLatency, visitors : SUBSET Browsers]
    /\ Limits \in [p99 : Nat, p95 : Nat, errorRate : Nat]

VARIABLES
    mode,        \* of this run
    scheduler,   \* "working" | "stuck" | "returned"
    ctxDone,     \* the end of the stages, Ctrl+C, or the stop button
    stop,        \* "none" | "pressed" | "handled": POST /api/stop
    at,          \* the next field of each reader; 0 while a frame is not yet due
    got,         \* what each reader has read; of the updater, the gauges
    ended,       \* the readers whose goroutine has returned
    scrapeAt,    \* the next gauge of the scrape
    scrape,      \* its gauges so far
    midTick,     \* the updater had stored errors and not yet requests when the
                 \* scrape loaded errors (for a property)
    mainPc,      \* "wait" | "summary" | "save" | "verdict" | "exit" | "exited"
    basis,       \* the results the summary's p99 is about (for a property)
    saved,       \* "no" | "yes" | "failed": the row of the run in ./blast.db
    breach,      \* a threshold failed
    exitCode     \* of the process, once it has exited

viewVars == <<at, got, ended, scrapeAt, scrape, midTick>>
endVars  == <<mainPc, basis, saved, breach, exitCode>>
vars == <<aggVars, dashVars, mode, scheduler, ctxDone, stop, viewVars, endVars>>

Readers == {"updater", "frame", "summary"}

\* Mutant of UpdaterFields: requests before errors.
UpdaterFieldsSwapped == <<"total", "errors">>

\* The counters among the gauges, in the order of their stores.  No property
\* looks at the percentiles and the rate that are stored before them.
UpdaterFields == <<"errors", "total">>

\* The order of the loads in handleMetrics.
ScrapeFields == <<"errors", "total">>

\* Of a dashboard frame (getSnapshot) and of report.Summary, in evaluation order.
FrameFields == <<"rate", "total">>
SummaryFields ==
    <<"total", "rps", "p50", "p75", "p90", "p95", "p99", "p999", "max",
      "errors", "rate", "breakdown">>

FieldsOf(r) == CASE r = "updater" -> UpdaterFields
                 [] r = "frame"   -> FrameFields
                 [] r = "summary" -> SummaryFields

\* A snapshot before its first field is read.
Empty(r) ==
    [f \in {FieldsOf(r)[i] : i \in DOMAIN FieldsOf(r)} |->
        IF f = "rate" THEN [errors |-> 0, total |-> 0] ELSE 0]

Finished(r) == at[r] = Len(FieldsOf(r)) + 1

\* The process runs: its goroutines end with the main one.
Alive == mainPc # "exited"

-----------------------------------------------------------------------------
\* The aggregator's goroutine counts a result, also after the context has ended.
CountResult ==
    /\ Alive
    /\ total < mode.results
    /\ \E latency \in 0..mode.slowest, failed \in BOOLEAN : Count(latency, failed)
    /\ UNCHANGED <<dashVars, mode, scheduler, ctxDone, stop, viewVars, endVars>>

\* One getter, under its own lock.
ReadField(r) ==
    LET field == FieldsOf(r)[at[r]]
    IN /\ at[r] > 0 /\ ~Finished(r)
       /\ got' = [got EXCEPT ![r][field] = Getter(field)]
       /\ at' = [at EXCEPT ![r] = @ + 1]
       /\ UNCHANGED <<aggVars, dashVars, mode, scheduler, ctxDone, stop, ended,
                      scrapeAt, scrape, midTick>>

\* case <-tick.C: one more round.  Both cases of the select may be ready.
Tick(r) ==
    /\ r \notin ended
    /\ at' = [at EXCEPT ![r] = 1]
    /\ UNCHANGED <<aggVars, dashVars, mode, scheduler, ctxDone, stop, got, ended, scrapeAt,
                   scrape, midTick, endVars>>

\* case <-ctx.Done(): return.
EndReader(r) ==
    /\ ctxDone
    /\ r \notin ended
    /\ ended' = ended \cup {r}
    /\ UNCHANGED <<aggVars, dashVars, mode, scheduler, ctxDone, stop, at, got, scrapeAt,
                   scrape, midTick, endVars>>

Updater ==
    /\ Alive /\ mode.metrics
    /\ \/ Finished("updater") /\ (Tick("updater") \/ EndReader("updater"))
       \/ ReadField("updater") /\ UNCHANGED endVars

\* handleMetrics: one atomic load after another, from the first to the last.
LoadGauge ==
    /\ Alive /\ mode.metrics
    /\ LET field == ScrapeFields[scrapeAt]
       IN /\ scrapeAt \in DOMAIN ScrapeFields
          /\ scrape' = [scrape EXCEPT ![field] = got["updater"][field]]
          /\ midTick' = IF field = "errors" THEN at["updater"] = 2 ELSE midTick
    /\ scrapeAt' = scrapeAt + 1
    /\ UNCHANGED <<aggVars, dashVars, mode, scheduler, ctxDone, stop, at, got, ended, endVars>>

NewScrape ==
    /\ Alive /\ mode.metrics
    /\ scrapeAt \notin DOMAIN ScrapeFields
    /\ scrapeAt' = 1
    /\ scrape' = [errors |-> 0, total |-> 0]
    /\ midTick' = FALSE
    /\ UNCHANGED <<aggVars, dashVars, mode, scheduler, ctxDone, stop, at, got, ended, endVars>>

-----------------------------------------------------------------------------
\* StartBroadcasting: a frame is read, then broadcast, then the next tick.
Broadcaster ==
    /\ Alive /\ mode.web
    /\ \/ at["frame"] = 0 /\ (Tick("frame") \/ EndReader("frame"))
       \/ ReadField("frame") /\ UNCHANGED endVars
       \/ /\ Finished("frame")
          /\ LockForBroadcast \/ (\E b \in Browsers : WriteFrame(b))
          /\ UNCHANGED <<aggVars, mode, scheduler, ctxDone, stop, viewVars, endVars>>
       \/ /\ UnlockAfterBroadcast
          /\ at' = [at EXCEPT !["frame"] = 0]
          /\ got' = [got EXCEPT !["frame"] = Empty("frame")]
          /\ UNCHANGED <<aggVars, mode, scheduler, ctxDone, stop, ended, scrapeAt,
                         scrape, midTick, endVars>>

\* The handler goroutine of a browser.
Handler(b) ==
    /\ Alive /\ mode.web /\ b \in mode.visitors
    /\ Register(b) \/ Unregister(b)
    /\ UNCHANGED <<aggVars, mode, scheduler, ctxDone, stop, viewVars, endVars>>

\* What the browser does.
Browser(b) ==
    /\ Alive /\ mode.web
    /\ Stall(b) \/ Resume(b) \/ Leave(b)
    /\ UNCHANGED <<aggVars, mode, scheduler, ctxDone, stop, viewVars, endVars>>

PressStop ==
    /\ Alive /\ mode.web
    /\ stop = "none"
    /\ stop' = "pressed"
    /\ UNCHANGED <<aggVars, dashVars, mode, scheduler, ctxDone, viewVars, endVars>>

\* Mutant of HandleStop: it takes the server's mutex.
HandleStopLocked ==
    /\ Alive
    /\ stop = "pressed"
    /\ mu = "none"
    /\ stop' = "handled"
    /\ ctxDone' = TRUE
    /\ UNCHANGED <<aggVars, dashVars, mode, scheduler, viewVars, endVars>>

\* s.cancel()
HandleStop ==
    /\ Alive
    /\ stop = "pressed"
    /\ stop' = "handled"
    /\ ctxDone' = TRUE
    /\ UNCHANGED <<aggVars, dashVars, mode, scheduler, viewVars, endVars>>

\* The timeout of all stages, or Ctrl+C.
Cancel ==
    /\ Alive
    /\ ~ctxDone
    /\ ctxDone' = TRUE
    /\ UNCHANGED <<aggVars, dashVars, mode, scheduler, stop, viewVars, endVars>>

-----------------------------------------------------------------------------
\* The scheduler, between two jobs, sees the end of the context and returns ...
SchedulerReturns ==
    /\ Alive
    /\ scheduler = "working"
    /\ ctxDone
    /\ scheduler' = "returned"
    /\ UNCHANGED <<aggVars, dashVars, mode, ctxDone, stop, viewVars, endVars>>

\* ... or it never does: it waits for a token in an empty channel (run.go:371), or
\* in Submit for workers that have gone.
SchedulerHangs ==
    /\ Alive
    /\ scheduler = "working"
    /\ scheduler' = "stuck"
    /\ UNCHANGED <<aggVars, dashVars, mode, ctxDone, stop, viewVars, endVars>>

MainStep(from, to) ==
    /\ mainPc = from
    /\ mainPc' = to
    /\ UNCHANGED <<aggVars, dashVars, mode, scheduler, ctxDone, stop>>

\* <-ctx.Done(), wg.Wait() and the pause of 100 ms.
Join ==
    /\ MainStep("wait", "summary")
    /\ ctxDone /\ scheduler = "returned"
    /\ at' = [at EXCEPT !["summary"] = 1]
    /\ UNCHANGED <<got, ended, scrapeAt, scrape, midTick, basis, saved, breach, exitCode>>

\* report.Summary{...}: one getter after the other.
Summarise ==
    /\ mainPc = "summary"
    /\ ReadField("summary")
    /\ mainPc' = IF at["summary"] = Len(SummaryFields) THEN "save" ELSE mainPc
    /\ basis' = IF SummaryFields[at["summary"]] = "p99"
                THEN [count |-> total, slow |-> total - UpTo(hist, Limits.p99),
                      beyond |-> total - Recorded(hist)]
                ELSE basis
    /\ UNCHANGED <<saved, breach, exitCode>>

\* Mutant of Evaluate: the median in place of the p99.
EvaluateMedian(s) ==
    \/ Limits.p99 > 0 /\ s.p50 > Limits.p99
    \/ Limits.p95 > 0 /\ s.p95 > Limits.p95
    \/ Limits.errorRate > 0 /\ 100 * s.rate.errors > Limits.errorRate * s.rate.total

\* Thresholds.Evaluate; min_rps needs a clock and is left out.
Evaluate(s) ==
    \/ Limits.p99 > 0 /\ s.p99 > Limits.p99
    \/ Limits.p95 > 0 /\ s.p95 > Limits.p95
    \/ Limits.errorRate > 0 /\ 100 * s.rate.errors > Limits.errorRate * s.rate.total

\* SaveRun inserts a row, or a warning is printed, and the report is written ...
Save ==
    /\ MainStep("save", "verdict")
    /\ saved' \in {"yes", "failed"}
    /\ UNCHANGED <<viewVars, basis, breach, exitCode>>

\* ... before the thresholds are evaluated ...
Judge ==
    /\ MainStep("verdict", "exit")
    /\ breach' = Evaluate(got["summary"])
    /\ UNCHANGED <<viewVars, basis, saved, exitCode>>

\* ... and the process ends, with os.Exit(1) or a return from main.
Exit ==
    /\ MainStep("exit", "exited")
    /\ exitCode' = IF breach THEN 1 ELSE 0
    /\ UNCHANGED <<viewVars, basis, saved, breach>>

Main == Join \/ Summarise \/ Save \/ Judge \/ Exit

-----------------------------------------------------------------------------
Init ==
    /\ AggInit /\ DashInit
    /\ mode \in Modes /\ scheduler = "working"
    /\ ctxDone = FALSE /\ stop = "none"
    /\ at = [updater |-> Len(UpdaterFields) + 1, frame |-> 0, summary |-> 0]
    /\ got = [r \in Readers |-> Empty(r)]
    /\ ended = {}
    /\ scrapeAt = 1 /\ scrape = [errors |-> 0, total |-> 0] /\ midTick = FALSE
    /\ mainPc = "wait"
    /\ basis = [count |-> 0, slow |-> 0, beyond |-> 0]
    /\ saved = "no" /\ breach = FALSE /\ exitCode = -1

Next ==
    \/ CountResult \/ Updater \/ LoadGauge \/ NewScrape
    \/ Broadcaster \/ PressStop \/ HandleStop \/ Cancel
    \/ SchedulerReturns \/ SchedulerHangs \/ Main
    \/ \E b \in Browsers : Handler(b) \/ Browser(b)

(***************************************************************************)
(* The goroutines of the process run.  A handler gets the mutex in the end *)
(* if it is free again and again (sync.Mutex hands itself over to those    *)
(* who starve).  Nothing is assumed of browsers, and none of the servers   *)
(* under test: results come or do not.                                     *)
(***************************************************************************)
Spec ==
    /\ Init /\ [][Next]_vars
    /\ WF_vars(Broadcaster) /\ WF_vars(HandleStop)
    /\ WF_vars(SchedulerReturns) /\ WF_vars(Main)
    /\ \A b \in Browsers : SF_vars(Handler(b))

-----------------------------------------------------------------------------
Counts == 0..MaxResults

TypeOK ==
    /\ AggTypeOK /\ DashTypeOK
    /\ mode \in Modes /\ scheduler \in {"working", "stuck", "returned"}
    /\ ctxDone \in BOOLEAN /\ stop \in {"none", "pressed", "handled"}
    /\ \A r \in Readers : at[r] \in 0..(Len(FieldsOf(r)) + 1)
    /\ got["updater"] \in [errors : Counts, total : Counts]
    /\ got["frame"] \in [rate : [errors : Counts, total : Counts], total : Counts]
    /\ got["summary"] \in [total : Counts, rps : Counts, errors : Counts,
                            breakdown : Counts, rate : [errors : Counts, total : Counts],
                            p50 : 0..HistMax, p75 : 0..HistMax, p90 : 0..HistMax,
                            p95 : 0..HistMax, p99 : 0..HistMax, p999 : 0..HistMax,
                            max : 0..HistMax]
    /\ ended \subseteq {"updater", "frame"}
    /\ scrapeAt \in 1..3 /\ scrape \in [errors : Counts, total : Counts]
    /\ midTick \in BOOLEAN
    /\ mainPc \in {"wait", "summary", "save", "verdict", "exit", "exited"}
    /\ basis \in [count : Counts, slow : Counts, beyond : Counts]
    /\ saved \in {"no", "yes", "failed"} /\ breach \in BOOLEAN
    /\ exitCode \in {-1, 0, 1}

(***************************************************************************)
(* A scrape shows more errors than requests in one case only: it loaded    *)
(* the errors between the stores of the two (run.go:217-218, where the     *)
(* order of the stores and of the getters matters).  A frame never does:   *)
(* its rate is read before its total (run.go:197-198).                     *)
(***************************************************************************)
ErrorsWithinRequests ==
    /\ scrapeAt > Len(ScrapeFields) /\ ~midTick => scrape.errors <= scrape.total
    /\ Finished("frame") => got["frame"].rate.errors <= got["frame"].total

(***************************************************************************)
(* The summary is read in twelve critical sections (run.go:389-400), and   *)
(* what it says still fits together: no percentile is above the maximum    *)
(* (they may contradict each other), no error is missing from the          *)
(* breakdown, the rate covers the errors, and there are more errors than   *)
(* requests only if results came in between.                               *)
(***************************************************************************)
SummaryFitsTogether ==
    LET s == got["summary"] IN
    Finished("summary") =>
        /\ s.total <= s.rps
        /\ \A p \in {"p50", "p75", "p90", "p95", "p99", "p999"} : s[p] <= s.max
        /\ s.errors <= s.rate.errors /\ s.rate.errors <= s.breakdown
        /\ s.errors > s.total => s.rate.total > s.total

(***************************************************************************)
(* A run that passes its p99 threshold has, up to the rounding of the      *)
(* quantile, at most one result in a hundred above it, except where the    *)
(* histogram has dropped results that were beyond its range                *)
(* (aggregator.go:47, scenario.go:27).                                     *)
(***************************************************************************)
SlownessReported ==
    mainPc = "exited" /\ exitCode = 0 /\ Limits.p99 \in 1..HistMax /\ basis.beyond = 0
        => 1000 * basis.slow <= 10 * basis.count + 500

(***************************************************************************)
(* A browser that has left is forgotten, unless Broadcast is waiting for   *)
(* one that has stopped reading: that one holds up everybody               *)
(* (dashboard.go:76-81, 146-150).                                          *)
(***************************************************************************)
LeaversForgotten ==
    \A b \in Browsers :
        browser[b] = "leaving" ~> (b \notin clients \/ Stuck \/ ~Alive)

(***************************************************************************)
(* The stop button ends the run with its summary, saved unless the store   *)
(* failed, even while Broadcast is stuck under the mutex (dashboard.go:    *)
(* 91-98, run.go:376-437).  One thing can prevent it: a scheduler that     *)
(* never returns, for which main waits first (run.go:377).                 *)
(***************************************************************************)
StopEndsRun ==
    stop = "pressed" ~> \/ mainPc = "exited" /\ saved # "no"
                        \/ scheduler = "stuck"
=============================================================================

------------------------------- MODULE LoadRun ------------------------------
(***************************************************************************)
(* One load run of `sudd run`, from the scheduler to the exit code: the    *)
(* scheduler goroutine, the pools and their workers (internal/pool,        *)
(* internal/worker and its gRPC, WebSocket and TCP siblings), the merge of *)
(* the pools' results, the aggregator, the chain-store goroutine that      *)
(* reads the same channel, and the main goroutine that waits for the end,  *)
(* reads the aggregator and decides the exit code.                         *)
(*                                                                         *)
(*   scheduler -> jobsCh[p] -> worker -> resCh[p] -> forwarder -> merged   *)
(*                                                 -> aggregator | chain   *)
(*                                                                         *)
(* A channel is the set of requests in it, with the capacity of its        *)
(* buffer.  That drops the order of the queue: no property depends on it,  *)
(* and every order the code can produce is among the model's.  The ramp's  *)
(* token, which the scheduler puts into the semaphore before a request and *)
(* takes back after it (run.go:274, 371), is the subject of RampScheduler, *)
(* and so is the hang that it can cause at the end of a run; here a paced  *)
(* scheduler may take its turn or not, and always gets its token back.     *)
(* The 100 ms pause before the summary is a step of no known length.       *)
(***************************************************************************)
EXTENDS Integers, FiniteSets

CONSTANTS
    MaxJobs,     \* bound: requests the scheduler builds in one run
    Pools,       \* the job kinds: HTTP, gRPC, WebSocket, TCP
    Workers,     \* all workers
    Modes,       \* the forms of a run: by scenario or by URL, with the pool
                 \* each worker belongs to
    JobBuf,      \* capacity of a pool's job channel (1000 in the code)
    ResBuf,      \* capacity of a pool's result channel (1000)
    MergedBuf,   \* capacity of the merged channel (2000)
    ErrLimit     \* a scenario's thresholds.error_rate_pct; 0 when it is not set

ASSUME LoadRunAssumption ==
    /\ MaxJobs \in Nat
    /\ Modes \subseteq [scenario : BOOLEAN, poolOf : [Workers -> Pools]]
    /\ \A m \in Modes : ~m.scenario => \A v, w \in Workers : m.poolOf[v] = m.poolOf[w]
    /\ Workers # {}
    /\ JobBuf \in Nat \ {0} /\ ResBuf \in Nat \ {0} /\ MergedBuf \in Nat \ {0}
    /\ ErrLimit \in Nat

Jobs == 1..MaxJobs
NoJob == 0

VARIABLES
    mode,        \* the form of this run
    ctxDone,     \* Ctrl+C, the timeout or the dashboard's stop
    fired,       \* requests the scheduler has built so far
    schedPc,     \* "select" | "submit" | "done"
    target,      \* the pool the scheduler is submitting to
    jobsCh,      \* the job channel of each pool
    wpc,         \* "idle" | "fire" | "send" | "exited", for each worker
    held,        \* the request a worker works on, or NoJob
    failed,      \* requests whose result carries an error
    resCh,       \* the result channel of each pool
    fwd,         \* what each goroutine of mergeResults holds, or NoJob
    merged,      \* the merged channel
    total, errors,       \* the aggregator's counters
    counted, swallowed,  \* results read by the aggregator / by the chain store
    mainPc,      \* "wait" | "total" | "errors" | "rate" | "verdict" | "exited"
    summary,     \* the fields of report.Summary read so far; "seen" is auxiliary:
                 \* the results consumed by the time the rate was read
    exitCode     \* of the process, once it has exited

schedVars == <<fired, schedPc, target>>
workVars  == <<wpc, held, failed>>
flowVars  == <<resCh, fwd, merged>>
tallyVars == <<total, errors, counted, swallowed>>
mainVars  == <<mainPc, summary, exitCode>>
vars == <<mode, ctxDone, schedVars, jobsCh, workVars, flowVars, tallyVars, mainVars>>

-----------------------------------------------------------------------------
\* In scenario mode results go through mergeResults, a chain-store goroutine
\* reads them too, and the scheduler selects on the semaphore.
Scenario == mode.scenario
PoolOf == mode.poolOf

\* The process still runs.  Every goroutine ends with the main one.
Alive == mainPc # "exited" /\ UNCHANGED <<mode, mainVars>>

\* The scheduler builds a request for the pool of the endpoint it picked.  In
\* single-URL mode the default case runs only while the context is alive; with
\* the semaphore both cases of the select may be ready, and either is taken.
Build ==
    /\ schedPc = "select"
    /\ Scenario \/ ~ctxDone
    /\ fired < MaxJobs
    /\ fired' = fired + 1
    /\ target' \in {PoolOf[w] : w \in Workers}
    /\ schedPc' = "submit"
    /\ UNCHANGED <<ctxDone, jobsCh, workVars, flowVars, tallyVars>>
    /\ Alive

\* Mutant of Submit: a channel without a capacity.
SubmitUnbounded ==
    /\ schedPc = "submit"
    /\ jobsCh' = [jobsCh EXCEPT ![target] = @ \cup {fired}]
    /\ schedPc' = "select"
    /\ UNCHANGED <<ctxDone, fired, target, workVars, flowVars, tallyVars>>
    /\ Alive

\* p.jobs <- job: blocks while the buffer is full, whatever the context says.
Submit ==
    /\ schedPc = "submit"
    /\ Cardinality(jobsCh[target]) < JobBuf
    /\ jobsCh' = [jobsCh EXCEPT ![target] = @ \cup {fired}]
    /\ schedPc' = "select"
    /\ UNCHANGED <<ctxDone, fired, target, workVars, flowVars, tallyVars>>
    /\ Alive

\* Mutant of SchedExit: it waits for the workers to take what was submitted.
SchedExitDrained ==
    /\ schedPc = "select"
    /\ ctxDone
    /\ jobsCh[target] = {}
    /\ schedPc' = "done"
    /\ UNCHANGED <<ctxDone, fired, target, jobsCh, workVars, flowVars,
                   tallyVars>>
    /\ Alive

SchedExit ==
    /\ schedPc = "select"
    /\ ctxDone
    /\ schedPc' = "done"
    /\ UNCHANGED <<ctxDone, fired, target, jobsCh, workVars, flowVars,
                   tallyVars>>
    /\ Alive

-----------------------------------------------------------------------------
\* The select of RunWorker: a job ...
TakeJob(w) ==
    /\ wpc[w] = "idle"
    /\ \E j \in jobsCh[PoolOf[w]] :
          /\ jobsCh' = [jobsCh EXCEPT ![PoolOf[w]] = @ \ {j}]
          /\ held' = [held EXCEPT ![w] = j]
    /\ wpc' = [wpc EXCEPT ![w] = "fire"]
    /\ UNCHANGED <<ctxDone, schedVars, failed, flowVars, tallyVars>>
    /\ Alive

\* ... or the end of the context.
WorkerExit(w) ==
    /\ wpc[w] = "idle"
    /\ ctxDone
    /\ wpc' = [wpc EXCEPT ![w] = "exited"]
    /\ UNCHANGED <<ctxDone, schedVars, jobsCh, held, failed, flowVars,
                   tallyVars>>
    /\ Alive

\* The request is sent, or fails on the way there (script, auth, connection,
\* cancelled context, status, assertion): every path makes exactly one result.
Fire(w) ==
    /\ wpc[w] = "fire"
    /\ failed' \in {failed, failed \cup {held[w]}}
    /\ wpc' = [wpc EXCEPT ![w] = "send"]
    /\ UNCHANGED <<ctxDone, schedVars, jobsCh, held, flowVars, tallyVars>>
    /\ Alive

\* Mutant of SendResult: the worker keeps the job.
SendResultKeepsJob(w) ==
    /\ wpc[w] = "send"
    /\ Cardinality(resCh[PoolOf[w]]) < ResBuf
    /\ resCh' = [resCh EXCEPT ![PoolOf[w]] = @ \cup {held[w]}]
    /\ wpc' = [wpc EXCEPT ![w] = "idle"]
    /\ UNCHANGED <<ctxDone, schedVars, jobsCh, held, failed, fwd, merged, tallyVars>>
    /\ Alive

\* results <- Result{...}: blocks while the buffer is full.
SendResult(w) ==
    /\ wpc[w] = "send"
    /\ Cardinality(resCh[PoolOf[w]]) < ResBuf
    /\ resCh' = [resCh EXCEPT ![PoolOf[w]] = @ \cup {held[w]}]
    /\ held' = [held EXCEPT ![w] = NoJob]
    /\ wpc' = [wpc EXCEPT ![w] = "idle"]
    /\ UNCHANGED <<ctxDone, schedVars, jobsCh, failed, fwd, merged, tallyVars>>
    /\ Alive

-----------------------------------------------------------------------------
\* for r := range c { merged <- r }, one goroutine for each pool.
PickUp(p) ==
    /\ Scenario
    /\ fwd[p] = NoJob
    /\ \E r \in resCh[p] :
          /\ resCh' = [resCh EXCEPT ![p] = @ \ {r}]
          /\ fwd' = [fwd EXCEPT ![p] = r]
    /\ UNCHANGED <<ctxDone, schedVars, jobsCh, workVars, merged, tallyVars>>
    /\ Alive

\* Mutant of Forward: a result is sent again and again.
ForwardAgain(p) ==
    /\ fwd[p] # NoJob
    /\ Cardinality(merged) < MergedBuf
    /\ merged' = merged \cup {fwd[p]}
    /\ UNCHANGED <<ctxDone, schedVars, jobsCh, workVars, resCh, fwd, tallyVars>>
    /\ Alive

\* Mutant of Forward: select { case merged <- r: default: }.
ForwardOrDrop(p) ==
    /\ fwd[p] # NoJob
    /\ merged' = IF Cardinality(merged) < MergedBuf THEN merged \cup {fwd[p]} ELSE merged
    /\ fwd' = [fwd EXCEPT ![p] = NoJob]
    /\ UNCHANGED <<ctxDone, schedVars, jobsCh, workVars, resCh, tallyVars>>
    /\ Alive

Forward(p) ==
    /\ fwd[p] # NoJob
    /\ Cardinality(merged) < MergedBuf
    /\ merged' = merged \cup {fwd[p]}
    /\ fwd' = [fwd EXCEPT ![p] = NoJob]
    /\ UNCHANGED <<ctxDone, schedVars, jobsCh, workVars, resCh, tallyVars>>
    /\ Alive

\* A consumer receives r from the channel the results end up in.
Receive(r) ==
    /\ IF Scenario
       THEN /\ r \in merged
            /\ merged' = merged \ {r}
            /\ UNCHANGED resCh
       ELSE \E p \in Pools :
            /\ r \in resCh[p]
            /\ resCh' = [resCh EXCEPT ![p] = @ \ {r}]
            /\ UNCHANGED merged
    /\ UNCHANGED fwd

\* Mutant of Count: the total counts successes only.
CountSuccesses(r) ==
    /\ Receive(r)
    /\ total' = IF r \in failed THEN total ELSE total + 1
    /\ errors' = IF r \in failed THEN errors + 1 ELSE errors
    /\ counted' = counted \cup {r}
    /\ UNCHANGED <<ctxDone, schedVars, jobsCh, workVars, swallowed>>
    /\ Alive

\* The aggregator's goroutine: one result, counted under the mutex.
Count(r) ==
    /\ Receive(r)
    /\ total' = total + 1
    /\ errors' = IF r \in failed THEN errors + 1 ELSE errors
    /\ counted' = counted \cup {r}
    /\ UNCHANGED <<ctxDone, schedVars, jobsCh, workVars, swallowed>>
    /\ Alive

\* The chain-store goroutine ranges over the same channel, so a result it
\* receives is one the aggregator never sees.
Swallow(r) ==
    /\ Scenario
    /\ Receive(r)
    /\ swallowed' = swallowed \cup {r}
    /\ UNCHANGED <<ctxDone, schedVars, jobsCh, workVars, total, errors, counted>>
    /\ Alive

-----------------------------------------------------------------------------
Cancel ==
    /\ ~ctxDone
    /\ ctxDone' = TRUE
    /\ UNCHANGED <<schedVars, jobsCh, workVars, flowVars, tallyVars>>
    /\ Alive

MainStep(from, to) ==
    /\ mainPc = from
    /\ mainPc' = to
    /\ UNCHANGED <<mode, ctxDone, schedVars, jobsCh, workVars, flowVars, tallyVars>>

\* <-ctx.Done(); wg.Wait(): the workers are not waited for.
Join ==
    /\ MainStep("wait", "total")
    /\ ctxDone
    /\ schedPc = "done"
    /\ UNCHANGED <<summary, exitCode>>

\* The summary is read with one lock for each getter, results still arriving.
ReadTotal ==
    /\ MainStep("total", "errors")
    /\ summary' = [summary EXCEPT !.total = total]
    /\ UNCHANGED exitCode

ReadErrors ==
    /\ MainStep("errors", "rate")
    /\ summary' = [summary EXCEPT !.errors = errors]
    /\ UNCHANGED exitCode

\* ErrorRate() divides the two counters under one lock; Thresholds.Evaluate
\* compares the quotient, in percent, with the limit.  A run by URL has no
\* thresholds.
Exceeds(errs, n, limit) == n > 0 /\ 100 * errs > limit * n

ReadRate ==
    /\ MainStep("rate", "verdict")
    /\ summary' = [summary EXCEPT
                      !.breach = Scenario /\ ErrLimit > 0
                                   /\ Exceeds(errors, total, ErrLimit),
                      !.seen = counted \cup swallowed]
    /\ UNCHANGED exitCode

\* os.Exit(1) on a failed threshold, a return otherwise: every goroutine ends.
Exit ==
    /\ MainStep("verdict", "exited")
    /\ exitCode' = IF summary.breach THEN 1 ELSE 0
    /\ UNCHANGED summary

Main == Join \/ ReadTotal \/ ReadErrors \/ ReadRate \/ Exit

Worker(w) == TakeJob(w) \/ WorkerExit(w) \/ Fire(w) \/ SendResult(w)

Consume == \E r \in Jobs : Count(r) \/ Swallow(r)

Init ==
    /\ mode \in Modes
    /\ ctxDone = FALSE
    /\ fired = 0 /\ schedPc = "select" /\ target \in {PoolOf[w] : w \in Workers}
    /\ jobsCh = [p \in Pools |-> {}]
    /\ wpc = [w \in Workers |-> "idle"]
    /\ held = [w \in Workers |-> NoJob]
    /\ failed = {}
    /\ resCh = [p \in Pools |-> {}]
    /\ fwd = [p \in Pools |-> NoJob]
    /\ merged = {}
    /\ total = 0 /\ errors = 0 /\ counted = {} /\ swallowed = {}
    /\ mainPc = "wait"
    /\ summary = [total |-> 0, errors |-> 0, breach |-> FALSE, seen |-> {}]
    /\ exitCode = -1

Work ==
    \/ Build \/ Submit \/ SchedExit
    \/ \E w \in Workers : Worker(w)
    \/ \E p \in Pools : PickUp(p) \/ Forward(p)
    \/ Consume
    \/ Main

Next == Work \/ Cancel

(***************************************************************************)
(* The goroutines stop only where none can move: each one that can run     *)
(* does, and a request ends because every protocol has a timeout.  No step *)
(* can be undone and MaxJobs bounds their number, so weak fairness of the  *)
(* whole is all that is needed.  (Without the bound, that a select meets   *)
(* the end of the context at last rests on Go's choosing among the ready   *)
(* cases at random.)                                                       *)
(***************************************************************************)
Spec == Init /\ [][Next]_vars /\ WF_vars(Work)

-----------------------------------------------------------------------------
TypeOK ==
    /\ mode \in Modes
    /\ ctxDone \in BOOLEAN
    /\ fired \in 0..MaxJobs
    /\ schedPc \in {"select", "submit", "done"}
    /\ target \in Pools
    /\ jobsCh \in [Pools -> SUBSET Jobs]
    /\ wpc \in [Workers -> {"idle", "fire", "send", "exited"}]
    /\ held \in [Workers -> Jobs \cup {NoJob}]
    /\ failed \subseteq Jobs
    /\ resCh \in [Pools -> SUBSET Jobs]
    /\ \A p \in Pools : /\ Cardinality(jobsCh[p]) <= JobBuf
                       /\ Cardinality(resCh[p]) <= ResBuf
    /\ fwd \in [Pools -> Jobs \cup {NoJob}]
    /\ merged \subseteq Jobs /\ Cardinality(merged) <= MergedBuf
    /\ total \in Nat /\ errors \in Nat
    /\ counted \subseteq Jobs /\ swallowed \subseteq Jobs
    /\ mainPc \in {"wait", "total", "errors", "rate", "verdict", "exited"}
    /\ summary \in [total : Nat, errors : Nat, breach : BOOLEAN, seen : SUBSET Jobs]
    /\ exitCode \in {-1, 0, 1}

\* The requests that have been put into a pool's channel.
Issued == {j \in Jobs : j < fired \/ (j = fired /\ schedPc # "submit")}

Ledger == INSTANCE RequestLedger
    WITH Requests <- Jobs, chained <- Scenario, issued <- Issued,
         settled <- counted \cup swallowed, total <- total, errors <- errors

(***************************************************************************)
(* The pipeline keeps the ledger: whatever the interleaving of scheduler,  *)
(* workers, forwarders and the two consumers, no response is counted       *)
(* twice, invented, or counted before its request was submitted.           *)
(***************************************************************************)
ImplementsLedger == Ledger!LedgerSpec

\* The places a request can be in once it is submitted.
Sites == ({"jobs", "results", "forward"} \X Pools)
            \cup ({"worker"} \X Workers)
            \cup ({"merged", "counted", "swallowed"} \X {0})

At(site, j) ==
    CASE site[1] = "jobs"      -> j \in jobsCh[site[2]]
      [] site[1] = "worker"    -> j = held[site[2]]
      [] site[1] = "results"   -> j \in resCh[site[2]]
      [] site[1] = "forward"   -> j = fwd[site[2]]
      [] site[1] = "merged"    -> j \in merged
      [] site[1] = "counted"   -> j \in counted
      [] site[1] = "swallowed" -> j \in swallowed

(***************************************************************************)
(* Nothing is lost or doubled between the channels: every submitted        *)
(* request is in exactly one place of the pipeline (pool.go, worker.go,    *)
(* run.go:749-766).                                                        *)
(***************************************************************************)
OnePlace ==
    \A j \in Jobs :
        /\ j \in Issued <=> \E x \in Sites : At(x, j)
        /\ \A x \in Sites : At(x, j) => \A y \in Sites : At(y, j) => x = y

(***************************************************************************)
(* The counters agree with what was consumed, so the rate that ErrorRate() *)
(* computes under one lock (aggregator.go:105-112) is one of real results. *)
(***************************************************************************)
CountersMatch ==
    /\ total = Cardinality(counted)
    /\ errors = Cardinality(counted \cap failed)

(***************************************************************************)
(* The result of a request a worker has taken reaches a consumer, unless   *)
(* the process ends first: full buffers, the forwarders and the two        *)
(* competing consumers never strand it (worker.go:242, run.go:755-757).    *)
(* The context need not end for that.                                      *)
(***************************************************************************)
EveryResultConsumed ==
    \A j \in Jobs :
        (\E w \in Workers : held[w] = j)
            ~> (j \in counted \cup swallowed \/ mainPc = "exited")

\* Submit waits on a full channel that no worker will ever read again.
Wedged ==
    /\ schedPc = "submit"
    /\ Cardinality(jobsCh[target]) >= JobBuf
    /\ \A w \in Workers : PoolOf[w] = target => wpc[w] = "exited"

(***************************************************************************)
(* Once the context ends, the run reaches its summary and exits, except in *)
(* one way: Submit (pool.go:26-28) does not watch the context, and the     *)
(* workers that would make room have left.                                 *)
(***************************************************************************)
ShutdownOrWedged == ctxDone ~> (mainPc = "exited" \/ Wedged)

(***************************************************************************)
(* README.md:208 "Threshold breach exits with code 1": when responses had  *)
(* been consumed by the time the error rate was read, and every one of     *)
(* them was an error, a run of a scenario with an error-rate threshold     *)
(* below 100 percent exits with 1.                                         *)
(***************************************************************************)
BreachExitsWithOne ==
    mainPc = "exited" /\ Scenario /\ ErrLimit \in 1..99
        => (summary.seen # {} /\ summary.seen \subseteq failed => exitCode = 1)
=============================================================================

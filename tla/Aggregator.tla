------------------------------ MODULE Aggregator ----------------------------
(***************************************************************************)
(* metrics.Aggregator (internal/metrics/aggregator.go): counters and a     *)
(* histogram under one mutex.  A result is counted in one critical         *)
(* section, and every getter is one of its own, so that a reader of        *)
(* several fields sees each at a moment of its own.                        *)
(*                                                                         *)
(* Latencies are small integers; HistMax stands for the 60000 ms up to     *)
(* which the histogram records.  The error messages are their number, and  *)
(* a rate is the pair of counters it divides.                              *)
(***************************************************************************)
EXTENDS Integers, Sequences

CONSTANTS
    MaxResults,  \* bound: results counted in a run
    MaxLatency,  \* bound: the longest latency
    HistMax      \* the longest latency the histogram records

ASSUME AggregatorAssumption ==
    MaxResults \in Nat /\ MaxLatency \in Nat /\ HistMax \in Nat \ {0}

VARIABLES
    total,     \* totalRequests
    errors,    \* errorCount
    messages,  \* the sum of errorMessages
    hist       \* the histogram: how many results of each latency

aggVars == <<total, errors, messages, hist>>

\* Mutant of Count: the message is recorded only for a latency in range.
CountInRange(latency, failed) ==
    LET ms == IF latency < 1 THEN 1 ELSE latency
    IN /\ total' = total + 1
       /\ errors' = IF failed THEN errors + 1 ELSE errors
       /\ messages' = IF failed /\ ms <= HistMax THEN messages + 1 ELSE messages
       /\ hist' = IF ms \in DOMAIN hist THEN [hist EXCEPT ![ms] = @ + 1] ELSE hist

\* One result.  RecordValue refuses a latency above its range, and its error is
\* dropped: the result is in the counters and in no percentile.
Count(latency, failed) ==
    LET ms == IF latency < 1 THEN 1 ELSE latency
    IN /\ total' = total + 1
       /\ errors' = IF failed THEN errors + 1 ELSE errors
       /\ messages' = IF failed THEN messages + 1 ELSE messages
       /\ hist' = IF ms \in DOMAIN hist THEN [hist EXCEPT ![ms] = @ + 1] ELSE hist

\* The recorded results of latency u: none is beyond the range.
At(h, u) == IF u \in DOMAIN h THEN h[u] ELSE 0

\* How many recorded latencies are at most v.
UpTo(h, v) ==
    LET sum[u \in 0..v] == IF u = 0 THEN 0 ELSE sum[u - 1] + At(h, u) IN sum[v]

Recorded(h) == UpTo(h, HistMax)

\* hdrhistogram's ValueAtQuantile, q in tenths of a percent.
ValueAtQuantile(h, q) ==
    LET rank == (q * Recorded(h) + 500) \div 1000
        enough == {v \in 1..HistMax : UpTo(h, v) >= rank}
    IN IF Recorded(h) = 0 THEN 0
       ELSE CHOOSE v \in enough : \A u \in enough : v <= u

Longest(h) ==
    LET present == {v \in 1..HistMax : h[v] > 0}
    IN IF present = {} THEN 0 ELSE CHOOSE v \in present : \A u \in present : u <= v

\* What the getter of a field returns.  RPS divides the total by a time.
Getter(field) ==
    CASE field \in {"total", "rps"} -> total
      [] field = "errors"           -> errors
      [] field = "rate"             -> [errors |-> errors, total |-> total]
      [] field = "breakdown"        -> messages
      [] field = "p50"              -> ValueAtQuantile(hist, 500)
      [] field = "p75"              -> ValueAtQuantile(hist, 750)
      [] field = "p90"              -> ValueAtQuantile(hist, 900)
      [] field = "p95"              -> ValueAtQuantile(hist, 950)
      [] field = "p99"              -> ValueAtQuantile(hist, 990)
      [] field = "p999"             -> ValueAtQuantile(hist, 999)
      [] field = "max"              -> Longest(hist)

AggInit ==
    /\ total = 0 /\ errors = 0 /\ messages = 0
    /\ hist = [v \in 1..HistMax |-> 0]

AggTypeOK ==
    /\ total \in 0..MaxResults
    /\ errors \in 0..MaxResults /\ messages \in 0..MaxResults
    /\ hist \in [1..HistMax -> 0..MaxResults]
=============================================================================

---------------------------- MODULE RequestLedger ---------------------------
(***************************************************************************)
(* What the pipeline of a load run promises about its requests: each one   *)
(* is issued once, its response is settled at most once and only after it  *)
(* was issued, and the two counters behind every report move with the      *)
(* responses that are settled.  LoadRun is shown to implement this.        *)
(***************************************************************************)
EXTENDS Naturals

CONSTANTS
    Requests     \* the requests of the run

VARIABLES
    chained,   \* whether a response may be settled without being counted
    issued,    \* requests handed to a pool
    settled,   \* requests whose response has been consumed
    total,     \* metrics.Aggregator.totalRequests
    errors     \* metrics.Aggregator.errorCount

ledgerVars == <<chained, issued, settled, total, errors>>

LedgerInit ==
    /\ chained \in BOOLEAN
    /\ issued = {}
    /\ settled = {}
    /\ total = 0
    /\ errors = 0

Issue(r) ==
    /\ r \notin issued
    /\ issued' = issued \cup {r}
    /\ UNCHANGED <<chained, settled, total, errors>>

Settle(r) ==
    /\ r \in issued \ settled
    /\ settled' = settled \cup {r}
    /\ UNCHANGED <<chained, issued>>

\* The response is counted, as a success or as an error ...
Count(r) ==
    /\ Settle(r)
    /\ total' = total + 1
    /\ errors' \in {errors, errors + 1}

\* ... or read by a consumer that counts nothing.
Swallow(r) ==
    /\ chained
    /\ Settle(r)
    /\ UNCHANGED <<total, errors>>

LedgerNext == \E r \in Requests : Issue(r) \/ Count(r) \/ Swallow(r)

LedgerSpec == LedgerInit /\ [][LedgerNext]_ledgerVars
=============================================================================

---------------------------- MODULE ScriptedJobs ----------------------------
(***************************************************************************)
(* What the HTTP workers of a scenario share through their jobs: the       *)
(* header map of the endpoint.  run.go:334 copies the map's reference into *)
(* every job; a script's override is applied to the job in the worker      *)
(* (internal/worker/worker.go:107-183, 255-268), and that writes into the  *)
(* map all jobs of the endpoint refer to, with no lock.  An endpoint       *)
(* without headers has a nil map, and each job makes one of its own.       *)
(*                                                                         *)
(* The script engines are not shared: each worker clones its own from the  *)
(* ScriptPool.  JS and Lua scripts do the same to the job.                 *)
(***************************************************************************)
EXTENDS Integers, FiniteSets

CONSTANTS
    Workers,
    Endpoints,
    Names,       \* header names
    HasHeaders,  \* the Endpoints with a headers field in the scenario
    HasScript    \* the Endpoints with a script

NoEndpoint == "none"

VARIABLES
    wpc,      \* "idle" | "call" | "override" | "request", for each worker
    job,      \* the endpoint of the job in hand, or NoEndpoint
    engines,  \* the endpoints a worker has an engine for
    toSet,    \* headers of the override still to be written
    headers   \* the names in each endpoint's shared map

vars == <<wpc, job, engines, toSet, headers>>

Goto(w, place) == wpc' = [wpc EXCEPT ![w] = place]

\* A job arrives.  Without a script its headers are read at once.
TakeJob(w) ==
    /\ wpc[w] = "idle"
    /\ \E e \in Endpoints :
          /\ job' = [job EXCEPT ![w] = e]
          /\ Goto(w, IF e \in HasScript THEN "call" ELSE "request")
    /\ UNCHANGED <<engines, toSet, headers>>

\* The engine is cloned, if this worker has none for the script, and called.
CallScript(w) ==
    /\ wpc[w] = "call"
    /\ engines' = [engines EXCEPT ![w] = @ \cup {job[w]}]
    /\ \E hs \in SUBSET Names : toSet' = [toSet EXCEPT ![w] = hs]
    /\ Goto(w, "override")
    /\ UNCHANGED <<job, headers>>

\* The clone or the call fails, and the worker reports the error.
ScriptFails(w) ==
    /\ wpc[w] = "call"
    /\ Goto(w, "idle")
    /\ engines' \in {engines, [engines EXCEPT ![w] = @ \cup {job[w]}]}
    /\ UNCHANGED <<job, toSet, headers>>

\* applyOverride: job.Headers[k] = v, one header after the other, into the map of
\* the endpoint or, if it has none, into one of the job's own.
SetHeader(w) ==
    /\ wpc[w] = "override"
    /\ \E h \in toSet[w] :
          /\ toSet' = [toSet EXCEPT ![w] = @ \ {h}]
          /\ headers' = IF job[w] \in HasHeaders
                        THEN [headers EXCEPT ![job[w]] = @ \cup {h}]
                        ELSE headers
    /\ UNCHANGED <<wpc, job, engines>>

Overridden(w) ==
    /\ wpc[w] = "override"
    /\ toSet[w] = {}
    /\ Goto(w, "request")
    /\ UNCHANGED <<job, engines, toSet, headers>>

\* for k, v := range job.Headers { req.Header.Set(k, v) }; the rest of the
\* request does not touch the map.
Request(w) ==
    /\ wpc[w] = "request"
    /\ Goto(w, "idle")
    /\ UNCHANGED <<job, engines, toSet, headers>>

Init ==
    /\ wpc = [w \in Workers |-> "idle"]
    /\ job = [w \in Workers |-> NoEndpoint]
    /\ engines = [w \in Workers |-> {}]
    /\ toSet = [w \in Workers |-> {}]
    /\ headers \in [Endpoints -> SUBSET Names]
    /\ \A e \in Endpoints \ HasHeaders : headers[e] = {}

Next ==
    \E w \in Workers :
        \/ TakeJob(w) \/ CallScript(w) \/ ScriptFails(w)
        \/ SetHeader(w) \/ Overridden(w) \/ Request(w)

Spec == Init /\ [][Next]_vars

-----------------------------------------------------------------------------
\* The next step of w writes to, or walks over, the map of endpoint e.
Writes(w, e) == wpc[w] = "override" /\ toSet[w] # {} /\ job[w] = e
Reads(w, e)  == wpc[w] = "request" /\ job[w] = e

(***************************************************************************)
(* README.md:276 "no locks, no shared mutable state": no worker is about   *)
(* to write a header map that another is about to write or to walk over.   *)
(* (Nothing orders the two; the Go runtime stops the whole program when it *)
(* catches a concurrent map write or iteration.)                           *)
(***************************************************************************)
NoHeaderRace ==
    \A v, w \in Workers : \A e \in HasHeaders :
        v # w => ~(Writes(v, e) /\ (Writes(w, e) \/ Reads(w, e)))
=============================================================================

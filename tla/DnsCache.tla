------------------------------- MODULE DnsCache -----------------------------
(***************************************************************************)
(* The DNS cache of internal/dnscache/resolver.go, shared by the           *)
(* transports of all HTTP workers.  Hosts do not interact, so there is     *)
(* one, without an override.  A lookup reads the cache under the read      *)
(* lock, asks the resolver with no lock held, and stores the answer under  *)
(* the write lock: lookups overlap, and each stores its own answer, the    *)
(* last one to return wins.                                                *)
(*                                                                         *)
(* An answer is represented by the time at which it was true.  The         *)
(* resolver answers, or fails, within MaxQuery.  Nothing in the program    *)
(* flushes the cache.                                                      *)
(***************************************************************************)
EXTENDS Integers

CONSTANTS
    Workers,
    TTL,        \* cache_ttl, which may be zero or negative
    MaxQuery,   \* the longest a query takes
    MaxTime     \* bound: the time at which the model's clock stops

ASSUME DnsCacheAssumption == TTL \in Int /\ MaxQuery \in Nat /\ MaxTime \in Nat

Missing == [asOf |-> -1, expires |-> -1]

VARIABLES
    now,
    cache,   \* cache[host], or Missing
    pc,      \* "idle" | "look" | "query", for each worker
    entry,   \* the entry e the lookup has read, or Missing (ok is false)
    asked    \* when its query was sent

vars == <<now, cache, pc, entry, asked>>

Goto(w, place) == pc' = [pc EXCEPT ![w] = place]

-----------------------------------------------------------------------------
\* A dial starts: e, ok := r.cache[host] under the read lock.
ReadCache(w) ==
    /\ pc[w] = "idle"
    /\ entry' = [entry EXCEPT ![w] = cache]
    /\ Goto(w, "look")
    /\ UNCHANGED <<now, cache, asked>>

Valid(e) == e # Missing /\ now < e.expires

\* The entry has not expired: its addresses are returned.
Hit(w) ==
    /\ pc[w] = "look"
    /\ Valid(entry[w])
    /\ Goto(w, "idle")
    /\ UNCHANGED <<now, cache, entry, asked>>

Query(w) ==
    /\ pc[w] = "look"
    /\ ~Valid(entry[w])
    /\ asked' = [asked EXCEPT ![w] = now]
    /\ Goto(w, "query")
    /\ UNCHANGED <<now, cache, entry>>

\* The answer, true at some moment of the query, is stored and returned.
Answered(w) ==
    /\ pc[w] = "query"
    /\ \E t \in asked[w]..now : cache' = [asOf |-> t, expires |-> now + TTL]
    /\ Goto(w, "idle")
    /\ UNCHANGED <<now, entry, asked>>

\* Mutant of NoAnswer: the failure is cached.
NoAnswerCached(w) ==
    /\ pc[w] = "query"
    /\ cache' = [asOf |-> -1, expires |-> now + TTL]
    /\ Goto(w, "idle")
    /\ UNCHANGED <<now, entry, asked>>

\* Mutant of NoAnswer: the stale entry gets another TTL.
NoAnswerRenews(w) ==
    /\ pc[w] = "query"
    /\ cache' = IF entry[w] = Missing THEN cache
                ELSE [asOf |-> entry[w].asOf, expires |-> now + TTL]
    /\ Goto(w, "idle")
    /\ UNCHANGED <<now, entry, asked>>

\* Mutant of NoAnswer: the expired entry is dropped.
NoAnswerForgets(w) ==
    /\ pc[w] = "query"
    /\ cache' = Missing
    /\ Goto(w, "idle")
    /\ UNCHANGED <<now, entry, asked>>

\* No answer: the expired entry is returned, and stays expired, or, if there is
\* none, an error.
NoAnswer(w) ==
    /\ pc[w] = "query"
    /\ Goto(w, "idle")
    /\ UNCHANGED <<now, cache, entry, asked>>

\* Time passes, but no query outlives the resolver's own limit.
Tick ==
    /\ now < MaxTime
    /\ \A w \in Workers : pc[w] = "query" => now < asked[w] + MaxQuery
    /\ now' = now + 1
    /\ UNCHANGED <<cache, pc, entry, asked>>

Init ==
    /\ now = 0
    /\ cache = Missing
    /\ pc = [w \in Workers |-> "idle"]
    /\ entry = [w \in Workers |-> Missing]
    /\ asked = [w \in Workers |-> 0]

Lookup(w) == ReadCache(w) \/ Hit(w) \/ Query(w) \/ Answered(w) \/ NoAnswer(w)

Next == Tick \/ \E w \in Workers : Lookup(w)

Spec == Init /\ [][Next]_vars

-----------------------------------------------------------------------------
Entries == [asOf : Nat, expires : Int]

TypeOK ==
    /\ now \in Nat
    /\ cache \in Entries \cup {Missing}
    /\ pc \in [Workers -> {"idle", "look", "query"}]
    /\ entry \in [Workers -> Entries \cup {Missing}]
    /\ asked \in [Workers -> Nat]

(***************************************************************************)
(* An address that a lookup may return as valid was true at most one TTL   *)
(* and one query ago, whether it is still the cached one or was replaced   *)
(* since it was read (resolver.go:75-81, 96-101).                          *)
(***************************************************************************)
BoundedStaleness ==
    \A e \in {cache} \cup {entry[w] : w \in Workers} :
        Valid(e) => now - e.asOf < TTL + MaxQuery

(***************************************************************************)
(* Overlapping lookups may put an older answer in place of a newer one,    *)
(* but not one older by more than a query takes, and none may take the     *)
(* answer away (resolver.go:88-101).                                       *)
(***************************************************************************)
RegressionBounded ==
    [][cache # Missing => cache'.asOf >= cache.asOf - MaxQuery]_vars
=============================================================================

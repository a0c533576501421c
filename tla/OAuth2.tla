-------------------------------- MODULE OAuth2 ------------------------------
(***************************************************************************)
(* The OAuth2 client-credentials cache of internal/auth/auth.go, shared by *)
(* all HTTP workers of a run: one token and its expiry under a mutex that  *)
(* stays locked while a new token is fetched.                              *)
(*                                                                         *)
(* Time is counted in units of ten seconds or so: the margin of 30 s is 3  *)
(* units, the HTTP client's timeout of 10 s is 1, the default life of one  *)
(* hour is any larger number.  The server issues a token at some moment of *)
(* the exchange and reckons its life from there; the client reckons it     *)
(* from the moment it has parsed the response, which is taken to be the    *)
(* end of the exchange.                                                    *)
(***************************************************************************)
EXTENDS Integers

CONSTANTS
    Workers,
    Lives,          \* values of expires_in; 0 when the response has none
    DefaultLife,    \* assumed by the client in that case
    Margin,         \* a token is replaced this long before its expiry
    ClientTimeout,  \* httpClient.Timeout: an exchange takes no longer
    MaxTime         \* bound: the time at which the model's clock stops

ASSUME OAuth2Assumption ==
    /\ Lives \subseteq Nat
    /\ DefaultLife \in Nat /\ Margin \in Nat /\ MaxTime \in Nat
    /\ ClientTimeout \in 0..Margin

Free == "free"

ASSUME FreeAssumption == Free \notin Workers

VARIABLES
    now,
    mu,       \* the worker that holds the mutex, or Free
    apc,      \* "idle" | "wait" | "check" | "post", for each worker
    asked,    \* when the exchange in progress, or the last one, began
    expiry,   \* o2expiry: the client's idea of when the token expires
    life,     \* expires_in of the cached token
    death     \* when the server stops to accept it, if life is not 0

vars == <<now, mu, apc, asked, expiry, life, death>>

Goto(w, place) == apc' = [apc EXCEPT ![w] = place]

\* m.o2token = ...; m.o2expiry = ...: a token of life n, issued since `asked`.
StoreToken(n) ==
    /\ life' = n
    /\ expiry' = now + (IF n > 0 THEN n ELSE DefaultLife)
    /\ \E issued \in asked..now : death' = issued + n

-----------------------------------------------------------------------------
\* Inject of a job that uses this middleware.
Ask(w) ==
    /\ apc[w] = "idle"
    /\ Goto(w, "wait")
    /\ UNCHANGED <<now, mu, asked, expiry, life, death>>

\* Mutant of Lock: no mutex.
LockNothing(w) ==
    /\ apc[w] = "wait"
    /\ mu' = w
    /\ Goto(w, "check")
    /\ UNCHANGED <<now, asked, expiry, life, death>>

Lock(w) ==
    /\ apc[w] = "wait"
    /\ mu = Free
    /\ mu' = w
    /\ Goto(w, "check")
    /\ UNCHANGED <<now, asked, expiry, life, death>>

Unlock == mu' = Free

\* Mutant of Fresh: no margin.
FreshUntilExpiry == now < expiry

Fresh == now + Margin < expiry

\* The cached token is good for a while yet: it goes into the request.
UseCached(w) ==
    /\ apc[w] = "check"
    /\ Fresh
    /\ Unlock
    /\ Goto(w, "idle")
    /\ UNCHANGED <<now, asked, expiry, life, death>>

\* Mutant of Post: the deadline of the exchange in place of its beginning.
PostDeadline(w) ==
    /\ apc[w] = "check"
    /\ ~Fresh
    /\ asked' = now + ClientTimeout
    /\ Goto(w, "post")
    /\ UNCHANGED <<now, mu, expiry, life, death>>

\* It is not: the token endpoint is asked, with the mutex held.
Post(w) ==
    /\ apc[w] = "check"
    /\ ~Fresh
    /\ asked' = now
    /\ Goto(w, "post")
    /\ UNCHANGED <<now, mu, expiry, life, death>>

\* A token comes back and is used at once, however short its life.
Refreshed(w) ==
    /\ apc[w] = "post"
    /\ \E n \in Lives : StoreToken(n)
    /\ Unlock
    /\ Goto(w, "idle")
    /\ UNCHANGED <<now, asked>>

\* Mutant of Refused: the error path forgets to unlock.
RefusedLocked(w) ==
    /\ apc[w] = "post"
    /\ Goto(w, "idle")
    /\ UNCHANGED <<now, mu, asked, expiry, life, death>>

\* Timeout, cancelled context, bad status or body: the request fails, and the
\* cached token stays, not to be used.
Refused(w) ==
    /\ apc[w] = "post"
    /\ Unlock
    /\ Goto(w, "idle")
    /\ UNCHANGED <<now, asked, expiry, life, death>>

\* Time passes, but no exchange outlives the client's timeout.
Tick ==
    /\ now < MaxTime
    /\ \A w \in Workers : apc[w] = "post" => now < asked + ClientTimeout
    /\ now' = now + 1
    /\ UNCHANGED <<mu, apc, asked, expiry, life, death>>

\* auth.New has fetched the first token, or the run has not begun.
Init ==
    /\ now \in 0..ClientTimeout
    /\ mu = Free
    /\ apc = [w \in Workers |-> "idle"]
    /\ asked = 0
    /\ \E n \in Lives, issued \in 0..now :
          /\ life = n
          /\ expiry = now + (IF n > 0 THEN n ELSE DefaultLife)
          /\ death = issued + n

Holder(w) == UseCached(w) \/ Post(w) \/ Refreshed(w) \/ Refused(w)

Next == Tick \/ \E w \in Workers : Ask(w) \/ Lock(w) \/ Holder(w)

(***************************************************************************)
(* The holder of the mutex runs and its exchange ends, by the timeout at   *)
(* the latest.  sync.Mutex hands itself to a waiter that has waited too    *)
(* long (its starvation mode), hence strong fairness of Lock.              *)
(***************************************************************************)
Spec ==
    /\ Init /\ [][Next]_vars
    /\ \A w \in Workers : WF_vars(Holder(w)) /\ SF_vars(Lock(w))

-----------------------------------------------------------------------------
TypeOK ==
    /\ now \in 0..(MaxTime + ClientTimeout)
    /\ mu \in Workers \cup {Free}
    /\ apc \in [Workers -> {"idle", "wait", "check", "post"}]
    /\ asked \in 0..now
    /\ expiry \in Nat /\ death \in Nat
    /\ life \in Lives

(***************************************************************************)
(* The margin covers what the client cannot know: a token whose life the   *)
(* server stated, taken from the cache, is still good at the server for    *)
(* longer than the margin less one exchange (auth.go:86, 106, 156).        *)
(***************************************************************************)
CachedTokenIsAlive ==
    life > 0 /\ Fresh => now + (Margin - ClientTimeout) < death

(***************************************************************************)
(* Workers that queued for the mutex while another refreshed do not        *)
(* refresh again: a token is replaced only once it is within the margin of *)
(* its expiry (auth.go:103-111).                                           *)
(***************************************************************************)
NoStampede == [][expiry' # expiry => now + Margin >= expiry]_vars

(***************************************************************************)
(* Whoever asks gets a token or an error, although the token endpoint may  *)
(* be dead and every worker waits for the same mutex (auth.go:102-113).    *)
(***************************************************************************)
EveryAskReturns == \A w \in Workers : apc[w] # "idle" ~> apc[w] = "idle"
=============================================================================

------------------------- MODULE RequestFlow_proofs -------------------------
(***************************************************************************)
(* Proofs about RequestFlow, for any scenarios, workers and server.        *)
(***************************************************************************)
EXTENDS RequestFlow, FiniteSetTheorems, SequenceTheorems, TLAPS

(***************************************************************************)
(* Sessions.  What makes SessionsInOrder inductive: a request in flight is *)
(* not among the handled ones, no two have the same number, and what was   *)
(* handled before it was sent still is.                                    *)
(***************************************************************************)
InFlight(w) == pc[w] \in {"wait", "read"}

SessionInv ==
    /\ sent \in Nat
    /\ pc \in [Workers -> {"idle", "send", "wait", "read"}]
    /\ number \in [Workers -> Nat]
    /\ before \in [Workers -> SUBSET handled]
    /\ handled \subseteq 1..sent
    /\ overtaken \subseteq handled
    /\ \A w \in Workers : InFlight(w) => number[w] \in (1..sent) \ handled
    /\ \A v, w \in Workers : InFlight(v) /\ InFlight(w) /\ v # w => number[v] # number[w]
    /\ jar \notin overtaken

sessionVars == <<pc, number, before, sent, jar, handled, overtaken>>

\* A worker that reports is out of flight.
LEMMA ReportLeaves ==
    ASSUME NEW w \in Workers, NEW err, NEW words, NEW json,
           Report(w, err, words, json)
    PROVE  /\ pc' = [pc EXCEPT ![w] = "idle"]
           /\ number' = [number EXCEPT ![w] = 0]
           /\ before' = [before EXCEPT ![w] = {}]
           /\ sent' = sent
BY DEF Report

\* The steps that send, answer and report a request.
LEMMA WorkerKeepsSessions ==
    ASSUME SessionInv, NEW w \in Workers, Worker(w)
    PROVE  SessionInv'
<1>1. CASE TakeJob(w)
  BY <1>1 DEF TakeJob, SessionInv, InFlight, cookieVars
<1>2. CASE Send(w)
  <2>1. sent' = sent + 1 /\ handled' = handled /\ overtaken' = overtaken /\ jar' = jar
    BY <1>2 DEF Send, cookieVars
  <2>2. /\ pc' = [pc EXCEPT ![w] = "wait"] /\ number' = [number EXCEPT ![w] = sent + 1]
        /\ before' = [before EXCEPT ![w] = handled]
    BY <1>2 DEF Send
  <2>3. sent + 1 \notin handled /\ 1..sent \subseteq 1..(sent + 1)
    BY DEF SessionInv
  <2>4. \A v \in Workers : InFlight(v)' => number'[v] \in (1..sent') \ handled'
    BY <2>1, <2>2, <2>3 DEF SessionInv, InFlight
  <2>5. \A v \in Workers : InFlight(v) => number[v] # sent + 1
    BY DEF SessionInv
  <2>6. \A u, v \in Workers : InFlight(u)' /\ InFlight(v)' /\ u # v => number'[u] # number'[v]
    BY <2>2, <2>5 DEF SessionInv, InFlight
  <2> QED
    BY <2>1, <2>2, <2>3, <2>4, <2>6 DEF SessionInv
<1>3. CASE GetHeader(w)
  <2>1. jar' \in {jar, number[w]} /\ pc[w] = "wait"
    BY <1>3 DEF GetHeader
  <2>2. pc' = [pc EXCEPT ![w] = "read"]
        /\ UNCHANGED <<number, before, sent, handled, overtaken>>
    BY <1>3 DEF GetHeader
  <2>3. number[w] \notin overtaken
    BY <2>1 DEF SessionInv, InFlight
  <2> QED
    BY <2>1, <2>2, <2>3 DEF SessionInv, InFlight
<1>4. CASE FailRequest(w)
  <2>1. /\ pc' = [pc EXCEPT ![w] = "idle"] /\ number' = [number EXCEPT ![w] = 0]
        /\ before' = [before EXCEPT ![w] = {}]
        /\ UNCHANGED <<sent, jar, handled, overtaken>>
    BY <1>4, ReportLeaves DEF FailRequest, cookieVars
  <2> QED
    BY <2>1 DEF SessionInv, InFlight
<1>5. CASE ReadBody(w)
  <2>1. /\ pc' = [pc EXCEPT ![w] = "idle"] /\ number' = [number EXCEPT ![w] = 0]
        /\ before' = [before EXCEPT ![w] = {}] /\ sent' = sent
        /\ pc[w] = "read" /\ handled' = handled \cup {number[w]}
    BY <1>5, ReportLeaves DEF ReadBody
  <2>2. \/ jar' = jar /\ overtaken' = overtaken
        \/ jar' = number[w] /\ overtaken' = overtaken \cup before[w]
    BY <1>5 DEF ReadBody, SetCookiesAgain
  <2>3. number[w] \in (1..sent) \ handled /\ before[w] \subseteq handled
    BY <2>1 DEF SessionInv, InFlight
  <2>4. /\ jar' \notin overtaken' /\ overtaken' \subseteq handled'
        /\ handled' \subseteq 1..sent'
    BY <2>1, <2>2, <2>3 DEF SessionInv
  <2>5. \A v \in Workers : InFlight(v)' => v # w /\ InFlight(v) /\ number'[v] = number[v]
    BY <2>1 DEF SessionInv, InFlight
  <2>6. \A v \in Workers : InFlight(v)' => number'[v] \in (1..sent') \ handled'
    BY <2>1, <2>5 DEF SessionInv, InFlight
  <2>7. \A u, v \in Workers : InFlight(u)' /\ InFlight(v)' /\ u # v => number'[u] # number'[v]
    BY <2>5 DEF SessionInv
  <2> QED
    BY <2>1, <2>4, <2>6, <2>7 DEF SessionInv
<1> QED
  BY <1>1, <1>2, <1>3, <1>4, <1>5 DEF Worker

\* The inductive invariant of the sessions holds in every reachable state.
THEOREM SessionInvariant == Spec => []SessionInv
<1>1. Init => SessionInv
  BY DEF Init, SessionInv, InFlight
<1>2. SessionInv /\ [Next]_vars => SessionInv'
  <2> SUFFICES ASSUME SessionInv, [Next]_vars PROVE SessionInv'
    OBVIOUS
  <2>1. CASE UNCHANGED sessionVars
    BY <2>1 DEF sessionVars, SessionInv, InFlight
  <2>2. CASE LoadScenario \/ Pick \/ Build \/ Count \/ Store
    <3>1. UNCHANGED sessionVars
      BY <2>2 DEF LoadScenario, Pick, Build, Submit, Count, Store, sessionVars,
                  workerVars, cookieVars
    <3> QED
      BY <2>1, <3>1
  <2>3. CASE \E w \in Workers : Worker(w)
    BY <2>3, WorkerKeepsSessions
  <2>4. CASE UNCHANGED vars
    BY <2>1, <2>4 DEF vars, sessionVars, workerVars, cookieVars
  <2> QED
    BY <2>2, <2>3, <2>4 DEF Next
<1> QED
  BY <1>1, <1>2, PTL DEF Spec

(***************************************************************************)
(* For any number of workers and any server, the second SetCookies brings  *)
(* back no session but one that overlapped with its successor.             *)
(***************************************************************************)
THEOREM SessionOrder == Spec => []SessionsInOrder
<1>1. SessionInv => SessionsInOrder
  BY DEF SessionInv, SessionsInOrder
<1> QED
  BY <1>1, SessionInvariant, PTL

-----------------------------------------------------------------------------
(***************************************************************************)
(* Variables.  The store knows all that was ever learned, so does the      *)
(* scheduler's copy of what was learned when it was taken, and a job was   *)
(* built from such a copy.                                                 *)
(***************************************************************************)
Resolved(j) == {p[2] : p \in PiecesOf(j, "var")} \cap j.sofar = {}

ChainInv ==
    /\ learned \subseteq DOMAIN data
    /\ sched.sofar \subseteq DOMAIN sched.known
    /\ \E S : queue \in Seq(S)
    /\ DOMAIN job = Workers
    /\ \A i \in DOMAIN queue : Resolved(queue[i])
    /\ \A w \in Workers : Resolved(job[w])

chainVars == <<learned, data, sched, queue, job>>

\* A piece that ReplaceVars leaves as a variable is one that is not known.
LEMMA LeftIsUnknown ==
    ASSUME NEW piece, NEW known, Replaced(piece, known)[1] = "var"
    PROVE  Replaced(piece, known)[2] \notin DOMAIN known
<1>1. CASE piece[1] = "lit"
  BY <1>1 DEF Replaced
<1>2. CASE piece[1] = "var" /\ piece[2] \in DOMAIN known
  BY <1>2 DEF Replaced
<1>3. CASE piece[1] # "lit" /\ ~(piece[1] = "var" /\ piece[2] \in DOMAIN known)
  <2>1. Replaced(piece, known) \in {<<"made", piece[2]>>, piece}
    BY <1>3 DEF Replaced
  <2>2. Replaced(piece, known) = piece
    BY <2>1
  <2> QED
    BY <1>3, <2>2
<1> QED
  BY <1>1, <1>2, <1>3

\* A job whose pieces were replaced from one copy of the store.
LEMMA BuiltIsResolved ==
    ASSUME NEW e, NEW url, NEW body, NEW headers, NEW known, NEW sofar, sofar \subseteq DOMAIN known
    PROVE  Resolved([ep |-> e, url |-> ReplaceVars(url, known),
                     body |-> ReplaceVars(body, known), headers |-> headers,
                 sofar |-> sofar])
<1> DEFINE j == [ep |-> e, url |-> ReplaceVars(url, known),
                 body |-> ReplaceVars(body, known), headers |-> headers,
                 sofar |-> sofar]
<1>1. ASSUME NEW p \in PiecesOf(j, "var") PROVE p[2] \notin DOMAIN known
  <2>1. p[1] = "var"
    BY DEF PiecesOf
  <2>2. \/ \E i \in DOMAIN url : p = Replaced(url[i], known)
        \/ \E i \in DOMAIN body : p = Replaced(body[i], known)
    BY DEF PiecesOf, ReplaceVars
  <2> QED
    BY <2>1, <2>2, LeftIsUnknown
<1>2. j.sofar = sofar
  OBVIOUS
<1> HIDE DEF j
<1>3. {p[2] : p \in PiecesOf(j, "var")} \cap j.sofar = {}
  BY <1>1, <1>2
<1> QED
  BY <1>3 DEF Resolved, j

LEMMA NoJobIsResolved == Resolved(NoJob)
BY DEF Resolved, NoJob, PiecesOf

\* Only Build adds a job.
LEMMA BuildKeepsChain ==
    ASSUME ChainInv, Build
    PROVE  ChainInv'
<1> DEFINE ep == scenario.endpoints[sched.ep]
           new == [ep |-> sched.ep, url |-> ReplaceVars(ep.url, sched.known),
                   body |-> ReplaceVars(ep.body, sched.known), headers |-> ep.headers,
                   sofar |-> sched.sofar]
<1>1. Resolved(new)
  BY BuiltIsResolved DEF ChainInv
<1> HIDE DEF new
<1>2. /\ sched' = [ep |-> 0, known |-> <<>>, sofar |-> {}]
      /\ queue' \in {queue, Append(queue, new)}
      /\ UNCHANGED <<job, data, learned>>
  BY DEF Build, Submit, workerVars, storeVars, new
<1>3. PICK S : queue \in Seq(S)
  BY DEF ChainInv
<1>4. CASE queue' = queue
  BY <1>2, <1>4 DEF ChainInv, Resolved, PiecesOf
<1>5. CASE queue' = Append(queue, new)
  <2>1. queue \in Seq(S \cup {new})
    BY <1>3
  <2>2. queue' \in Seq(S \cup {new})
    BY <1>5, <2>1
  <2>3. \A i \in DOMAIN queue' : queue'[i] = new \/ (i \in DOMAIN queue /\ queue'[i] = queue[i])
    BY <1>3, <1>5
  <2>4. \A i \in DOMAIN queue' : Resolved(queue'[i])
    BY <1>1, <2>3 DEF ChainInv
  <2> QED
    BY <1>2, <2>2, <2>4 DEF ChainInv, Resolved, PiecesOf
<1> QED
  BY <1>2, <1>4, <1>5

\* What is learned is stored, and the store forgets nothing.
LEMMA StoreKeepsChain ==
    ASSUME ChainInv, Store
    PROVE  ChainInv'
<1>1. UNCHANGED <<sched, queue, job>>
  BY DEF Store, schedVars, workerVars
<1>2. CASE UNCHANGED storeVars
  BY <1>1, <1>2 DEF storeVars, ChainInv, Resolved, PiecesOf
<1>3. CASE \E ep, json : /\ data' = Stored(data, ep, json)
                         /\ learned' = learned \cup {<<ep.name, v>> : v \in Extracted(ep, json)}
  <2>1. PICK ep, json : /\ data' = Stored(data, ep, json)
                        /\ learned' = learned \cup {<<ep.name, v>> : v \in Extracted(ep, json)}
    BY <1>3
  <2>2. DOMAIN data' = DOMAIN data \cup {<<ep.name, v>> : v \in Extracted(ep, json)}
    BY <2>1 DEF Stored
  <2>3. learned' \subseteq DOMAIN data'
    BY <2>1, <2>2 DEF ChainInv
  <2> QED
    BY <1>1, <2>3 DEF ChainInv, Resolved, PiecesOf
<1> QED
  BY <1>2, <1>3 DEF Store

\* A worker takes the first job of the queue, or drops its own.
LEMMA WorkerKeepsChain ==
    ASSUME ChainInv, NEW w \in Workers, Worker(w)
    PROVE  ChainInv'
<1>1. UNCHANGED <<learned, data, sched>>
  BY DEF Worker, TakeJob, Send, GetHeader, FailRequest, ReadBody, Report, storeVars, schedVars
<1>2. CASE TakeJob(w)
  <2>1. PICK S : queue \in Seq(S)
    BY DEF ChainInv
  <2>2. /\ queue # <<>> /\ queue' = Tail(queue)
        /\ job' = [job EXCEPT ![w] = Head(queue)]
    BY <1>2 DEF TakeJob
  <2>3. queue' \in Seq(S) /\ Head(queue) = queue[1] /\ 1 \in DOMAIN queue
    BY <2>1, <2>2
  <2>4. \A i \in DOMAIN queue' : i + 1 \in DOMAIN queue /\ queue'[i] = queue[i + 1]
    BY <2>1, <2>2
  <2>5. \A i \in DOMAIN queue' : Resolved(queue'[i])
    BY <2>4 DEF ChainInv
  <2>6. DOMAIN job' = Workers /\ \A v \in Workers : Resolved(job'[v])
    BY <2>2, <2>3 DEF ChainInv
  <2> QED
    BY <1>1, <2>3, <2>5, <2>6 DEF ChainInv, Resolved, PiecesOf
<1>3. CASE Send(w) \/ GetHeader(w)
  <2>1. UNCHANGED chainVars
    BY <1>1, <1>3 DEF Send, GetHeader, chainVars
  <2> QED
    BY <2>1 DEF chainVars, ChainInv, Resolved, PiecesOf
<1>4. CASE FailRequest(w) \/ ReadBody(w)
  <2>1. queue' = queue /\ job' = [job EXCEPT ![w] = NoJob]
    BY <1>4 DEF FailRequest, ReadBody, Report
  <2>2. DOMAIN job' = Workers /\ \A v \in Workers : Resolved(job'[v])
    BY <2>1, NoJobIsResolved DEF ChainInv
  <2> QED
    BY <1>1, <2>1, <2>2 DEF ChainInv, Resolved, PiecesOf
<1> QED
  BY <1>2, <1>3, <1>4 DEF Worker

\* The inductive invariant of the variables holds in every reachable state.
THEOREM ChainInvariant == Spec => []ChainInv
<1>1. Init => ChainInv
  <2> SUFFICES ASSUME Init PROVE ChainInv
    OBVIOUS
  <2>1. queue \in Seq({}) /\ DOMAIN queue = {}
    BY DEF Init
  <2>2. DOMAIN job = Workers /\ \A w \in Workers : job[w] = NoJob
    BY DEF Init
  <2> QED
    BY <2>1, <2>2, NoJobIsResolved DEF Init, ChainInv
<1>2. ChainInv /\ [Next]_vars => ChainInv'
  <2> SUFFICES ASSUME ChainInv, [Next]_vars PROVE ChainInv'
    OBVIOUS
  <2>1. CASE UNCHANGED chainVars
    BY <2>1 DEF chainVars, ChainInv, Resolved, PiecesOf
  <2>2. CASE LoadScenario \/ Count \/ UNCHANGED vars
    <3>1. UNCHANGED chainVars
      BY <2>2 DEF LoadScenario, Count, vars, chainVars, schedVars, workerVars, storeVars
    <3> QED
      BY <2>1, <3>1
  <2>3. CASE Pick
    <3>1. sched'.known = data /\ sched'.sofar = learned
      BY <2>3 DEF Pick
    <3>2. UNCHANGED <<learned, data, queue, job>>
      BY <2>3 DEF Pick, workerVars, storeVars
    <3> QED
      BY <3>1, <3>2 DEF ChainInv, Resolved, PiecesOf
  <2> QED
    BY <2>2, <2>3, BuildKeepsChain, StoreKeepsChain, WorkerKeepsChain DEF Next
<1> QED
  BY <1>1, <1>2, PTL DEF Spec

(***************************************************************************)
(* For any scenario and server: no request is sent with a variable left in *)
(* its URL or body that was known when the request was built, or ever      *)
(* before.                                                                 *)
(***************************************************************************)
THEOREM KnownIsResolved == Spec => []ResolvedForGood
<1>1. ChainInv => ResolvedForGood
  BY DEF ChainInv, ResolvedForGood, Resolved, Jobs
<1> QED
  BY <1>1, ChainInvariant, PTL

-----------------------------------------------------------------------------
\* A non-empty set of natural numbers has a least element: the finite sets of
\* numbers are well founded under inclusion, and 0..n lies below 0..m when n < m.
LEMMA Least ==
    ASSUME NEW S \in SUBSET Nat, S # {}
    PROVE  \E m \in S : \A n \in S : m <= n
<1> DEFINE Below == {0..n : n \in S}
<1>1. Below \subseteq FiniteSubsetsOf(Nat) /\ Below # {}
  <2>1. ASSUME NEW n \in S PROVE IsFiniteSet(0..n) /\ 0..n \subseteq Nat
    BY FS_Interval
  <2> QED
    BY <2>1 DEF FiniteSubsetsOf
<1>2. IsWellFoundedOn(StrictSubsetOrdering(Nat), FiniteSubsetsOf(Nat))
  BY FS_StrictSubsetOrderingWellFounded
<1>3. PICK x \in Below : \A y \in Below : <<y, x>> \notin StrictSubsetOrdering(Nat)
  <2> HIDE DEF Below
  <2> QED
    BY <1>1, <1>2, WFMin
<1>4. PICK m \in S : x = 0..m
  OBVIOUS
<1>5. ASSUME NEW n \in S, n < m PROVE FALSE
  <2>1. 0..n \in Below /\ 0..n \subseteq 0..m /\ 0..n # 0..m /\ 0..m \subseteq Nat
    BY <1>5
  <2> QED
    BY <1>3, <1>4, <2>1 DEF StrictSubsetOrdering
<1> QED
  BY <1>5

\* Induction, over a set instead of a predicate.
LEMMA Induction ==
    ASSUME NEW S, 0 \in S, \A n \in Nat : n \in S => n + 1 \in S
    PROVE  Nat \subseteq S
<1> SUFFICES ASSUME Nat \ S # {} PROVE FALSE
  OBVIOUS
<1>1. PICK m \in Nat \ S : \A n \in Nat \ S : m <= n
  BY Least
<1>2. m - 1 \in Nat /\ m - 1 \in S
  BY <1>1
<1> QED
  BY <1>1, <1>2

-----------------------------------------------------------------------------
(***************************************************************************)
(* The choice of an endpoint.  The cumulative weights exist (they are a    *)
(* recursive function), grow from endpoint to endpoint, and so cut the     *)
(* draws into intervals, one for each endpoint.                            *)
(***************************************************************************)
\* The endpoints of a scenario that was accepted.
Weighted(eps) ==
    /\ IsSequence(eps) /\ eps # <<>>
    /\ \A i \in DOMAIN eps : eps[i].weight \in Nat \ {0}

IsSum(c, eps, n) ==
    c = [i \in 0..n |-> IF i = 0 THEN 0 ELSE c[i - 1] + eps[i].weight]

LEMMA SumExists ==
    ASSUME NEW eps, NEW n \in Nat
    PROVE  \E c : IsSum(c, eps, n)
<1> DEFINE Good == {m \in Nat : \E c : IsSum(c, eps, m)}
<1>1. 0 \in Good
  <2>1. IsSum([i \in 0..0 |-> 0], eps, 0)
    BY DEF IsSum
  <2> QED
    BY <2>1
<1>2. ASSUME NEW m \in Nat, m \in Good PROVE m + 1 \in Good
  <2>1. PICK c : IsSum(c, eps, m)
    BY <1>2
  <2> DEFINE d == [i \in 0..(m + 1) |-> IF i = m + 1 THEN c[m] + eps[m + 1].weight ELSE c[i]]
  <2>2. \A i \in 0..m : c[i] = IF i = 0 THEN 0 ELSE c[i - 1] + eps[i].weight
    BY <2>1 DEF IsSum
  <2>3. ASSUME NEW i \in 0..(m + 1)
        PROVE  d[i] = IF i = 0 THEN 0 ELSE d[i - 1] + eps[i].weight
    <3>1. CASE i = m + 1
      BY <3>1
    <3>2. CASE i \in 0..m
      BY <2>2, <3>2
    <3> QED
      BY <3>1, <3>2
  <2>4. IsSum(d, eps, m + 1)
    BY <2>3 DEF IsSum
  <2> QED
    BY <2>4
<1>3. Nat \subseteq Good
  <2> HIDE DEF Good
  <2> QED
    BY <1>1, <1>2, Induction
<1> QED
  BY <1>3

LEMMA CumulativeIsSum ==
    ASSUME NEW eps, Weighted(eps)
    PROVE  /\ Len(eps) \in Nat \ {0} /\ DOMAIN eps = 1..Len(eps)
           /\ \A i \in 1..Len(eps) : eps[i].weight \in Nat \ {0}
           /\ Cumulative(eps)[0] = 0
           /\ \A i \in 1..Len(eps) :
                 Cumulative(eps)[i] = Cumulative(eps)[i - 1] + eps[i].weight
<1>1. PICK S : eps \in Seq(S)
  BY DEF Weighted, IsSequence
<1>2. Len(eps) \in Nat \ {0} /\ DOMAIN eps = 1..Len(eps)
  BY <1>1 DEF Weighted
<1>3. Cumulative(eps) = CHOOSE c : IsSum(c, eps, Len(eps))
  BY DEF Cumulative, IsSum
<1>4. IsSum(Cumulative(eps), eps, Len(eps))
  BY <1>2, <1>3, SumExists
<1>5. PICK c : c = Cumulative(eps)
  OBVIOUS
<1>6. c = [i \in 0..Len(eps) |-> IF i = 0 THEN 0 ELSE c[i - 1] + eps[i].weight]
  BY <1>4, <1>5 DEF IsSum
<1>7. c[0] = 0
  BY <1>2, <1>6
<1>8. \A i \in 1..Len(eps) : c[i] = c[i - 1] + eps[i].weight
  BY <1>2, <1>6
<1> QED
  BY <1>2, <1>5, <1>7, <1>8 DEF Weighted

\* In steps of at least one.
LEMMA CumulativeGrows ==
    ASSUME NEW eps, Weighted(eps)
    PROVE  \A i \in 0..Len(eps) : /\ Cumulative(eps)[i] \in Nat
                                 /\ \A j \in 0..i : Cumulative(eps)[j] <= Cumulative(eps)[i]
<1> DEFINE c == Cumulative(eps)
           Good == {i \in Nat : i <= Len(eps) =>
                       c[i] \in Nat /\ \A j \in 0..i : c[j] \in Nat /\ c[j] <= c[i]}
<1>1. /\ Len(eps) \in Nat
      /\ \A i \in 1..Len(eps) : eps[i].weight \in Nat
      /\ c[0] = 0
      /\ \A i \in 1..Len(eps) : c[i] = c[i - 1] + eps[i].weight
  BY CumulativeIsSum
<1> HIDE DEF c
<1>2. 0 \in Good
  BY <1>1
<1>3. ASSUME NEW i \in Nat, i \in Good PROVE i + 1 \in Good
  <2> SUFFICES ASSUME i + 1 <= Len(eps)
               PROVE  c[i + 1] \in Nat /\ \A j \in 0..(i + 1) : c[j] \in Nat /\ c[j] <= c[i + 1]
    OBVIOUS
  <2>1. c[i] \in Nat /\ \A j \in 0..i : c[j] \in Nat /\ c[j] <= c[i]
    BY <1>1, <1>3
  <2>2. c[i + 1] = c[i] + eps[i + 1].weight /\ eps[i + 1].weight \in Nat
    BY <1>1
  <2>3. c[i + 1] \in Nat /\ c[i] <= c[i + 1]
    BY <2>1, <2>2
  <2>4. ASSUME NEW j \in 0..(i + 1) PROVE c[j] \in Nat /\ c[j] <= c[i + 1]
    <3>1. CASE j = i + 1
      BY <2>3, <3>1
    <3>2. CASE j \in 0..i
      BY <2>1, <2>3, <3>2
    <3> QED
      BY <3>1, <3>2
  <2> QED
    BY <2>3, <2>4
<1>4. Nat \subseteq Good
  <2> HIDE DEF Good
  <2> QED
    BY <1>2, <1>3, Induction
<1> QED
  BY <1>1, <1>4 DEF c

\* Draw r chooses the endpoint whose interval it falls into.
LEMMA PickIsInterval ==
    ASSUME NEW eps, Weighted(eps), NEW r \in Draws(eps)
    PROVE  /\ PickEndpoint(eps, r) \in DOMAIN eps
           /\ Cumulative(eps)[PickEndpoint(eps, r) - 1] <= r
           /\ r < Cumulative(eps)[PickEndpoint(eps, r)]
<1> DEFINE c == Cumulative(eps)
           n == Len(eps)
           over == {i \in DOMAIN eps : r < c[i]} \cup {n}
<1>1. /\ n \in Nat \ {0} /\ DOMAIN eps = 1..n
      /\ c[0] = 0 /\ \A i \in 0..n : c[i] \in Nat
  BY CumulativeIsSum, CumulativeGrows
<1>2. r \in Nat /\ r < c[n]
  BY <1>1 DEF Draws
<1>3. CASE n = 1
  BY <1>1, <1>2, <1>3 DEF PickEndpoint
<1>4. CASE n # 1
  <2>1. PickEndpoint(eps, r) = CHOOSE i \in over : \A j \in over : i <= j
    BY <1>4 DEF PickEndpoint, First
  <2>2. over \in SUBSET Nat /\ over # {} /\ over \subseteq 1..n
    BY <1>1
  <2>3. \A i \in over : r < c[i]
    BY <1>2
  <2>4. PickEndpoint(eps, r) \in over /\ \A j \in over : PickEndpoint(eps, r) <= j
    <3> HIDE DEF over
    <3>1. \E i \in over : \A j \in over : i <= j
      BY <2>2, Least
    <3> QED
      BY <2>1, <3>1
  <2>5. PICK k : k = PickEndpoint(eps, r)
    OBVIOUS
  <2>6. k \in 1..n /\ r < c[k]
    BY <2>2, <2>3, <2>4, <2>5
  <2>7. c[k - 1] <= r
    <3>1. CASE k = 1
      BY <1>1, <1>2, <3>1
    <3>2. CASE k # 1
      <4>1. k - 1 \in 1..n /\ k - 1 < k
        BY <1>1, <2>6, <3>2
      <4>2. k - 1 \notin over
        <5> HIDE DEF over
        <5>1. k - 1 \in over => k <= k - 1
          BY <2>4, <2>5
        <5> QED
          BY <2>6, <4>1, <5>1
      <4>3. ~(r < c[k - 1]) /\ c[k - 1] \in Nat
        BY <1>1, <4>1, <4>2
      <4> QED
        BY <1>2, <4>3
    <3> QED
      BY <3>1, <3>2
  <2> QED
    BY <1>1, <2>5, <2>6, <2>7
<1> QED
  BY <1>3, <1>4

LEMMA DrawsOfEndpoint ==
    ASSUME NEW eps, Weighted(eps), NEW i \in DOMAIN eps
    PROVE  {r \in Draws(eps) : PickEndpoint(eps, r) = i}
               = Cumulative(eps)[i - 1]..(Cumulative(eps)[i] - 1)
<1> DEFINE c == Cumulative(eps)
           n == Len(eps)
<1>1. /\ n \in Nat \ {0} /\ DOMAIN eps = 1..n /\ i \in 1..n
      /\ \A j \in 0..n : c[j] \in Nat /\ \A k \in 0..j : c[k] <= c[j]
  BY CumulativeIsSum, CumulativeGrows
<1>2. Draws(eps) = 0..(c[n] - 1)
  BY DEF Draws
<1>3. \A r \in Draws(eps) : /\ PickEndpoint(eps, r) \in 1..n
                            /\ c[PickEndpoint(eps, r) - 1] <= r
                            /\ r < c[PickEndpoint(eps, r)]
  BY <1>1, PickIsInterval
<1> HIDE DEF c, n
<1>4. ASSUME NEW r \in Draws(eps), PickEndpoint(eps, r) = i PROVE r \in c[i - 1]..(c[i] - 1)
  <2>1. c[i - 1] \in Nat /\ c[i] \in Nat /\ c[n] \in Nat
    BY <1>1
  <2> QED
    BY <1>2, <1>3, <1>4, <2>1
<1>5. ASSUME NEW r \in c[i - 1]..(c[i] - 1) PROVE r \in Draws(eps) /\ PickEndpoint(eps, r) = i
  <2>1. /\ i - 1 \in 0..n /\ i \in 0..n /\ n \in 0..n /\ c[i - 1] \in Nat /\ c[i] \in Nat /\ c[n] \in Nat
        /\ c[i] <= c[n]
    BY <1>1
  <2>2. r \in Draws(eps) /\ r \in Nat /\ c[i - 1] <= r /\ r < c[i]
    BY <1>2, <2>1
  <2>3. PICK k : k = PickEndpoint(eps, r)
    OBVIOUS
  <2>4. k \in 1..n /\ c[k - 1] <= r /\ r < c[k]
    BY <1>3, <2>2, <2>3
  <2>5. ~(k < i)
    <3> SUFFICES ASSUME k < i PROVE FALSE
      OBVIOUS
    <3>1. k \in 0..(i - 1) /\ c[k] \in Nat
      BY <1>1, <2>4
    <3>2. c[k] <= c[i - 1]
      BY <1>1, <2>1, <3>1
    <3> QED
      BY <2>1, <2>2, <2>4, <3>1, <3>2
  <2>6. ~(i < k)
    <3> SUFFICES ASSUME i < k PROVE FALSE
      OBVIOUS
    <3>1. i \in 0..(k - 1) /\ k - 1 \in 0..n /\ c[k - 1] \in Nat
      BY <1>1, <2>4
    <3>2. c[i] <= c[k - 1]
      BY <1>1, <3>1
    <3> QED
      BY <2>1, <2>2, <2>4, <3>1, <3>2
  <2>7. k = i
    BY <1>1, <2>4, <2>5, <2>6
  <2> QED
    BY <2>2, <2>3, <2>7
<1>6. {r \in Draws(eps) : PickEndpoint(eps, r) = i} = c[i - 1]..(c[i] - 1)
  BY <1>4, <1>5
<1> QED
  BY <1>6 DEF c

LEMMA WeightsMatched ==
    ASSUME NEW eps, Weighted(eps), NEW i \in DOMAIN eps
    PROVE  LET drawn == {r \in Draws(eps) : PickEndpoint(eps, r) = i}
           IN drawn # {} /\ Cardinality(drawn) = eps[i].weight
<1>1. PICK c : c = Cumulative(eps)
  OBVIOUS
<1>2. /\ i \in 1..Len(eps) /\ eps[i].weight \in Nat \ {0} /\ c[i] = c[i - 1] + eps[i].weight
      /\ c[i] \in Nat /\ c[i - 1] \in Nat
  BY <1>1, CumulativeIsSum, CumulativeGrows
<1>3. c[i - 1] \in c[i - 1]..(c[i] - 1)
  BY <1>2
<1>4. Cardinality(c[i - 1]..(c[i] - 1)) = eps[i].weight
  <2>1. c[i - 1] \in Int /\ c[i] - 1 \in Int /\ ~(c[i - 1] > c[i] - 1)
        /\ (c[i] - 1) - c[i - 1] + 1 = eps[i].weight
    BY <1>2
  <2>2. Cardinality(c[i - 1]..(c[i] - 1))
            = IF c[i - 1] > c[i] - 1 THEN 0 ELSE (c[i] - 1) - c[i - 1] + 1
    BY <2>1, FS_Interval
  <2> QED
    BY <2>1, <2>2
<1> QED
  BY <1>1, <1>3, <1>4, DrawsOfEndpoint

\* What Validate fills in is not what the run looks at.
LEMMA CompletedKeeps ==
    ASSUME NEW ep, EndpointFields \subseteq DOMAIN ep
    PROVE  /\ DOMAIN Completed(ep) = DOMAIN ep
           /\ Completed(ep).name = ep.name /\ Completed(ep).weight = ep.weight
           /\ Completed(ep).expectedStatus = ep.expectedStatus
           /\ Completed(ep).assertions = ep.assertions
           /\ Completed(ep).extract = ep.extract
           /\ Completed(ep).url = ep.url /\ Completed(ep).body = ep.body
BY DEF Completed, EndpointFields

\* The first endpoint of a name exists and has that name.
LEMMA NamedFacts ==
    ASSUME NEW eps, IsSequence(eps), NEW i \in DOMAIN eps
    PROVE  \E k \in DOMAIN eps : /\ First({j \in DOMAIN eps : eps[j].name = eps[i].name}) = k
                                /\ Named(eps, eps[i].name) = eps[k]
                                /\ eps[k].name = eps[i].name
<1> DEFINE same == {j \in DOMAIN eps : eps[j].name = eps[i].name}
<1>1. DOMAIN eps \subseteq Nat
  BY DEF IsSequence
<1>2. same \in SUBSET Nat /\ same # {}
  BY <1>1
<1>3. First(same) \in same
  <2> HIDE DEF same
  <2>1. \E m \in same : \A j \in same : m <= j
    BY <1>2, Least
  <2> QED
    BY <2>1 DEF First
<1> QED
  BY <1>3 DEF Named

\* The scenario is a file that was parsed, and one that was accepted once it runs.
Files ==
    /\ phase \in {"load", "run", "rejected"}
    /\ IsScenario(scenario)
    /\ \A i \in DOMAIN scenario.endpoints, n \in 1..MaxJobs :
          \A resp \in Answers(scenario.endpoints[i].name, n) :
             /\ IsResponse(resp)
             /\ \A json \in Documents(resp) :
                   IsNumbered(Named(scenario.endpoints, scenario.endpoints[i].name), json, n)
    /\ phase = "run" => Weighted(scenario.endpoints)

LEMMA LoadKeepsFiles ==
    ASSUME Files, LoadScenario
    PROVE  Files'
<1>1. CASE scenario' = scenario /\ phase' = "rejected"
  BY <1>1 DEF Files
<1>2. CASE Valid(scenario) /\ phase' = "run"
           /\ scenario' = [scenario EXCEPT !.endpoints = [i \in DOMAIN @ |-> Completed(@[i])]]
  <2>1. PICK eps : eps = scenario.endpoints
    OBVIOUS
  <2>2. PICK new : new = [i \in DOMAIN eps |-> Completed(eps[i])]
    OBVIOUS
  <2>3. DOMAIN scenario' = DOMAIN scenario /\ scenario'.endpoints = new
    BY <1>2, <2>1, <2>2 DEF Files, IsScenario
  <2>4. PICK S : eps \in Seq(S)
    BY <2>1 DEF Files, IsScenario, IsSequence
  <2>5. DOMAIN new = DOMAIN eps /\ DOMAIN eps = 1..Len(eps) /\ Len(eps) \in Nat
    BY <2>2, <2>4
  <2>6. \A i \in DOMAIN eps :
           /\ EndpointFields \subseteq DOMAIN eps[i] /\ eps[i].weight \in Int
           /\ \A j \in DOMAIN eps[i].url : eps[i].url[j][1] \in {"lit", "var"}
           /\ \A j \in DOMAIN eps[i].body : eps[i].body[j][1] \in {"lit", "var"}
           /\ \A j \in DOMAIN eps[i].assertions :
                 /\ IsSequence(eps[i].assertions[j].value)
                 /\ IsSequence(eps[i].assertions[j].contains)
    BY <2>1 DEF Files, IsScenario
  <2>7. \A i \in DOMAIN eps :
           /\ DOMAIN new[i] = DOMAIN eps[i] /\ new[i].name = eps[i].name
           /\ new[i].weight = eps[i].weight /\ new[i].assertions = eps[i].assertions
           /\ new[i].extract = eps[i].extract
           /\ new[i].url = eps[i].url /\ new[i].body = eps[i].body
    BY <2>2, <2>6, CompletedKeeps
  <2>8. IsSequence(new)
    <3>1. new \in [1..Len(eps) -> {new[i] : i \in DOMAIN new}]
      BY <2>2, <2>5
    <3> QED
      BY <2>5, <3>1 DEF IsSequence
  <2>9. IsScenario(scenario')
    <3>1. {"name", "stages", "endpoints"} \subseteq DOMAIN scenario'
      BY <2>3 DEF Files, IsScenario
    <3>2. ASSUME NEW i \in DOMAIN new
          PROVE  /\ EndpointFields \subseteq DOMAIN new[i] /\ new[i].weight \in Int
                 /\ \A j \in DOMAIN new[i].url : new[i].url[j][1] \in {"lit", "var"}
                 /\ \A j \in DOMAIN new[i].body : new[i].body[j][1] \in {"lit", "var"}
                 /\ \A j \in DOMAIN new[i].assertions :
                       /\ IsSequence(new[i].assertions[j].value)
                       /\ IsSequence(new[i].assertions[j].contains)
      BY <2>5, <2>6, <2>7
    <3> QED
      BY <2>3, <2>8, <3>1, <3>2 DEF IsScenario
  <2>10. ASSUME NEW i \in DOMAIN new, NEW n \in 1..MaxJobs, NEW resp \in Answers(new[i].name, n)
         PROVE  /\ IsResponse(resp)
                /\ \A json \in Documents(resp) : IsNumbered(Named(new, new[i].name), json, n)
    <3>1. i \in DOMAIN eps /\ new[i].name = eps[i].name /\ IsSequence(eps)
      BY <2>1, <2>5, <2>7 DEF Files, IsScenario
    <3>2. IsResponse(resp) /\ \A json \in Documents(resp) : IsNumbered(Named(eps, eps[i].name), json, n)
      BY <2>1, <3>1, <2>10 DEF Files
    <3>3. {j \in DOMAIN new : new[j].name = new[i].name} = {j \in DOMAIN eps : eps[j].name = eps[i].name}
      BY <2>5, <2>7, <3>1
    <3>4. PICK k \in DOMAIN eps : /\ First({j \in DOMAIN eps : eps[j].name = eps[i].name}) = k
                                 /\ Named(eps, eps[i].name) = eps[k]
      BY <3>1, NamedFacts
    <3>5. Named(new, new[i].name) = new[k] /\ new[k].extract = eps[k].extract
      BY <2>7, <3>3, <3>4 DEF Named
    <3> QED
      BY <3>2, <3>4, <3>5 DEF IsNumbered, Extracted
  <2>11. Weighted(new)
    <3>1. eps # <<>> /\ \A i \in DOMAIN eps : eps[i].weight > 0
      BY <1>2, <2>1 DEF Valid, Acceptable
    <3>2. new # <<>>
      <4>1. Len(eps) # 0
        BY <2>4, <3>1
      <4>2. 1 \in DOMAIN new
        BY <2>5, <4>1
      <4> QED
        BY <4>2
    <3>3. \A i \in DOMAIN new : new[i].weight \in Nat \ {0}
      BY <2>5, <2>6, <2>7, <3>1
    <3> QED
      BY <2>8, <3>2, <3>3 DEF Weighted
  <2> QED
    BY <1>2, <2>3, <2>9, <2>10, <2>11 DEF Files
<1> QED
  BY <1>1, <1>2 DEF LoadScenario

LEMMA FilesKept ==
    ASSUME Files, [Next]_vars
    PROVE  Files'
<1>1. CASE UNCHANGED <<scenario, phase>>
  BY <1>1 DEF Files
<1>2. CASE LoadScenario
  BY <1>2, LoadKeepsFiles
<1>3. CASE Pick \/ Build \/ Count \/ Store \/ UNCHANGED vars
  BY <1>1, <1>3 DEF Pick, Build, Submit, Count, Store, vars, schedVars
<1>4. ASSUME NEW w \in Workers, Worker(w) PROVE Files'
  BY <1>1, <1>4 DEF Worker, TakeJob, Send, GetHeader, FailRequest, ReadBody, Report, schedVars
<1> QED
  BY <1>2, <1>3, <1>4 DEF Next

THEOREM FilesInvariant == Spec => []Files
<1>1. Init => Files
  BY RequestFlowAssumption DEF Init, Files
<1> QED
  BY <1>1, FilesKept, PTL DEF Spec

(***************************************************************************)
(* For every scenario file that Validate accepts, whatever its weights and *)
(* the number of its endpoints: PickEndpoint gives each endpoint as many   *)
(* draws as its weight, and Intn always has something to draw from.        *)
(***************************************************************************)
THEOREM WeightsRespected == Spec => []PickMatchesWeights
<1>1. Files => PickMatchesWeights
  BY WeightsMatched DEF Files, PickMatchesWeights
<1> QED
  BY <1>1, FilesInvariant, PTL

-----------------------------------------------------------------------------
(***************************************************************************)
(* Requests on their way.  Nothing moves before the scenario has been      *)
(* accepted; from then on each request built is in the queue, with one     *)
(* worker, or a result, and was sent at most once.                         *)
(***************************************************************************)
Busy == {w \in Workers : pc[w] # "idle"}
ToSend == {w \in Workers : pc[w] = "send"}

Endpoints == DOMAIN scenario.endpoints

Flow ==
    /\ phase # "run" => sched.ep = 0 /\ queue = <<>> /\ results = <<>> /\ Busy = {}
    /\ sched.ep = 0 \/ (sched.ep \in Endpoints /\ built < MaxJobs)
    /\ built \in 0..MaxJobs
    /\ IsSequence(queue) /\ \A i \in DOMAIN queue : queue[i].ep \in Endpoints
    /\ DOMAIN job = Workers /\ \A w \in Busy : job[w].ep \in Endpoints
    /\ IsSequence(results)
    /\ Len(queue) + Cardinality(Busy) + Len(results) <= built
    /\ sent + Len(queue) + Cardinality(ToSend) <= built

LEMMA Sizes ==
    ASSUME NEW S \in SUBSET Workers
    PROVE  /\ Cardinality(S) \in Nat
           /\ \A w \in Workers :
                 /\ Cardinality(S \cup {w}) = IF w \in S THEN Cardinality(S) ELSE Cardinality(S) + 1
                 /\ Cardinality(S \ {w}) = IF w \in S THEN Cardinality(S) - 1 ELSE Cardinality(S)
<1>1. IsFiniteSet(S)
  BY RequestFlowAssumption, FS_Subset
<1>2. ASSUME NEW w \in Workers
      PROVE  /\ Cardinality(S \cup {w}) = IF w \in S THEN Cardinality(S) ELSE Cardinality(S) + 1
             /\ Cardinality(S \ {w}) = IF w \in S THEN Cardinality(S) - 1 ELSE Cardinality(S)
  BY <1>1, FS_AddElement, FS_RemoveElement
<1> QED
  BY <1>1, <1>2, FS_CardinalityType

LEMMA FlowFacts ==
    ASSUME Flow, SessionInv
    PROVE  /\ Len(queue) \in Nat /\ DOMAIN queue = 1..Len(queue)
           /\ Len(results) \in Nat /\ DOMAIN results = 1..Len(results)
           /\ Cardinality(Busy) \in Nat /\ Cardinality(ToSend) \in Nat
           /\ sent \in Nat /\ built \in Nat /\ MaxJobs \in Nat
<1>1. Busy \in SUBSET Workers /\ ToSend \in SUBSET Workers
  BY DEF Busy, ToSend
<1>2. Cardinality(Busy) \in Nat /\ Cardinality(ToSend) \in Nat
  BY <1>1, Sizes
<1> QED
  BY <1>2, RequestFlowAssumption, LenProperties DEF Flow, IsSequence, SessionInv

LEMMA Appended ==
    ASSUME NEW q, IsSequence(q), NEW x
    PROVE  /\ IsSequence(Append(q, x)) /\ Len(Append(q, x)) = Len(q) + 1
           /\ \A i \in DOMAIN Append(q, x) :
                 (Append(q, x)[i] = x) \/ (i \in DOMAIN q /\ Append(q, x)[i] = q[i])
<1>1. PICK S : q \in Seq(S)
  BY DEF IsSequence
<1>2. q \in Seq(S \cup {x})
  BY <1>1
<1>3. PICK r : r = Append(q, x)
  OBVIOUS
<1>4. /\ r \in Seq(S \cup {x}) /\ Len(r) = Len(q) + 1
      /\ \A i \in DOMAIN r : r[i] = x \/ (i \in DOMAIN q /\ r[i] = q[i])
  BY <1>1, <1>2, <1>3
<1>5. r \in [1..Len(r) -> {r[i] : i \in DOMAIN r}] /\ Len(r) \in Nat
  BY <1>4
<1>6. IsSequence(r)
  BY <1>5 DEF IsSequence
<1> QED
  BY <1>3, <1>4, <1>6

LEMMA Taken ==
    ASSUME NEW q, IsSequence(q), q # <<>>
    PROVE  /\ IsSequence(Tail(q)) /\ Len(Tail(q)) = Len(q) - 1
           /\ 1 \in DOMAIN q /\ Head(q) = q[1]
           /\ \A i \in DOMAIN Tail(q) : i + 1 \in DOMAIN q /\ Tail(q)[i] = q[i + 1]
<1>1. PICK S : q \in Seq(S)
  BY DEF IsSequence
<1>2. PICK r : r = Tail(q)
  OBVIOUS
<1>3. /\ r \in Seq(S) /\ Len(r) = Len(q) - 1 /\ 1 \in DOMAIN q /\ Head(q) = q[1]
      /\ \A i \in DOMAIN r : i + 1 \in DOMAIN q /\ r[i] = q[i + 1]
  BY <1>1, <1>2
<1>4. r \in [1..Len(r) -> {r[i] : i \in DOMAIN r}] /\ Len(r) \in Nat
  BY <1>3
<1>5. IsSequence(r)
  BY <1>4 DEF IsSequence
<1> QED
  BY <1>2, <1>3, <1>5

\* The scheduler.
LEMMA SchedulerKeepsFlow ==
    ASSUME Flow, SessionInv, Files, Pick \/ Build
    PROVE  Flow'
<1>1. CASE Pick
  <2>1. PICK r \in Draws(scenario.endpoints) :
            sched' = [ep |-> PickEndpoint(scenario.endpoints, r), known |-> data, sofar |-> learned]
    BY <1>1 DEF Pick
  <2>2. /\ phase = "run" /\ built < MaxJobs
        /\ UNCHANGED <<scenario, phase, built, queue, pc, job, sent, results>>
    BY <1>1 DEF Pick, workerVars
  <2>3. Weighted(scenario.endpoints)
    BY <2>2 DEF Files
  <2>4. sched'.ep \in Endpoints
    BY <2>1, <2>3, PickIsInterval DEF Endpoints
  <2> QED
    BY <2>2, <2>4 DEF Flow, Endpoints, Busy, ToSend
<1>2. CASE Build
  <2>1. /\ sched.ep # 0 /\ sched'.ep = 0 /\ built' = built + 1
        /\ UNCHANGED <<scenario, phase, pc, job, sent, results>>
    BY <1>2 DEF Build, Submit, workerVars
  <2>2. PICK x : /\ x.ep = sched.ep
                 /\ queue' = queue \/ queue' = Append(queue, x)
    <3>1. PICK url, body : Submit(url, body)
      BY <1>2 DEF Build
    <3>2. PICK x : x = [ep |-> sched.ep, url |-> url, body |-> body,
                       headers |-> scenario.endpoints[sched.ep].headers,
                       sofar |-> sched.sofar]
      OBVIOUS
    <3> QED
      BY <3>1, <3>2 DEF Submit
  <2>3. /\ IsSequence(queue') /\ \A i \in DOMAIN queue' : queue'[i].ep \in Endpoints
        /\ Len(queue') \in {Len(queue), Len(queue) + 1}
    <3>1. CASE queue' = queue
      BY <3>1 DEF Flow
    <3>2. CASE queue' = Append(queue, x)
      BY <2>1, <2>2, <3>2, Appended DEF Flow
    <3> QED
      BY <2>2, <3>1, <3>2
  <2>4. phase = "run" /\ built < MaxJobs
    BY <2>1 DEF Flow
  <2>5. built' \in 0..MaxJobs
    BY <2>1, <2>4, FlowFacts
  <2>6. Busy' = Busy /\ ToSend' = ToSend /\ Endpoints' = Endpoints
    BY <2>1 DEF Busy, ToSend, Endpoints
  <2>7. /\ Len(queue') + Cardinality(Busy) + Len(results) <= built'
        /\ sent + Len(queue') + Cardinality(ToSend) <= built'
    <3>1. PICK q, b, t, n : /\ q = Len(queue) /\ b = Cardinality(Busy)
                            /\ t = Cardinality(ToSend) /\ n = Len(results)
      OBVIOUS
    <3>2. /\ q \in Nat /\ b \in Nat /\ t \in Nat /\ n \in Nat /\ sent \in Nat /\ built \in Nat
          /\ q + b + n <= built /\ sent + q + t <= built
      BY <3>1, FlowFacts DEF Flow
    <3>3. Len(queue') \in {q, q + 1} /\ built' = built + 1
      BY <2>1, <2>3, <3>1
    <3>4. Len(queue') + b + n <= built' /\ sent + Len(queue') + t <= built'
      BY <3>2, <3>3
    <3> QED
      BY <3>1, <3>4
  <2> QED
    BY <2>1, <2>3, <2>4, <2>5, <2>6, <2>7 DEF Flow
<1> QED
  BY <1>1, <1>2

\* The workers.
LEMMA WorkerKeepsFlow ==
    ASSUME Flow, SessionInv, NEW w \in Workers, Worker(w)
    PROVE  Flow'
<1> DEFINE q == Len(queue)
           b == Cardinality(Busy)
           t == Cardinality(ToSend)
           n == Len(results)
<1>1. /\ UNCHANGED <<scenario, phase, sched, built>> /\ Endpoints' = Endpoints
      /\ pc \in [Workers -> {"idle", "send", "wait", "read"}]
  BY DEF Worker, TakeJob, Send, GetHeader, FailRequest, ReadBody, Report, schedVars,
         Endpoints, SessionInv
<1>2. /\ q \in Nat /\ b \in Nat /\ t \in Nat /\ n \in Nat /\ sent \in Nat /\ built \in Nat
      /\ q + b + n <= built /\ sent + q + t <= built
  BY FlowFacts DEF Flow
<1>3. /\ Cardinality(Busy \cup {w}) = IF w \in Busy THEN b ELSE b + 1
      /\ Cardinality(Busy \ {w}) = IF w \in Busy THEN b - 1 ELSE b
      /\ Cardinality(ToSend \cup {w}) = IF w \in ToSend THEN t ELSE t + 1
      /\ Cardinality(ToSend \ {w}) = IF w \in ToSend THEN t - 1 ELSE t
  <2>1. Busy \in SUBSET Workers /\ ToSend \in SUBSET Workers
    BY DEF Busy, ToSend
  <2> QED
    BY <2>1, Sizes
<1> HIDE DEF q, b, t, n
<1>4. CASE TakeJob(w)
  <2>1. /\ pc[w] = "idle" /\ pc' = [pc EXCEPT ![w] = "send"]
        /\ queue # <<>> /\ queue' = Tail(queue) /\ job' = [job EXCEPT ![w] = Head(queue)]
        /\ UNCHANGED <<sent, results>>
    BY <1>4 DEF TakeJob
  <2>2. phase = "run"
    BY <2>1 DEF Flow
  <2>3. /\ IsSequence(queue') /\ Len(queue') = q - 1
        /\ \A i \in DOMAIN queue' : queue'[i].ep \in Endpoints
        /\ Head(queue).ep \in Endpoints
    BY <2>1, Taken DEF Flow, q
  <2>4. Busy' = Busy \cup {w} /\ ToSend' = ToSend \cup {w} /\ w \notin Busy /\ w \notin ToSend
    BY <1>1, <2>1 DEF Busy, ToSend
  <2>5. DOMAIN job' = Workers /\ \A v \in Busy' : job'[v].ep \in Endpoints
    BY <2>1, <2>3, <2>4 DEF Flow, Busy
  <2>6. /\ Len(queue') + Cardinality(Busy') + Len(results') <= built
        /\ sent' + Len(queue') + Cardinality(ToSend') <= built
    BY <1>2, <1>3, <2>1, <2>3, <2>4 DEF n
  <2> QED
    BY <1>1, <2>1, <2>2, <2>3, <2>5, <2>6 DEF Flow
<1>5. CASE Send(w)
  <2>1. /\ pc[w] = "send" /\ pc' = [pc EXCEPT ![w] = "wait"] /\ sent' = sent + 1
        /\ UNCHANGED <<queue, job, results>>
    BY <1>5 DEF Send
  <2>2. Busy' = Busy /\ ToSend' = ToSend \ {w} /\ w \in ToSend
    BY <1>1, <2>1 DEF Busy, ToSend
  <2>3. sent' + Len(queue') + Cardinality(ToSend') <= built
    BY <1>2, <1>3, <2>1, <2>2 DEF q
  <2> QED
    BY <1>1, <2>1, <2>2, <2>3 DEF Flow
<1>6. CASE GetHeader(w)
  <2>1. /\ pc[w] = "wait" /\ pc' = [pc EXCEPT ![w] = "read"]
        /\ UNCHANGED <<queue, job, results, sent>>
    BY <1>6 DEF GetHeader
  <2>2. Busy' = Busy /\ ToSend' = ToSend
    BY <1>1, <2>1 DEF Busy, ToSend
  <2> QED
    BY <1>1, <2>1, <2>2 DEF Flow
<1>7. CASE FailRequest(w) \/ ReadBody(w)
  <2>1. /\ pc[w] # "idle" /\ pc' = [pc EXCEPT ![w] = "idle"]
        /\ job' = [job EXCEPT ![w] = NoJob] /\ UNCHANGED <<queue, sent>>
    BY <1>7 DEF FailRequest, ReadBody, Report
  <2>2. PICK r : results' = Append(results, r)
    BY <1>7 DEF FailRequest, ReadBody, Report
  <2>3. Busy' = Busy \ {w} /\ ToSend' = ToSend \ {w} /\ w \in Busy
    BY <1>1, <2>1 DEF Busy, ToSend
  <2>4. phase = "run"
    BY <2>3 DEF Flow
  <2>5. IsSequence(results') /\ Len(results') = n + 1
    BY <2>2, Appended DEF Flow, n
  <2>6. DOMAIN job' = Workers /\ \A v \in Busy' : job'[v].ep \in Endpoints
    BY <2>1, <2>3 DEF Flow, Busy
  <2>7. /\ Len(queue') + Cardinality(Busy') + Len(results') <= built
        /\ sent' + Len(queue') + Cardinality(ToSend') <= built
    BY <1>2, <1>3, <2>1, <2>3, <2>5 DEF q
  <2> QED
    BY <1>1, <2>1, <2>4, <2>5, <2>6, <2>7 DEF Flow
<1> QED
  BY <1>4, <1>5, <1>6, <1>7 DEF Worker

LEMMA FlowKept ==
    ASSUME Flow, SessionInv, Files, [Next]_vars
    PROVE  Flow'
<1>1. CASE LoadScenario
  <2>1. /\ phase = "load" /\ UNCHANGED <<sched, built, queue, pc, job, sent, results>>
    BY <1>1 DEF LoadScenario, workerVars
  <2>2. sched.ep = 0 /\ queue = <<>> /\ results = <<>> /\ Busy = {}
    BY <2>1 DEF Flow
  <2>3. Busy' = Busy /\ ToSend' = ToSend
    BY <2>1 DEF Busy, ToSend
  <2>4. DOMAIN queue = {}
    BY <2>2
  <2> QED
    BY <2>1, <2>2, <2>3, <2>4 DEF Flow
<1>2. CASE Pick \/ Build
  BY <1>2, SchedulerKeepsFlow
<1>3. CASE Count \/ Store
  <2>1. /\ results # <<>> /\ results' = Tail(results)
        /\ UNCHANGED <<scenario, phase, sched, built, queue, pc, job, sent>>
    BY <1>3 DEF Count, Store, schedVars, workerVars
  <2>2. IsSequence(results') /\ Len(results') = Len(results) - 1 /\ phase = "run"
    BY <2>1, Taken DEF Flow
  <2>3. Busy' = Busy /\ ToSend' = ToSend /\ Endpoints' = Endpoints
    BY <2>1 DEF Busy, ToSend, Endpoints
  <2>4. Len(queue) + Cardinality(Busy) + Len(results') <= built
    BY <2>2, FlowFacts DEF Flow
  <2> QED
    BY <2>1, <2>2, <2>3, <2>4 DEF Flow
<1>4. CASE UNCHANGED vars
  BY <1>4 DEF vars, schedVars, workerVars, Flow, Busy, ToSend, Endpoints
<1> QED
  BY <1>1, <1>2, <1>3, <1>4, WorkerKeepsFlow DEF Next

THEOREM FlowInvariant == Spec => []Flow
<1>1. Init => Flow
  <2> SUFFICES ASSUME Init PROVE Flow
    OBVIOUS
  <2>1. Busy = {} /\ ToSend = {} /\ Cardinality({}) = 0
    BY FS_EmptySet DEF Init, Busy, ToSend
  <2>2. queue = <<>> /\ results = <<>> /\ sent = 0 /\ built = 0 /\ sched.ep = 0
        /\ DOMAIN job = Workers
    BY DEF Init
  <2>3. IsSequence(<<>>) /\ Len(<<>>) = 0 /\ DOMAIN queue = {}
    BY <2>2 DEF IsSequence
  <2>4. 0 \in 0..MaxJobs
    BY RequestFlowAssumption
  <2> QED
    BY <2>1, <2>2, <2>3, <2>4 DEF Flow
<1> QED
  BY <1>1, FlowKept, SessionInvariant, FilesInvariant, PTL DEF Spec

-----------------------------------------------------------------------------
(***************************************************************************)
(* What a worker saw of a body.  Assertions that hold of the beginning of  *)
(* a response hold of the whole of it, those about JSON fields with the    *)
(* document that was seen.                                                 *)
(***************************************************************************)
LEMMA PrefixContains ==
    ASSUME NEW S, NEW text \in Seq(S), NEW needle, IsSequence(needle),
           NEW k \in 0..Len(text), Contains(SubSeq(text, 1, k), needle)
    PROVE  Contains(text, needle)
<1> DEFINE m == Len(needle)
           pre == SubSeq(text, 1, k)
<1>1. m \in Nat /\ Len(text) \in Nat /\ k \in Nat /\ k <= Len(text)
  BY DEF IsSequence
<1>2. \A i \in 1..Len(text) : text[i] \in S
  OBVIOUS
<1>3. pre \in Seq(S) /\ Len(pre) = k /\ \A i \in 1..k : pre[i] = text[i]
  <2>1. \A i \in 1..k : text[i] \in S
    BY <1>1, <1>2
  <2>2. /\ pre \in Seq(S) /\ Len(pre) = IF 1 <= k THEN k - 1 + 1 ELSE 0
        /\ \A i \in 1..(k - 1 + 1) : pre[i] = text[1 + i - 1]
    BY <1>1, <2>1, SubSeqProperties
  <2> QED
    BY <1>1, <2>2
<1> HIDE DEF pre
<1>4. PICK i \in 1..(k - m + 1) : SubSeq(pre, i, i + m - 1) = needle
  BY <1>3 DEF Contains, pre
<1> DEFINE j == i + m - 1
           one == SubSeq(pre, i, j)
           two == SubSeq(text, i, j)
<1>5. i \in Int /\ j \in Int /\ 1 <= i /\ j <= k
  BY <1>1, <1>4
<1>6. \A a \in i..j : pre[a] \in S /\ text[a] \in S /\ pre[a] = text[a]
  BY <1>1, <1>2, <1>3, <1>5
<1>7. /\ one \in Seq(S) /\ two \in Seq(S) /\ Len(one) = Len(two)
      /\ \A a \in 1..(j - i + 1) : one[a] = pre[i + a - 1] /\ two[a] = text[i + a - 1]
      /\ Len(one) = IF i <= j THEN j - i + 1 ELSE 0
  <2> HIDE DEF j
  <2> QED
    BY <1>5, <1>6, SubSeqProperties
<1>8. \A a \in 1..Len(one) : one[a] = two[a]
  <2> SUFFICES ASSUME NEW a \in 1..Len(one) PROVE one[a] = two[a]
    OBVIOUS
  <2> HIDE DEF j, one, two
  <2>1. a \in 1..(j - i + 1) /\ i + a - 1 \in i..j
    BY <1>5, <1>7
  <2> QED
    BY <1>6, <1>7, <2>1
<1>9. one = two
  <2> HIDE DEF one, two
  <2> QED
    BY <1>7, <1>8, SeqEqual
<1>10. i \in 1..(Len(text) - m + 1)
  BY <1>1, <1>4
<1> QED
  BY <1>4, <1>9, <1>10 DEF Contains

\* What was received: the status and the header, a beginning of the words, and one
\* of the documents or nothing that parses.
LEMMA ReceivedFacts ==
    ASSUME NEW resp, IsResponse(resp), NEW got \in Received(resp)
    PROVE  /\ got.status = resp.status /\ got.header = resp.header
           /\ \/ got.words = resp.words
              \/ \E k \in 0..Len(resp.words) : got.words = SubSeq(resp.words, 1, k)
           /\ got.json = NoJSON \/ got.json \in Documents(resp)
<1>1. CASE got = resp
  BY <1>1 DEF Documents
<1>2. CASE \E k \in 0..(Len(resp.words) - 1) :
              got = [resp EXCEPT !.words = SubSeq(resp.words, 1, k),
                                 !.json = IF k \in DOMAIN resp.begins THEN resp.begins[k]
                                          ELSE NoJSON]
  <2>1. PICK k \in 0..(Len(resp.words) - 1) :
            got = [resp EXCEPT !.words = SubSeq(resp.words, 1, k),
                               !.json = IF k \in DOMAIN resp.begins THEN resp.begins[k]
                                        ELSE NoJSON]
    BY <1>2
  <2>2. /\ got.status = resp.status /\ got.header = resp.header
        /\ got.words = SubSeq(resp.words, 1, k)
        /\ got.json = IF k \in DOMAIN resp.begins THEN resp.begins[k] ELSE NoJSON
    BY <2>1 DEF IsResponse
  <2>3. PICK S : resp.words \in Seq(S)
    BY DEF IsResponse, IsSequence
  <2>4. k \in 0..Len(resp.words)
    BY <2>3
  <2> QED
    BY <2>2, <2>4 DEF Documents
<1> QED
  BY <1>1, <1>2 DEF Received

LEMMA PrefixPasses ==
    ASSUME NEW assertions, NEW resp, IsResponse(resp), NEW got \in Received(resp),
           \A j \in DOMAIN assertions : /\ IsSequence(assertions[j].value)
                                        /\ IsSequence(assertions[j].contains),
           Passes(assertions, got)
    PROVE  \E json \in Documents(resp) : Passes(assertions, [resp EXCEPT !.json = json])
<1>1. PICK json \in Documents(resp) : got.json \in {NoJSON, json}
  <2>1. resp.json \in Documents(resp)
    BY DEF Documents
  <2> QED
    BY <2>1, ReceivedFacts
<1>2. PICK whole : whole = [resp EXCEPT !.json = json]
  OBVIOUS
<1>3. /\ whole.status = got.status /\ whole.header = got.header
      /\ whole.words = resp.words /\ whole.json = json
  BY <1>2, ReceivedFacts DEF IsResponse
<1>4. PICK S : resp.words \in Seq(S)
  BY DEF IsResponse, IsSequence
<1>5. ASSUME NEW a, CheckStatus(a, got) PROVE CheckStatus(a, whole)
  BY <1>3, <1>5 DEF CheckStatus
<1>6. ASSUME NEW a, IsSequence(a.value), IsSequence(a.contains), CheckBodyContains(a, got)
      PROVE  CheckBodyContains(a, whole)
  <2>1. PICK needle : needle = Either(a.value, a.contains, <<>>)
    OBVIOUS
  <2>2. IsSequence(needle)
    BY <1>6, <2>1 DEF Either
  <2>3. needle = <<>> \/ Contains(got.words, needle)
    BY <1>6, <2>1 DEF CheckBodyContains
  <2>4. needle = <<>> \/ Contains(resp.words, needle)
    <3>1. CASE got.words = resp.words
      BY <2>3, <3>1
    <3>2. CASE \E k \in 0..Len(resp.words) : got.words = SubSeq(resp.words, 1, k)
      BY <1>4, <2>2, <2>3, <3>2, PrefixContains
    <3> QED
      BY <3>1, <3>2, ReceivedFacts
  <2> QED
    BY <1>3, <2>1, <2>4 DEF CheckBodyContains
<1>7. ASSUME NEW a, CheckHeader(a, got) PROVE CheckHeader(a, whole)
  BY <1>3, <1>7 DEF CheckHeader
<1>8. ASSUME NEW a, CheckJSONField(a, got) PROVE CheckJSONField(a, whole)
  <2>1. got.json # NoJSON
    BY <1>8 DEF CheckJSONField
  <2>2. got.json = whole.json
    BY <1>1, <1>3, <2>1
  <2> QED
    BY <1>8, <2>2 DEF CheckJSONField
<1>9. Passes(assertions, whole)
  BY <1>5, <1>6, <1>7, <1>8 DEF Passes
<1> QED
  BY <1>2, <1>9

(***************************************************************************)
(* Results.  A result without error passed with what the worker received   *)
(* of a response, so it passes with the response or a document it begins   *)
(* with; the scenario it is checked against stays as it is while there are *)
(* results.                                                                *)
(***************************************************************************)
Checked ==
    /\ DOMAIN answer = Workers
    /\ \A w \in Workers : pc[w] = "read" => IsResponse(answer[w])
    /\ SuccessMeansPassed

LEMMA ReadBodyKeepsChecked ==
    ASSUME Checked, Flow, SessionInv, Files, NEW w \in Workers, ReadBody(w)
    PROVE  SuccessMeansPassed'
<1>1. PICK got \in Received(answer[w]) :
          Report(w, \/ Endpoint(w).expectedStatus \notin {"", got.status}
                    \/ ~Passes(Endpoint(w).assertions, got), got.words, got.json)
  BY DEF ReadBody
<1> DEFINE err == \/ Endpoint(w).expectedStatus \notin {"", got.status}
                  \/ ~Passes(Endpoint(w).assertions, got)
<1>2. PICK r : /\ results' = Append(results, r)
               /\ r = [ep |-> job[w].ep, err |-> err, words |-> got.words,
                        json |-> got.json, answer |-> answer[w]]
  BY <1>1 DEF Report
<1>3. /\ r.ep = job[w].ep /\ r.answer = answer[w] /\ (r.err <=> err)
  BY <1>2
<1>4. scenario' = scenario /\ pc[w] = "read"
  BY DEF ReadBody, Report, schedVars
<1>5. IsResponse(answer[w]) /\ job[w].ep \in Endpoints
  BY <1>4 DEF Checked, Flow, Busy
<1>6. ASSUME ~r.err
      PROVE  /\ scenario.endpoints[r.ep].expectedStatus \in {"", r.answer.status}
             /\ \E json \in Documents(r.answer) :
                   Passes(scenario.endpoints[r.ep].assertions, [r.answer EXCEPT !.json = json])
  <2>1. /\ scenario.endpoints[r.ep].expectedStatus \in {"", got.status}
        /\ Passes(scenario.endpoints[r.ep].assertions, got)
    BY <1>3, <1>6 DEF Endpoint
  <2>2. got.status = answer[w].status
    BY <1>5, ReceivedFacts
  <2>3. \A j \in DOMAIN scenario.endpoints[r.ep].assertions :
            /\ IsSequence(scenario.endpoints[r.ep].assertions[j].value)
            /\ IsSequence(scenario.endpoints[r.ep].assertions[j].contains)
    BY <1>3, <1>5 DEF Files, IsScenario, Endpoints
  <2>4. \E json \in Documents(answer[w]) :
            Passes(scenario.endpoints[r.ep].assertions, [answer[w] EXCEPT !.json = json])
    BY <1>5, <2>1, <2>3, PrefixPasses
  <2> QED
    BY <1>3, <2>1, <2>2, <2>4
<1>7. \A i \in DOMAIN results' : (results'[i] = r) \/ (i \in DOMAIN results /\ results'[i] = results[i])
  <2>1. results' = Append(results, r) /\ IsSequence(results)
    BY <1>2 DEF Flow
  <2> QED
    BY <2>1, Appended
<1> QED
  BY <1>4, <1>6, <1>7 DEF Checked, SuccessMeansPassed

LEMMA WorkerKeepsChecked ==
    ASSUME Checked, Flow, SessionInv, Files, NEW w \in Workers, Worker(w)
    PROVE  Checked'
<1>1. scenario' = scenario /\ pc \in [Workers -> {"idle", "send", "wait", "read"}]
  BY DEF Worker, TakeJob, Send, GetHeader, FailRequest, ReadBody, Report, schedVars, SessionInv
<1>2. CASE TakeJob(w) \/ Send(w)
  <2>1. /\ pc' \in {[pc EXCEPT ![w] = "send"], [pc EXCEPT ![w] = "wait"]}
        /\ UNCHANGED <<answer, results>>
    BY <1>2 DEF TakeJob, Send
  <2> QED
    BY <1>1, <2>1 DEF Checked, SuccessMeansPassed
<1>3. CASE GetHeader(w)
  <2>1. PICK resp \in Answers(Endpoint(w).name, number[w]) : answer' = [answer EXCEPT ![w] = resp]
    BY <1>3 DEF GetHeader
  <2>2. /\ pc[w] = "wait" /\ pc' = [pc EXCEPT ![w] = "read"] /\ results' = results
    BY <1>3 DEF GetHeader
  <2>3. number[w] \in 1..MaxJobs
    <3>1. number[w] \in 1..sent
      BY <2>2 DEF SessionInv, InFlight
    <3>2. PICK q, t : q = Len(queue) /\ t = Cardinality(ToSend)
      OBVIOUS
    <3>3. /\ q \in Nat /\ t \in Nat /\ sent \in Nat /\ built \in 0..MaxJobs /\ MaxJobs \in Nat
          /\ sent + q + t <= built
      BY <3>2, FlowFacts DEF Flow
    <3> QED
      BY <3>1, <3>3
  <2>4. job[w].ep \in Endpoints
    BY <2>2 DEF Flow, Busy
  <2>5. IsResponse(resp)
    BY <2>1, <2>3, <2>4 DEF Files, Endpoints, Endpoint
  <2> QED
    BY <1>1, <2>1, <2>2, <2>5 DEF Checked, SuccessMeansPassed
<1>4. CASE FailRequest(w)
  <2>1. /\ pc' = [pc EXCEPT ![w] = "idle"] /\ answer' = [answer EXCEPT ![w] = NoAnswer]
    BY <1>4 DEF FailRequest, Report
  <2>2. PICK r : results' = Append(results, r) /\ r.err = TRUE
    BY <1>4 DEF FailRequest, Report
  <2>3. \A i \in DOMAIN results' : (results'[i] = r) \/ (i \in DOMAIN results /\ results'[i] = results[i])
    BY <2>2, Appended DEF Flow
  <2> QED
    BY <1>1, <2>1, <2>2, <2>3 DEF Checked, SuccessMeansPassed
<1>5. CASE ReadBody(w)
  <2>1. /\ pc' = [pc EXCEPT ![w] = "idle"] /\ answer' = [answer EXCEPT ![w] = NoAnswer]
    BY <1>5 DEF ReadBody, Report
  <2> QED
    BY <1>1, <1>5, <2>1, ReadBodyKeepsChecked DEF Checked
<1> QED
  BY <1>2, <1>3, <1>4, <1>5 DEF Worker

THEOREM CheckedInvariant == Spec => []Checked
<1>1. Init => Checked
  BY DEF Init, Checked, SuccessMeansPassed
<1>2. Checked /\ Flow /\ SessionInv /\ Files /\ [Next]_vars => Checked'
  <2> SUFFICES ASSUME Checked, Flow, SessionInv, Files, [Next]_vars PROVE Checked'
    OBVIOUS
  <2>1. CASE Pick \/ Build \/ UNCHANGED vars
    BY <2>1 DEF Pick, Build, Submit, vars, schedVars, workerVars, Checked, SuccessMeansPassed
  <2>2. CASE LoadScenario
    <3>1. UNCHANGED <<pc, answer, results>> /\ results = <<>>
      BY <2>2 DEF LoadScenario, workerVars, Flow
    <3> QED
      BY <3>1 DEF Checked, SuccessMeansPassed
  <2>3. CASE Count \/ Store
    <3>1. /\ results # <<>> /\ results' = Tail(results)
          /\ UNCHANGED <<scenario, pc, answer>>
      BY <2>3 DEF Count, Store, schedVars, workerVars
    <3>2. \A i \in DOMAIN results' : i + 1 \in DOMAIN results /\ results'[i] = results[i + 1]
      BY <3>1, Taken DEF Flow
    <3> QED
      BY <3>1, <3>2 DEF Checked, SuccessMeansPassed
  <2> QED
    BY <2>1, <2>2, <2>3, WorkerKeepsChecked DEF Next
<1> QED
  BY <1>1, <1>2, FlowInvariant, SessionInvariant, FilesInvariant, PTL DEF Spec

(***************************************************************************)
(* For every scenario, server and cut of a body: a request is reported     *)
(* without error only if it had the expected status and its assertions     *)
(* hold of the whole response, those about JSON fields of a document that  *)
(* it is or begins with.                                                   *)
(***************************************************************************)
THEOREM SuccessIsSound == Spec => []SuccessMeansPassed
<1>1. Checked => SuccessMeansPassed
  BY DEF Checked
<1> QED
  BY <1>1, CheckedInvariant, PTL

-----------------------------------------------------------------------------
(***************************************************************************)
(* Types.  What is left: no variable is stored empty, and the numbers of   *)
(* the cookie and of idle workers.                                         *)
(***************************************************************************)
Stores ==
    /\ \A k \in DOMAIN data : data[k] # <<>>
    /\ jar \in 0..sent
    /\ \A w \in Workers : ~InFlight(w) => number[w] = 0

\* A value that is stored was found in the body.
LEMMA StoredIsFound ==
    ASSUME NEW old, \A k \in DOMAIN old : old[k] # <<>>, NEW ep, NEW json
    PROVE  \A k \in DOMAIN Stored(old, ep, json) : Stored(old, ep, json)[k] # <<>>
<1> DEFINE new == {<<ep.name, v>> : v \in Extracted(ep, json)}
<1>1. ASSUME NEW k \in new PROVE GetNestedValue(json, Trimmed(ep.extract[k[2]])) # <<>>
  <2>1. PICK v \in Extracted(ep, json) : k = <<ep.name, v>>
    OBVIOUS
  <2>2. k[2] = v
    BY <2>1
  <2> QED
    BY <2>2 DEF Extracted
<1> QED
  BY <1>1 DEF Stored

LEMMA StoresKept ==
    ASSUME Stores, SessionInv, [Next]_vars
    PROVE  Stores'
<1>1. CASE UNCHANGED <<data, jar, sent, pc, number>>
  BY <1>1 DEF Stores, InFlight
<1>2. CASE LoadScenario \/ Pick \/ Build \/ Count \/ UNCHANGED vars
  BY <1>1, <1>2 DEF LoadScenario, Pick, Build, Submit, Count, vars, schedVars, workerVars,
                    storeVars, cookieVars
<1>3. CASE Store
  <2>1. UNCHANGED <<jar, sent, pc, number>>
    BY <1>3 DEF Store, workerVars, cookieVars
  <2>2. data' = data \/ \E ep, json : data' = Stored(data, ep, json)
    BY <1>3 DEF Store, storeVars
  <2>3. \A k \in DOMAIN data' : data'[k] # <<>>
    BY <2>2, StoredIsFound DEF Stores
  <2> QED
    BY <2>1, <2>3 DEF Stores, InFlight
<1>4. ASSUME NEW w \in Workers, Worker(w) PROVE Stores'
  <2>1. data' = data
    BY <1>4 DEF Worker, TakeJob, Send, GetHeader, FailRequest, ReadBody, Report, storeVars
  <2>2. /\ pc \in [Workers -> {"idle", "send", "wait", "read"}] /\ number \in [Workers -> Nat]
        /\ sent \in Nat /\ (InFlight(w) => number[w] \in 1..sent)
    BY DEF SessionInv
  <2>3. CASE TakeJob(w)
    BY <2>1, <2>2, <2>3 DEF TakeJob, cookieVars, Stores, InFlight
  <2>4. CASE Send(w)
    BY <2>1, <2>2, <2>4 DEF Send, cookieVars, Stores, InFlight
  <2>5. CASE GetHeader(w)
    <3>1. /\ pc[w] = "wait" /\ pc' = [pc EXCEPT ![w] = "read"]
          /\ jar' \in {jar, number[w]} /\ UNCHANGED <<number, sent>>
      BY <2>5 DEF GetHeader
    <3> QED
      BY <2>1, <2>2, <3>1 DEF Stores, InFlight
  <2>6. CASE FailRequest(w)
    BY <2>1, <2>2, <2>6 DEF FailRequest, Report, cookieVars, Stores, InFlight
  <2>7. CASE ReadBody(w)
    <3>1. /\ pc[w] = "read" /\ pc' = [pc EXCEPT ![w] = "idle"]
          /\ number' = [number EXCEPT ![w] = 0] /\ sent' = sent
          /\ jar' \in {jar, number[w]}
      BY <2>7 DEF ReadBody, Report, SetCookiesAgain
    <3> QED
      BY <2>1, <2>2, <3>1 DEF Stores, InFlight
  <2> QED
    BY <1>4, <2>3, <2>4, <2>5, <2>6, <2>7 DEF Worker
<1> QED
  BY <1>2, <1>3, <1>4 DEF Next

\* For any scenarios, workers and server: types, and each request in one place.
THEOREM TypeCorrect == Spec => []TypeOK
<1>1. Init => Stores
  <2> SUFFICES ASSUME Init PROVE Stores
    OBVIOUS
  <2>1. DOMAIN data = {} /\ jar = 0 /\ sent = 0
    BY DEF Init
  <2>2. \A w \in Workers : number[w] = 0
    BY DEF Init
  <2> QED
    BY <2>1, <2>2 DEF Stores
<1>2. Spec => []Stores
  BY <1>1, StoresKept, SessionInvariant, PTL DEF Spec
<1>3. Stores /\ Flow /\ SessionInv /\ Files => TypeOK
  <2> SUFFICES ASSUME Stores, Flow, SessionInv, Files PROVE TypeOK
    OBVIOUS
  <2>1. /\ Len(queue) + Cardinality(Busy) + Len(results) <= built
        /\ sent + Len(queue) + Cardinality(ToSend) <= built /\ built \in 0..MaxJobs
    BY DEF Flow
  <2>2. sent \in 0..built
    <3>1. PICK q, t : q = Len(queue) /\ t = Cardinality(ToSend)
      OBVIOUS
    <3>2. q \in Nat /\ t \in Nat /\ sent \in Nat /\ built \in Nat /\ sent + q + t <= built
      BY <2>1, <3>1, FlowFacts
    <3> QED
      BY <3>2
  <2>3. sched.ep \in 0..Len(scenario.endpoints)
    <3>1. PICK S : scenario.endpoints \in Seq(S)
      BY DEF Files, IsScenario, IsSequence
    <3> QED
      BY <3>1 DEF Flow, Endpoints
  <2>4. number \in [Workers -> 0..sent]
    BY DEF Stores, SessionInv
  <2>5. Busy = {w \in Workers : pc[w] # "idle"}
    BY DEF Busy
  <2>6. Len(queue) + Cardinality({w \in Workers : pc[w] # "idle"}) + Len(results) <= built
    BY <2>1, <2>5
  <2> QED
    BY <2>1, <2>2, <2>3, <2>4, <2>6 DEF TypeOK, Stores, SessionInv, Files
<1> QED
  BY <1>2, <1>3, FlowInvariant, SessionInvariant, FilesInvariant, PTL

-----------------------------------------------------------------------------
(***************************************************************************)
(* Pairs of variables.  A result holds values of one response only.  As    *)
(* long as no response has had some of an endpoint's variables and not the *)
(* others, the store, which takes all those of a result under one lock,    *)
(* has none of them or all of one response; so has every copy of it, and   *)
(* so has a job, built from one copy.                                      *)
(***************************************************************************)
OfOneResponse(ep, json) ==
    \E n : IsNumbered(Named(scenario.endpoints, scenario.endpoints[ep].name), json, n)

Numbered ==
    /\ \A w \in Workers : pc[w] = "read" =>
          \A json \in Documents(answer[w]) : OfOneResponse(job[w].ep, json)
    /\ \A i \in DOMAIN results :
          /\ results[i].ep \in Endpoints
          /\ OfOneResponse(results[i].ep, results[i].json)

\* A body that does not parse has no variables.
LEMMA NothingInNoJSON ==
    ASSUME NEW ep
    PROVE  Extracted(ep, NoJSON) = {}
BY DEF Extracted, NoJSON

LEMMA WorkerKeepsNumbered ==
    ASSUME Numbered, Checked, Flow, SessionInv, Files, NEW w \in Workers, Worker(w)
    PROVE  Numbered'
<1>1. scenario' = scenario
  BY DEF Worker, TakeJob, Send, GetHeader, FailRequest, ReadBody, Report, schedVars
<1>2. /\ pc \in [Workers -> {"idle", "send", "wait", "read"}]
      /\ DOMAIN job = Workers /\ DOMAIN answer = Workers
      /\ IsSequence(results)
  BY DEF SessionInv, Flow, Checked
<1>3. Endpoints' = Endpoints
  BY <1>1 DEF Endpoints
<1>4. CASE TakeJob(w) \/ Send(w)
  <2>1. /\ pc' \in {[pc EXCEPT ![w] = "send"], [pc EXCEPT ![w] = "wait"]}
        /\ \A v \in Workers : v # w => job'[v] = job[v]
        /\ UNCHANGED <<answer, results>>
    BY <1>1, <1>2, <1>3, <1>4 DEF TakeJob, Send
  <2> QED
    BY <1>1, <1>2, <1>3, <2>1 DEF Numbered, OfOneResponse
<1>5. CASE GetHeader(w)
  <2>1. PICK resp \in Answers(Endpoint(w).name, number[w]) : answer' = [answer EXCEPT ![w] = resp]
    BY <1>5 DEF GetHeader
  <2>2. /\ pc[w] = "wait" /\ pc' = [pc EXCEPT ![w] = "read"] /\ UNCHANGED <<job, results>>
    BY <1>5 DEF GetHeader
  <2>3. number[w] \in 1..MaxJobs
    <3>1. number[w] \in 1..sent
      BY <2>2 DEF SessionInv, InFlight
    <3>2. PICK q, t : q = Len(queue) /\ t = Cardinality(ToSend)
      OBVIOUS
    <3>3. /\ q \in Nat /\ t \in Nat /\ sent \in Nat /\ built \in 0..MaxJobs /\ MaxJobs \in Nat
          /\ sent + q + t <= built
      BY <3>2, FlowFacts DEF Flow
    <3> QED
      BY <3>1, <3>3
  <2>4. job[w].ep \in Endpoints
    BY <2>2 DEF Flow, Busy
  <2>5. \A json \in Documents(resp) :
           IsNumbered(Named(scenario.endpoints, scenario.endpoints[job[w].ep].name), json, number[w])
    BY <2>1, <2>3, <2>4 DEF Files, Endpoints, Endpoint
  <2>6. \A json \in Documents(resp) : OfOneResponse(job[w].ep, json)
    BY <2>5 DEF OfOneResponse
  <2> QED
    BY <1>1, <1>2, <1>3, <2>1, <2>2, <2>6 DEF Numbered, OfOneResponse
<1>6. CASE FailRequest(w) \/ ReadBody(w)
  <2>1. /\ pc[w] # "idle" /\ pc' = [pc EXCEPT ![w] = "idle"]
        /\ job' = [job EXCEPT ![w] = NoJob] /\ answer' = [answer EXCEPT ![w] = NoAnswer]
    <3>1. CASE FailRequest(w)
      BY <3>1 DEF FailRequest, Report
    <3>2. CASE ReadBody(w)
      BY <3>2 DEF ReadBody, Report
    <3> QED
      BY <1>6, <3>1, <3>2
  <2>2. job[w].ep \in Endpoints
    BY <2>1 DEF Flow, Busy
  <2>3. OfOneResponse(job[w].ep, NoJSON)
    BY NothingInNoJSON DEF OfOneResponse, IsNumbered
  <2>4. PICK r : /\ results' = Append(results, r) /\ r.ep = job[w].ep
                 /\ (r.json = NoJSON) \/ (pc[w] = "read" /\ r.json \in Documents(answer[w]))
    <3>1. CASE FailRequest(w)
      BY <3>1 DEF FailRequest, Report
    <3>2. CASE ReadBody(w)
      <4>1. PICK got \in Received(answer[w]) :
                Report(w, \/ Endpoint(w).expectedStatus \notin {"", got.status}
                          \/ ~Passes(Endpoint(w).assertions, got), got.words, got.json)
        BY <3>2 DEF ReadBody
      <4>2. pc[w] = "read"
        BY <3>2 DEF ReadBody
      <4>3. got.json = NoJSON \/ got.json \in Documents(answer[w])
        BY <4>2, ReceivedFacts DEF Checked
      <4>4. PICK r : /\ results' = Append(results, r)
                     /\ r.ep = job[w].ep /\ r.json = got.json
        <5>1. \E err : results' = Append(results, [ep |-> job[w].ep, err |-> err,
                                 words |-> got.words, json |-> got.json, answer |-> answer[w]])
          BY <4>1 DEF Report
        <5> QED
          BY <5>1
      <4> QED
        BY <4>2, <4>3, <4>4
    <3> QED
      BY <1>6, <3>1, <3>2
  <2>5. OfOneResponse(r.ep, r.json)
    BY <2>3, <2>4 DEF Numbered
  <2>6. \A i \in DOMAIN results' : (results'[i] = r) \/ (i \in DOMAIN results /\ results'[i] = results[i])
    BY <2>4, Appended DEF Flow
  <2> QED
    BY <1>1, <1>2, <1>3, <2>1, <2>2, <2>4, <2>5, <2>6 DEF Numbered, OfOneResponse
<1> QED
  BY <1>4, <1>5, <1>6 DEF Worker

LEMMA NumberedKept ==
    ASSUME Numbered, Checked, Flow, SessionInv, Files, [Next]_vars
    PROVE  Numbered'
<1>1. CASE Pick \/ Build \/ UNCHANGED vars
  BY <1>1 DEF Pick, Build, Submit, vars, schedVars, workerVars, Numbered, OfOneResponse, Endpoints
<1>2. CASE LoadScenario
  <2>1. UNCHANGED <<pc, answer, results>> /\ results = <<>> /\ Busy = {}
    BY <1>2 DEF LoadScenario, workerVars, Flow
  <2> QED
    BY <2>1 DEF Numbered, Busy
<1>3. CASE Count \/ Store
  <2>1. /\ results # <<>> /\ results' = Tail(results)
        /\ UNCHANGED <<scenario, pc, job, answer>>
    BY <1>3 DEF Count, Store, schedVars, workerVars
  <2>2. \A i \in DOMAIN results' : i + 1 \in DOMAIN results /\ results'[i] = results[i + 1]
    BY <2>1, Taken DEF Flow
  <2> QED
    BY <2>1, <2>2 DEF Numbered, OfOneResponse, Endpoints
<1> QED
  BY <1>1, <1>2, <1>3, WorkerKeepsNumbered DEF Next

\* None of the variables is known, or all of them are, from one response.
Coherent(known, its) ==
    \/ its \cap DOMAIN known = {}
    \/ its \subseteq DOMAIN known /\ \E n : \A k \in its : known[k][Len(known[k])] = n

Paired(j, its) ==
    LET of == {p[2][Len(p[2])] : p \in {q \in PiecesOf(j, "value") : q[3] \in its}}
        left == {p[2] : p \in PiecesOf(j, "var")} \cap its
    IN Cardinality(of) <= 1 /\ (of = {} \/ left = {})

LEMMA AtMostOne ==
    ASSUME NEW S, NEW n, S \subseteq {n}
    PROVE  Cardinality(S) <= 1
<1>1. CASE S = {}
  BY <1>1, FS_EmptySet
<1>2. CASE S = {n}
  <2>1. Cardinality({n}) = 1
    BY FS_Singleton
  <2> QED
    BY <1>2, <2>1
<1> QED
  BY <1>1, <1>2

\* A job built from one copy of a coherent store.
LEMMA BuiltIsPaired ==
    ASSUME NEW e, NEW url, NEW body, NEW headers, NEW known, NEW sofar, NEW its, Coherent(known, its),
           \A i \in DOMAIN url : url[i][1] \in {"lit", "var"},
           \A i \in DOMAIN body : body[i][1] \in {"lit", "var"}
    PROVE  Paired([ep |-> e, url |-> ReplaceVars(url, known),
                   body |-> ReplaceVars(body, known), headers |-> headers,
                 sofar |-> sofar], its)
<1> DEFINE j == [ep |-> e, url |-> ReplaceVars(url, known),
                 body |-> ReplaceVars(body, known), headers |-> headers,
                 sofar |-> sofar]
           of == {p[2][Len(p[2])] : p \in {q \in PiecesOf(j, "value") : q[3] \in its}}
           left == {p[2] : p \in PiecesOf(j, "var")} \cap its
<1>1. ASSUME NEW tag, NEW p \in PiecesOf(j, tag)
      PROVE  /\ p[1] = tag
             /\ \E piece : piece[1] \in {"lit", "var"} /\ p = Replaced(piece, known)
  BY DEF PiecesOf, ReplaceVars
<1> HIDE DEF j
<1>2. ASSUME NEW p \in PiecesOf(j, "var") PROVE p[2] \notin DOMAIN known
  BY <1>1, LeftIsUnknown
<1>3. ASSUME NEW p \in PiecesOf(j, "value")
      PROVE  p[3] \in DOMAIN known /\ p[2] = known[p[3]]
  <2>1. PICK piece : piece[1] \in {"lit", "var"} /\ p = Replaced(piece, known)
    BY <1>1
  <2>2. p[1] = "value"
    BY <1>1
  <2>3. CASE piece[1] = "lit"
    BY <2>1, <2>2, <2>3 DEF Replaced
  <2>4. CASE piece[1] = "var" /\ piece[2] \in DOMAIN known
    <3>1. p = <<"value", known[piece[2]], piece[2]>>
      BY <2>1, <2>4 DEF Replaced
    <3> QED
      BY <2>4, <3>1
  <2>5. CASE piece[1] = "var" /\ piece[2] \notin DOMAIN known
    <3>1. p \in {<<"made", piece[2]>>, piece}
      BY <2>1, <2>5 DEF Replaced
    <3> QED
      BY <2>2, <2>5, <3>1
  <2> QED
    BY <2>1, <2>3, <2>4, <2>5
<1>4. CASE its \cap DOMAIN known = {}
  <2>1. of = {}
    BY <1>3, <1>4
  <2>2. Cardinality(of) <= 1
    <3> HIDE DEF of
    <3> QED
      BY <2>1, AtMostOne
  <2> QED
    BY <2>1, <2>2 DEF Paired, j
<1>5. CASE its \subseteq DOMAIN known /\ \E n : \A k \in its : known[k][Len(known[k])] = n
  <2>1. PICK n : \A k \in its : known[k][Len(known[k])] = n
    BY <1>5
  <2>2. of \subseteq {n}
    BY <1>3, <2>1
  <2>3. left = {}
    BY <1>2, <1>5
  <2>4. Cardinality(of) <= 1
    <3> HIDE DEF of
    <3> QED
      BY <2>2, AtMostOne
  <2> QED
    BY <2>3, <2>4 DEF Paired, j
<1> QED
  BY <1>4, <1>5 DEF Coherent

LEMMA NoJobIsPaired ==
    ASSUME NEW its
    PROVE  Paired(NoJob, its)
<1> DEFINE of == {p[2][Len(p[2])] : p \in {q \in PiecesOf(NoJob, "value") : q[3] \in its}}
           left == {p[2] : p \in PiecesOf(NoJob, "var")} \cap its
<1>1. PiecesOf(NoJob, "value") = {} /\ PiecesOf(NoJob, "var") = {}
  BY DEF PiecesOf, NoJob
<1>2. of = {} /\ left = {}
  BY <1>1
<1>3. Cardinality(of) <= 1
  <2> HIDE DEF of
  <2> QED
    BY <1>2, AtMostOne
<1> QED
  BY <1>2, <1>3 DEF Paired

\* A store that takes the variables of a numbered response, all or none.
LEMMA StoredIsCoherent ==
    ASSUME NEW old, NEW ep, NEW json, NEW n, IsNumbered(ep, json, n),
           Extracted(ep, json) \in {{}, DOMAIN ep.extract},
           NEW name, NEW other, name = ep.name => other = ep,
           NEW its, its = {<<name, v>> : v \in DOMAIN other.extract}, Coherent(old, its)
    PROVE  Coherent(Stored(old, ep, json), its)
<1> DEFINE found == {<<ep.name, v>> : v \in Extracted(ep, json)}
<1>1. PICK now : now = Stored(old, ep, json)
  OBVIOUS
<1>2. DOMAIN now = DOMAIN old \cup found
  BY <1>1 DEF Stored
<1>3. \A k \in DOMAIN old : k \notin found => now[k] = old[k]
  BY <1>1, <1>2 DEF Stored
<1>4. CASE its \cap found = {}
  <2>1. its \cap DOMAIN now = its \cap DOMAIN old
    BY <1>2, <1>4
  <2>2. \A k \in its \cap DOMAIN old : now[k] = old[k]
    BY <1>3, <1>4
  <2> HIDE DEF found
  <2> QED
    <3>1. CASE its \cap DOMAIN old = {}
      BY <1>1, <2>1, <3>1 DEF Coherent
    <3>2. CASE its \subseteq DOMAIN old /\ \E m : \A k \in its : old[k][Len(old[k])] = m
      <4>1. its \subseteq DOMAIN now
        BY <2>1, <3>2
      <4>2. \A k \in its : now[k] = old[k]
        BY <2>2, <3>2
      <4>3. PICK m : \A k \in its : old[k][Len(old[k])] = m
        BY <3>2
      <4>4. \A k \in its : now[k][Len(now[k])] = m
        BY <4>2, <4>3
      <4>5. Coherent(now, its)
        BY <4>1, <4>4 DEF Coherent
      <4> QED
        BY <1>1, <4>5
    <3> QED
      BY <3>1, <3>2 DEF Coherent
<1>5. CASE its \cap found # {}
  <2>1. PICK k \in its : k \in found
    BY <1>5
  <2>2. name = ep.name
    BY <2>1
  <2>3. other = ep
    BY <2>2
  <2>4. Extracted(ep, json) = DOMAIN ep.extract
    BY <2>1
  <2>5. its = found
    BY <2>2, <2>3, <2>4
  <2>6. ASSUME NEW v \in Extracted(ep, json)
        PROVE  now[<<name, v>>][Len(now[<<name, v>>])] = n
    <3>1. <<name, v>> \in found
      BY <2>2
    <3>2. now[<<name, v>>] = GetNestedValue(json, Trimmed(ep.extract[v]))
      <4>1. <<name, v>>[2] = v
        OBVIOUS
      <4>2. now[<<name, v>>] = GetNestedValue(json, Trimmed(ep.extract[<<name, v>>[2]]))
        BY <1>1, <1>2, <3>1 DEF Stored
      <4> QED
        BY <4>1, <4>2
    <3> QED
      BY <3>2 DEF IsNumbered
  <2>7. its \subseteq DOMAIN now
    BY <1>2, <2>5
  <2>8. \A k_1 \in its : now[k_1][Len(now[k_1])] = n
    BY <2>2, <2>5, <2>6
  <2>9. Coherent(now, its)
    BY <2>7, <2>8 DEF Coherent
  <2> QED
    BY <1>1, <2>9
<1> QED
  BY <1>4, <1>5

\* Of one endpoint's variables: the store, the copy, the queue and the workers.
AllPaired(store, known, waiting, jobs, its) ==
    /\ Coherent(store, its)
    /\ Coherent(known, its)
    /\ \A k \in DOMAIN waiting : Paired(waiting[k], its)
    /\ \A w \in Workers : Paired(jobs[w], its)

Of(i) == Variables(scenario.endpoints[i].name)

Pairs ==
    /\ phase # "run" => /\ DOMAIN data = {} /\ DOMAIN sched.known = {}
                        /\ \A w \in Workers : job[w] = NoJob
    /\ partial \/ \A i \in Endpoints : AllPaired(data, sched.known, queue, job, Of(i))

LEMMA NothingKnown ==
    ASSUME NEW store, NEW known, NEW waiting, NEW jobs, NEW its,
           DOMAIN store = {}, DOMAIN known = {}, DOMAIN waiting = {},
           \A w \in Workers : jobs[w] = NoJob
    PROVE  AllPaired(store, known, waiting, jobs, its)
BY NoJobIsPaired DEF AllPaired, Coherent

LEMMA BuildKeepsPairs ==
    ASSUME Pairs, Flow, Files, Build
    PROVE  Pairs'
<1> DEFINE ep == scenario.endpoints[sched.ep]
           new == [ep |-> sched.ep, url |-> ReplaceVars(ep.url, sched.known),
                   body |-> ReplaceVars(ep.body, sched.known), headers |-> ep.headers,
                   sofar |-> sched.sofar]
<1>1. /\ sched.ep \in Endpoints /\ phase = "run"
  BY DEF Build, Submit, Flow
<1>2. /\ \A j \in DOMAIN ep.url : ep.url[j][1] \in {"lit", "var"}
      /\ \A j \in DOMAIN ep.body : ep.body[j][1] \in {"lit", "var"}
  BY <1>1 DEF Files, IsScenario, Endpoints
<1>3. \A its : Coherent(sched.known, its) => Paired(new, its)
  BY <1>2, BuiltIsPaired
<1> HIDE DEF new, ep
<1>4. /\ sched'.known = <<>>
      /\ queue' \in {queue, Append(queue, new)}
      /\ UNCHANGED <<scenario, phase, data, job, partial>>
  BY DEF Build, Submit, workerVars, storeVars, new, ep
<1>5. \A k \in DOMAIN queue' : (queue'[k] = new) \/ (k \in DOMAIN queue /\ queue'[k] = queue[k])
  BY <1>4, Appended DEF Flow
<1>6. \A i : Of(i)' = Of(i)
  BY <1>4 DEF Of, Variables
<1>7. ASSUME ~partial, NEW i \in Endpoints
      PROVE  AllPaired(data', sched'.known, queue', job', Of(i))
  <2>1. AllPaired(data, sched.known, queue, job, Of(i))
    BY <1>7 DEF Pairs
  <2>2. Coherent(<<>>, Of(i))
    BY DEF Coherent
  <2> QED
    BY <1>3, <1>4, <1>5, <2>1, <2>2 DEF AllPaired
<1>8. Endpoints' = Endpoints
  BY <1>4 DEF Endpoints
<1> QED
  BY <1>1, <1>4, <1>6, <1>7, <1>8 DEF Pairs

\* Each endpoint's variables are stored under the first endpoint of its name.
LEMMA StoreKeepsPairs ==
    ASSUME Pairs, Flow, Files, Numbered, Store
    PROVE  Pairs'
<1>1. PICK r : r = Head(results)
  OBVIOUS
<1>2. /\ results # <<>> /\ phase = "run"
      /\ UNCHANGED <<scenario, phase, sched, queue, job>>
  BY DEF Store, Flow, schedVars, workerVars
<1>3. r.ep \in Endpoints /\ OfOneResponse(r.ep, r.json)
  BY <1>1, <1>2, Taken DEF Flow, Numbered
<1>4. PICK name, ep : /\ name = scenario.endpoints[r.ep].name
                      /\ ep = Named(scenario.endpoints, name)
  OBVIOUS
<1>5. ep.name = name
  BY <1>3, <1>4, NamedFacts DEF Files, IsScenario, Endpoints
<1>6. PICK n : IsNumbered(ep, r.json, n)
  BY <1>3, <1>4 DEF OfOneResponse
<1>7. \/ UNCHANGED storeVars
      \/ /\ data' = Stored(data, ep, r.json)
         /\ partial' = (partial \/ Extracted(ep, r.json) \notin {{}, DOMAIN ep.extract})
  BY <1>1, <1>4 DEF Store
<1>8. Endpoints' = Endpoints /\ \A i : Of(i)' = Of(i)
  BY <1>2 DEF Endpoints, Of, Variables
<1>9. CASE UNCHANGED storeVars
  <2>1. UNCHANGED <<data, partial>>
    BY <1>9 DEF storeVars
  <2> QED
    BY <1>2, <1>8, <2>1 DEF Pairs
<1>10. CASE /\ data' = Stored(data, ep, r.json)
            /\ partial' = (partial \/ Extracted(ep, r.json) \notin {{}, DOMAIN ep.extract})
  <2>1. ASSUME ~partial', NEW i \in Endpoints
        PROVE  AllPaired(data', sched.known, queue, job, Of(i))
    <3>1. ~partial /\ Extracted(ep, r.json) \in {{}, DOMAIN ep.extract}
      BY <1>10, <2>1
    <3>2. AllPaired(data, sched.known, queue, job, Of(i))
      BY <3>1 DEF Pairs
    <3>3. PICK its, other : /\ other = Named(scenario.endpoints, its)
                            /\ its = scenario.endpoints[i].name
      OBVIOUS
    <3>4. Of(i) = {<<its, v>> : v \in DOMAIN other.extract}
      BY <3>3 DEF Of, Variables
    <3>5. its = ep.name => other = ep
      BY <1>4, <1>5, <3>3
    <3>6. PICK old, json, mine : old = data /\ json = r.json /\ mine = Of(i)
      OBVIOUS
    <3>7. Coherent(old, mine)
      BY <3>2, <3>6 DEF AllPaired
    <3>8. Coherent(Stored(old, ep, json), mine)
      BY <1>6, <3>1, <3>4, <3>5, <3>6, <3>7, StoredIsCoherent
    <3> QED
      BY <1>10, <3>2, <3>6, <3>8 DEF AllPaired
  <2> QED
    BY <1>2, <1>8, <2>1 DEF Pairs
<1> QED
  BY <1>7, <1>9, <1>10

LEMMA WorkerKeepsPairs ==
    ASSUME Pairs, Flow, NEW w \in Workers, Worker(w)
    PROVE  Pairs'
<1>1. UNCHANGED <<scenario, phase, sched, data, partial>>
  BY DEF Worker, TakeJob, Send, GetHeader, FailRequest, ReadBody, Report, schedVars, storeVars
<1>2. Endpoints' = Endpoints /\ \A i : Of(i)' = Of(i)
  BY <1>1 DEF Endpoints, Of, Variables
<1>3. CASE TakeJob(w)
  <2>1. /\ queue # <<>> /\ queue' = Tail(queue)
        /\ job' = [job EXCEPT ![w] = Head(queue)]
    BY <1>3 DEF TakeJob
  <2>2. /\ phase = "run" /\ 1 \in DOMAIN queue /\ Head(queue) = queue[1]
        /\ \A i \in DOMAIN queue' : i + 1 \in DOMAIN queue /\ queue'[i] = queue[i + 1]
    BY <2>1, Taken DEF Flow
  <2>3. \A v \in Workers : job'[v] \in {job[v], queue[1]}
    BY <2>1, <2>2 DEF Flow
  <2>4. ASSUME ~partial, NEW i \in Endpoints
        PROVE  AllPaired(data, sched.known, queue', job', Of(i))
    <3>1. AllPaired(data, sched.known, queue, job, Of(i))
      BY <2>4 DEF Pairs
    <3> QED
      BY <2>2, <2>3, <3>1 DEF AllPaired
  <2> QED
    BY <1>1, <1>2, <2>2, <2>4 DEF Pairs
<1>4. CASE Send(w) \/ GetHeader(w)
  <2>1. UNCHANGED <<queue, job>>
    BY <1>4 DEF Send, GetHeader
  <2> QED
    BY <1>1, <1>2, <2>1 DEF Pairs
<1>5. CASE FailRequest(w) \/ ReadBody(w)
  <2>1. queue' = queue /\ job' = [job EXCEPT ![w] = NoJob]
    BY <1>5 DEF FailRequest, ReadBody, Report
  <2>2. \A v \in Workers : job'[v] \in {job[v], NoJob}
    BY <2>1 DEF Flow
  <2>3. ASSUME ~partial, NEW i \in Endpoints
        PROVE  AllPaired(data, sched.known, queue, job', Of(i))
    <3>1. AllPaired(data, sched.known, queue, job, Of(i))
      BY <2>3 DEF Pairs
    <3> QED
      BY <2>2, <3>1, NoJobIsPaired DEF AllPaired
  <2> QED
    BY <1>1, <1>2, <2>1, <2>2, <2>3 DEF Pairs
<1> QED
  BY <1>3, <1>4, <1>5 DEF Worker

LEMMA PairsKept ==
    ASSUME Pairs, Flow, Files, Numbered, [Next]_vars
    PROVE  Pairs'
<1>1. CASE UNCHANGED <<scenario, phase, sched, queue, job, data, partial>>
  BY <1>1 DEF Pairs, Of, Variables, Endpoints
<1>2. CASE Count \/ UNCHANGED vars
  BY <1>1, <1>2 DEF Count, vars, schedVars, workerVars, storeVars
<1>3. CASE LoadScenario
  <2>1. /\ phase # "run" /\ UNCHANGED <<sched, queue, job, data>>
    BY <1>3 DEF LoadScenario, workerVars, storeVars
  <2>2. /\ DOMAIN data = {} /\ DOMAIN sched.known = {} /\ DOMAIN queue = {}
        /\ \A w \in Workers : job[w] = NoJob
    BY <2>1 DEF Pairs, Flow
  <2>3. \A its : AllPaired(data, sched.known, queue, job, its)
    BY <2>2, NothingKnown
  <2> QED
    BY <2>1, <2>2, <2>3 DEF Pairs
<1>4. CASE Pick
  <2>1. /\ phase = "run" /\ sched'.known = data
        /\ UNCHANGED <<scenario, phase, queue, job, data, partial>>
    BY <1>4 DEF Pick, workerVars, storeVars
  <2>2. Endpoints' = Endpoints /\ \A i : Of(i)' = Of(i)
    BY <2>1 DEF Endpoints, Of, Variables
  <2>3. ASSUME ~partial, NEW i \in Endpoints
        PROVE  AllPaired(data, data, queue, job, Of(i))
    BY <2>3 DEF Pairs, AllPaired
  <2> QED
    BY <2>1, <2>2, <2>3 DEF Pairs
<1> QED
  BY <1>2, <1>3, <1>4, BuildKeepsPairs, StoreKeepsPairs, WorkerKeepsPairs DEF Next

\* What workers and results hold of a response is numbered.
THEOREM NumberedInvariant == Spec => []Numbered
<1>1. Init => Numbered
  <2> SUFFICES ASSUME Init PROVE Numbered
    OBVIOUS
  <2>1. DOMAIN results = {} /\ \A w \in Workers : pc[w] = "idle"
    BY DEF Init
  <2> QED
    BY <2>1 DEF Numbered
<1> QED
  BY <1>1, NumberedKept, CheckedInvariant, FlowInvariant, SessionInvariant, FilesInvariant,
     PTL DEF Spec

THEOREM PairsInvariant == Spec => []Pairs
<1>1. Init => Pairs
  <2> SUFFICES ASSUME Init PROVE Pairs
    OBVIOUS
  <2>1. DOMAIN data = {} /\ DOMAIN sched.known = {} /\ DOMAIN queue = {}
    BY DEF Init
  <2>2. \A w \in Workers : job[w] = NoJob
    BY DEF Init
  <2>3. \A its : AllPaired(data, sched.known, queue, job, its)
    BY <2>1, <2>2, NothingKnown
  <2> QED
    BY <2>1, <2>2, <2>3 DEF Pairs
<1> QED
  BY <1>1, PairsKept, NumberedInvariant, FlowInvariant, FilesInvariant, PTL DEF Spec

(***************************************************************************)
(* For any scenarios, workers and server: the variables of an endpoint     *)
(* that a request is sent with are of one response, or all missing.        *)
(***************************************************************************)
THEOREM VariablesTogether == Spec => []VariablesPaired
<1>1. Pairs => VariablesPaired
  <2> SUFFICES ASSUME Pairs, NEW j \in Jobs, NEW i \in Endpoints, ~partial
               PROVE  Paired(j, Of(i))
    BY DEF VariablesPaired, Paired, Of, Endpoints
  <2>1. AllPaired(data, sched.known, queue, job, Of(i))
    BY DEF Pairs
  <2> QED
    BY <2>1 DEF AllPaired, Jobs
<1> QED
  BY <1>1, PairsInvariant, PTL
=============================================================================

----------------------------- MODULE RequestFlow ----------------------------
(***************************************************************************)
(* The content of requests and responses in scenario mode (cmd/run.go,     *)
(* internal/worker): the scenario is loaded, the scheduler picks endpoints *)
(* and fills in the variables of the chain store, the HTTP workers send    *)
(* the requests with the cookies of the shared jar, check what comes back  *)
(* and report it, and the chain store's goroutine takes some of the        *)
(* results and extracts variables from them.                               *)
(*                                                                         *)
(* Capacities, shutdown and the other three pools are left to LoadRun, and *)
(* scripts to ScriptedJobs.  The server is external: Answers gives what it *)
(* may answer to the n-th request.  The jar holds one session cookie: the  *)
(* number of the request it was the answer to.                             *)
(***************************************************************************)
EXTENDS Scenario, FiniteSets

CONSTANTS
    Scenarios,      \* the scenario files
    Workers,
    MaxJobs,        \* bound: requests the scheduler builds
    Answers(_, _)   \* [status, cookie, header, words, json, begins]: the responses
                    \* to the n-th request, for an endpoint's name; cookie says
                    \* whether it sets one, begins gives the lengths of the proper
                    \* beginnings of the body that are JSON, and what they say

IsSequence(x) == x \in Seq({x[i] : i \in DOMAIN x})

EndpointFields ==
    {"name", "weight", "method", "expectedStatus", "assertions", "extract", "url", "body",
     "headers"}

\* A file that was parsed has its fields, and its texts are texts.
IsScenario(s) ==
    /\ {"name", "stages", "endpoints"} \subseteq DOMAIN s
    /\ IsSequence(s.endpoints)
    /\ \A i \in DOMAIN s.endpoints :
          LET ep == s.endpoints[i] IN
          /\ EndpointFields \subseteq DOMAIN ep
          /\ ep.weight \in Int
          /\ \A j \in DOMAIN ep.url : ep.url[j][1] \in {"lit", "var"}
          /\ \A j \in DOMAIN ep.body : ep.body[j][1] \in {"lit", "var"}
          /\ \A j \in DOMAIN ep.assertions :
                IsSequence(ep.assertions[j].value) /\ IsSequence(ep.assertions[j].contains)

IsResponse(resp) ==
    /\ {"status", "header", "words", "json", "begins"} \subseteq DOMAIN resp
    /\ IsSequence(resp.words)

\* What a body says, or as much of it as has come.  Most bodies say nothing until
\* they are complete; of documents in sequence, the first one does.
Documents(resp) == {resp.json} \cup {resp.begins[k] : k \in DOMAIN resp.begins}

\* The first endpoint of that name.
Named(endpoints, name) ==
    endpoints[First({i \in DOMAIN endpoints : endpoints[i].name = name})]

\* The value that an endpoint extracts for v ends with the number of the request,
\* so that the properties can tell responses apart.
IsNumbered(ep, json, n) ==
    \A v \in Extracted(ep, json) :
        LET value == GetNestedValue(json, Trimmed(ep.extract[v])) IN value[Len(value)] = n

ASSUME RequestFlowAssumption ==
    /\ MaxJobs \in Nat /\ IsFiniteSet(Workers)
    /\ \A s \in Scenarios :
          /\ IsScenario(s)
          /\ \A i \in DOMAIN s.endpoints, n \in 1..MaxJobs :
                \A resp \in Answers(s.endpoints[i].name, n) :
                    /\ IsResponse(resp)
                    /\ \A json \in Documents(resp) :
                          IsNumbered(Named(s.endpoints, s.endpoints[i].name), json, n)

VARIABLES
    scenario,   \* the loaded scenario
    phase,      \* "load" | "run" | "rejected"
    sched,      \* [ep: index or 0, known: its copy of the store, sofar: learned]
    built,      \* how many requests the scheduler has built
    queue,      \* the jobs channel of the HTTP pool
    pc,         \* of each worker: "idle" | "send" | "wait" | "read"
    job,        \* its job
    cookies,    \* the cookies in its request
    number,     \* of its request
    answer,     \* to its request
    sent,       \* how many requests the server has got
    results,    \* the merged results
    data,       \* ChainStore.data
    jar,        \* the cookie in sharedJar, 0 if none
    learned,    \* variables stored so far (for a property)
    partial,    \* a response had some of an endpoint's variables (for a property)
    handled,    \* requests whose responses are done with (for a property)
    before,     \* of each worker: handled when its request was sent (likewise)
    overtaken   \* the handled that a later one did not overlap with (likewise)

schedVars  == <<scenario, phase, sched, built>>
workerVars == <<pc, job, cookies, number, answer, before>>
storeVars  == <<data, learned, partial>>
cookieVars == <<jar, handled, overtaken>>
vars == <<schedVars, queue, workerVars, sent, results, storeVars, cookieVars>>

NoAnswer == [status |-> "", cookie |-> FALSE, header |-> <<>>, words |-> <<>>,
             json |-> NoJSON, begins |-> <<>>]
NoJob == [ep |-> 0, url |-> <<>>, body |-> <<>>, headers |-> <<>>, sofar |-> {}]

\* The endpoint of the worker's job.
Endpoint(w) == scenario.endpoints[job[w].ep]

\* LoadScenario: a file that cannot be read or parsed is rejected as well.
LoadScenario ==
    /\ phase = "load"
    /\ \/ /\ Valid(scenario)
          /\ phase' = "run"
          /\ scenario' = [scenario EXCEPT !.endpoints =
                             [i \in DOMAIN @ |-> Completed(@[i])]]
       \/ phase' = "rejected" /\ UNCHANGED scenario
    /\ UNCHANGED <<sched, built, queue, workerVars, sent, results, storeVars, cookieVars>>

-----------------------------------------------------------------------------
\* PickEndpoint, then ToVars: one copy of the store, under its lock.
Pick ==
    /\ phase = "run" /\ sched.ep = 0
    /\ built < MaxJobs
    /\ \E r \in Draws(scenario.endpoints) :
          sched' = [ep |-> PickEndpoint(scenario.endpoints, r), known |-> data,
                    sofar |-> learned]
    /\ UNCHANGED <<scenario, phase, built, queue, workerVars, sent, results, storeVars,
                   cookieVars>>

\* The job is built from that copy and submitted.  Its headers (and the text of
\* basic_auth) are those of the endpoint as they are.  The jobs of the other
\* protocols go to pools of their own, or nowhere if the payload is wrong.
Submit(url, body) ==
    /\ sched.ep # 0
    /\ built' = built + 1
    /\ sched' = [ep |-> 0, known |-> <<>>, sofar |-> {}]
    /\ queue' = IF Kind(scenario.endpoints[sched.ep]) # "http" THEN queue
                ELSE Append(queue, [ep |-> sched.ep, url |-> url, body |-> body,
                                    headers |-> scenario.endpoints[sched.ep].headers,
                                    sofar |-> sched.sofar])
    /\ UNCHANGED <<scenario, phase, workerVars, sent, results, storeVars, cookieVars>>

\* Mutant of Build: a copy of the store for each of the two.
BuildTwice ==
    LET ep == scenario.endpoints[sched.ep]
    IN Submit(ReplaceVars(ep.url, sched.known), ReplaceVars(ep.body, data))

Build ==
    LET ep == scenario.endpoints[sched.ep]
    IN Submit(ReplaceVars(ep.url, sched.known), ReplaceVars(ep.body, sched.known))

-----------------------------------------------------------------------------
InJar == IF jar = 0 THEN <<>> ELSE <<jar>>

\* A worker takes a job and adds the jar's cookies to its request ...
TakeJob(w) ==
    /\ pc[w] = "idle"
    /\ queue # <<>>
    /\ queue' = Tail(queue)
    /\ job' = [job EXCEPT ![w] = Head(queue)]
    /\ cookies' = [cookies EXCEPT ![w] =
                      IF scenario.endpoints[Head(queue).ep].session THEN InJar ELSE <<>>]
    /\ pc' = [pc EXCEPT ![w] = "send"]
    /\ UNCHANGED <<schedVars, number, answer, before, sent, results, storeVars, cookieVars>>

\* ... and client.Do adds those of the same jar again.
Send(w) ==
    /\ pc[w] = "send"
    /\ sent' = sent + 1
    /\ number' = [number EXCEPT ![w] = sent + 1]
    /\ before' = [before EXCEPT ![w] = handled]
    /\ cookies' = [cookies EXCEPT ![w] = IF Endpoint(w).session THEN @ \o InJar ELSE @]
    /\ pc' = [pc EXCEPT ![w] = "wait"]
    /\ UNCHANGED <<schedVars, queue, job, answer, results, storeVars, cookieVars>>

\* Of a response to the worker's request.
SetsCookie(w, resp) == Endpoint(w).session /\ resp.cookie

\* The header of the response is there: Do stores its cookies.
GetHeader(w) ==
    /\ pc[w] = "wait"
    /\ \E resp \in Answers(Endpoint(w).name, number[w]) :
          /\ answer' = [answer EXCEPT ![w] = resp]
          /\ jar' = IF SetsCookie(w, resp) THEN number[w] ELSE jar
    /\ pc' = [pc EXCEPT ![w] = "read"]
    /\ UNCHANGED <<schedVars, queue, job, cookies, number, before, sent, results,
                   storeVars, handled, overtaken>>

\* The worker sends its result and is ready for the next job.
Report(w, err, words, json) ==
    /\ results' = Append(results, [ep |-> job[w].ep, err |-> err, words |-> words,
                                   json |-> json, answer |-> answer[w]])
    /\ pc' = [pc EXCEPT ![w] = "idle"]
    /\ job' = [job EXCEPT ![w] = NoJob]
    /\ cookies' = [cookies EXCEPT ![w] = <<>>]
    /\ answer' = [answer EXCEPT ![w] = NoAnswer]
    /\ number' = [number EXCEPT ![w] = 0]
    /\ before' = [before EXCEPT ![w] = {}]
    /\ UNCHANGED <<schedVars, queue, sent, storeVars>>

\* The request cannot be made, or fails: a result without a body.
FailRequest(w) ==
    /\ pc[w] \in {"send", "wait"}
    /\ Report(w, TRUE, <<>>, NoJSON)
    /\ UNCHANGED cookieVars

\* Mutant of SetCookiesAgain: the cookies of the request.
SetCookiesOfRequest(w) ==
    jar' = IF cookies[w] # <<>> THEN Head(cookies[w]) ELSE jar

\* The worker stores the cookies of the response in the same jar itself.
SetCookiesAgain(w) == jar' = IF SetsCookie(w, answer[w]) THEN number[w] ELSE jar

\* What ReadAll returns, its error being dropped: all of the body, or what had
\* come when the run ended, the client's timeout was over, or the server hung up.
Received(resp) ==
    {resp} \cup
    {[resp EXCEPT !.words = SubSeq(resp.words, 1, k),
                  !.json = IF k \in DOMAIN resp.begins THEN resp.begins[k] ELSE NoJSON] :
        k \in 0..(Len(resp.words) - 1)}

\* Then come the expected status and the assertions.
ReadBody(w) ==
    /\ pc[w] = "read"
    /\ SetCookiesAgain(w)
    /\ \E got \in Received(answer[w]) :
          Report(w, \/ Endpoint(w).expectedStatus \notin {"", got.status}
                    \/ ~Passes(Endpoint(w).assertions, got), got.words, got.json)
    /\ handled' = handled \cup {number[w]}
    /\ overtaken' = IF SetsCookie(w, answer[w]) THEN overtaken \cup before[w]
                    ELSE overtaken

Worker(w) == TakeJob(w) \/ Send(w) \/ GetHeader(w) \/ FailRequest(w) \/ ReadBody(w)

-----------------------------------------------------------------------------
\* The aggregator gets a result ...
Count ==
    /\ results # <<>>
    /\ results' = Tail(results)
    /\ UNCHANGED <<schedVars, queue, workerVars, sent, storeVars, cookieVars>>

\* ... or the chain store does: failed ones are stored too, under the first
\* endpoint of that name.
Store ==
    /\ results # <<>>
    /\ results' = Tail(results)
    /\ LET r == Head(results)
           name == scenario.endpoints[r.ep].name
           ep == Named(scenario.endpoints, name)
           found == Extracted(ep, r.json)
       IN IF name = "" \/ r.words = <<>> THEN UNCHANGED storeVars
          ELSE /\ data' = Stored(data, ep, r.json)
               /\ learned' = learned \cup {<<ep.name, v>> : v \in found}
               /\ partial' = (partial \/ found \notin {{}, DOMAIN ep.extract})
    /\ UNCHANGED <<schedVars, queue, workerVars, sent, cookieVars>>

Init ==
    /\ scenario \in Scenarios /\ phase = "load"
    /\ sched = [ep |-> 0, known |-> <<>>, sofar |-> {}]
    /\ built = 0 /\ queue = <<>> /\ sent = 0 /\ results = <<>>
    /\ pc = [w \in Workers |-> "idle"] /\ job = [w \in Workers |-> NoJob]
    /\ cookies = [w \in Workers |-> <<>>] /\ number = [w \in Workers |-> 0]
    /\ answer = [w \in Workers |-> NoAnswer] /\ before = [w \in Workers |-> {}]
    /\ data = <<>> /\ learned = {} /\ partial = FALSE
    /\ jar = 0 /\ handled = {} /\ overtaken = {}

Next ==
    \/ LoadScenario \/ Pick \/ Build \/ Count \/ Store
    \/ \E w \in Workers : Worker(w)

Spec == Init /\ [][Next]_vars

-----------------------------------------------------------------------------
Jobs == {queue[i] : i \in DOMAIN queue} \cup {job[w] : w \in Workers}

PiecesOf(j, tag) ==
    {p \in {j.url[i] : i \in DOMAIN j.url} \cup {j.body[i] : i \in DOMAIN j.body} :
        p[1] = tag}

TypeOK ==
    /\ phase \in {"load", "run", "rejected"}
    /\ sched.ep \in 0..Len(scenario.endpoints)
    /\ built \in 0..MaxJobs /\ sent \in 0..built
    /\ pc \in [Workers -> {"idle", "send", "wait", "read"}]
    /\ number \in [Workers -> 0..sent] /\ before \in [Workers -> SUBSET handled]
    /\ Len(queue) + Cardinality({w \in Workers : pc[w] # "idle"}) + Len(results)
          <= built
    /\ \A k \in DOMAIN data : data[k] # <<>>
    /\ jar \in 0..sent /\ handled \subseteq 1..sent /\ overtaken \subseteq handled

(***************************************************************************)
(* The draws of PickEndpoint that choose an endpoint of a scenario that    *)
(* was accepted are as many as its weight, and at least one, so that       *)
(* rand.Intn has something to draw from (picker.go:16, scenario.go:147).   *)
(***************************************************************************)
PickMatchesWeights ==
    phase = "run" =>
        LET eps == scenario.endpoints IN
        \A i \in DOMAIN eps :
            LET drawn == {r \in Draws(eps) : PickEndpoint(eps, r) = i}
            IN drawn # {} /\ Cardinality(drawn) = eps[i].weight

\* What responses to endpoints of that name may set.
Variables(name) ==
    {<<name, v>> : v \in DOMAIN Named(scenario.endpoints, name).extract}

(***************************************************************************)
(* Of each endpoint, the variables in one request come from one response,  *)
(* in the URL and in the body, or are all missing, whatever is stored      *)
(* meanwhile, provided that each response has all of them or none          *)
(* (chain.go:27, run.go:276).                                              *)
(***************************************************************************)
VariablesPaired ==
    \A j \in Jobs, i \in DOMAIN scenario.endpoints :
        LET its == Variables(scenario.endpoints[i].name)
            of == {p[2][Len(p[2])] : p \in {q \in PiecesOf(j, "value") : q[3] \in its}}
            left == {p[2] : p \in PiecesOf(j, "var")} \cap its
        IN partial \/ (Cardinality(of) <= 1 /\ (of = {} \/ left = {}))

(***************************************************************************)
(* A request that goes out with {{endpoint.variable}} in its URL or body   *)
(* was built before any response with that variable was stored: what is    *)
(* known once stays known (run.go:276-278, chain.go:29).  Its headers and  *)
(* its basic_auth go out as the scenario has them (run.go:334-335).        *)
(***************************************************************************)
ResolvedForGood ==
    \A j \in Jobs : {p[2] : p \in PiecesOf(j, "var")} \cap j.sofar = {}

(***************************************************************************)
(* A request without error had the expected status, and its assertions     *)
(* hold of the response the server sent, although the worker may have seen *)
(* only the beginning of it (worker.go:226-240, assertions.go:40).  Those  *)
(* about JSON fields hold of the document that is its body or, if the body *)
(* was cut after it, of one that the body begins with (assertions.go:165). *)
(***************************************************************************)
SuccessMeansPassed ==
    \A i \in DOMAIN results :
        LET r == results[i]
            ep == scenario.endpoints[r.ep]
        IN ~r.err =>
              /\ ep.expectedStatus \in {"", r.answer.status}
              /\ \E json \in Documents(r.answer) :
                    Passes(ep.assertions, [r.answer EXCEPT !.json = json])

(***************************************************************************)
(* Setting the cookies a second time may bring an older session back, but  *)
(* only one that overlapped with its successor: the jar never holds the    *)
(* cookie of a response that was done with before the request for a later  *)
(* and completed session was sent (worker.go:204, 221-224).                *)
(***************************************************************************)
SessionsInOrder == jar \notin overtaken
=============================================================================

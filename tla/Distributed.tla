----------------------------- MODULE Distributed ----------------------------
(***************************************************************************)
(* A distributed run: controller.Run (internal/controller/controller.go)   *)
(* and the RunScenario handler of its agents (internal/agent/agent.go).    *)
(*                                                                         *)
(* The controller opens one stream to each agent; an agent sends a         *)
(* snapshot of its metrics every second and a last one when its context    *)
(* ends.  A reader goroutine for each stream pushes what it receives into  *)
(* snapCh; one goroutine drains snapCh into the map latest, by the agent's *)
(* configured ID; when every reader has returned snapCh is closed, and     *)
(* after the drain the map becomes the result of the run.                  *)
(*                                                                         *)
(* A snapshot is its TotalRequests field, the agent's configuration entry  *)
(* it came from, and a mark on the last one (both for the properties       *)
(* only).  The stream is an ordered queue (gRPC); an agent may crash or    *)
(* lose its connection, and a cancelled stream may drop what it carries.   *)
(* The agent's pipeline is the one of LoadRun: here it is a count that     *)
(* grows.                                                                  *)
(***************************************************************************)
EXTENDS Integers, Sequences, FiniteSets

CONSTANTS
    Agents,       \* the entries of agents.yaml
    Ids,          \* the values of their id fields
    IdChoices,    \* the ids the entries may have; LoadAgentsFile does not compare them
    SnapBuf,      \* capacity of snapCh (256 in the code)
    MaxRequests,  \* bound: requests an agent counts
    MaxTicks      \* bound: ticks of an agent's one-second ticker

ASSUME DistributedAssumption ==
    /\ Agents # {} /\ IsFiniteSet(Agents)
    /\ IdChoices \subseteq [Agents -> Ids]
    /\ SnapBuf \in Nat \ {0} /\ MaxRequests \in Nat /\ MaxTicks \in Nat

NoSnap == [agent |-> "none"]

VARIABLES
    connected,    \* the connections are not closed yet (one deferred function closes them all)
    idOf,         \* the id of each entry of this run's agents.yaml
    ctrlPc,       \* "start" | "collect" | "done" | "failed"
    interrupted,  \* the controller's context is cancelled (Ctrl+C, SIGTERM)
    agentPc,      \* "idle" | "run" | "join" | "closed" | "broken" | "hung"
    agentTotal,   \* the agent's aggregator
    ticks,        \* ticks the agent's ticker has delivered
    wire,         \* snapshots in flight from each agent
    reader,       \* "off" | "recv" | "push" | "eof" | "error"
    inHand,       \* the snapshot a reader is pushing
    snapCh,       \* the channel of tagged snapshots
    latest,       \* the newest snapshot under each id
    results       \* what buildResults returned

agentVars == <<agentPc, agentTotal, ticks>>
ctrlVars  == <<connected, idOf, reader, inHand, snapCh, latest, results>>
vars == <<ctrlPc, interrupted, agentVars, wire, ctrlVars>>

\* The agent's stream context has ended: the context it was opened with is
\* cancelled, or the controller's connection is closed.
StreamDown == interrupted \/ ~connected

Serving(a) == agentPc[a] \in {"run", "join"}

Snap(a, last) == [agent |-> a, total |-> agentTotal[a], final |-> last]

-----------------------------------------------------------------------------
\* client.RunScenario: the streams are opened one after the other.
OpenStream(a) ==
    /\ ctrlPc = "start"
    /\ agentPc[a] = "idle"
    /\ ~interrupted
    /\ agentPc' = [agentPc EXCEPT ![a] = "run"]
    /\ UNCHANGED <<ctrlPc, interrupted, agentTotal, ticks, wire, ctrlVars>>

\* Mutant of StartFails: the deferred closing is registered after the streams are open.
StartFailsOpen ==
    /\ ctrlPc = "start"
    /\ \E a \in Agents : agentPc[a] = "idle"
    /\ ctrlPc' = "failed"
    /\ UNCHANGED <<interrupted, agentVars, wire, ctrlVars>>

\* One of them cannot be opened: Run returns, and that closes the connections.
StartFails ==
    /\ ctrlPc = "start"
    /\ \E a \in Agents : agentPc[a] = "idle"
    /\ ctrlPc' = "failed" /\ connected' = FALSE
    /\ UNCHANGED <<interrupted, agentVars, wire, idOf, reader, inHand, snapCh, latest, results>>

\* All are open: the readers start.
StartReaders ==
    /\ ctrlPc = "start"
    /\ \A a \in Agents : agentPc[a] # "idle"
    /\ ctrlPc' = "collect"
    /\ reader' = [a \in Agents |-> "recv"]
    /\ UNCHANGED <<connected, idOf, interrupted, agentVars, wire, inHand, snapCh, latest, results>>

-----------------------------------------------------------------------------
\* The agent's pipeline counts a response, also while its handler winds up.
Respond(a) ==
    /\ Serving(a)
    /\ agentTotal[a] < MaxRequests
    /\ agentTotal' = [agentTotal EXCEPT ![a] = @ + 1]
    /\ UNCHANGED <<ctrlPc, interrupted, agentPc, ticks, wire, ctrlVars>>

\* case <-ticker.C: send a snapshot; on a dead stream Send fails and the
\* handler returns its error.
Tick(a) ==
    /\ agentPc[a] = "run"
    /\ ticks[a] < MaxTicks
    /\ ticks' = [ticks EXCEPT ![a] = @ + 1]
    /\ \/ /\ wire' = [wire EXCEPT ![a] = Append(@, Snap(a, FALSE))]
          /\ UNCHANGED agentPc
       \/ /\ StreamDown
          /\ agentPc' = [agentPc EXCEPT ![a] = "broken"]
          /\ UNCHANGED wire
    /\ UNCHANGED <<ctrlPc, interrupted, agentTotal, ctrlVars>>

\* case <-ctx.Done(): the last snapshot goes out before the scheduler is waited
\* for, and an error of Send is ignored.
Finish(a) ==
    /\ agentPc[a] = "run"
    /\ agentPc' = [agentPc EXCEPT ![a] = "join"]
    /\ \/ wire' = [wire EXCEPT ![a] = Append(@, Snap(a, TRUE))]
       \/ StreamDown /\ UNCHANGED wire
    /\ UNCHANGED <<ctrlPc, interrupted, agentTotal, ticks, ctrlVars>>

\* The context ends with its timeout, the stages' time and five seconds: the
\* stages are of any length ...
TimeUp(a) == Finish(a)

\* ... or with the context of the stream, whose child it is.
StreamEnds(a) == StreamDown /\ Finish(a)

\* wg.Wait() returns and so does the handler, with nil.  That closes the stream
\* cleanly unless the controller has left it.
Return(a) ==
    /\ agentPc[a] = "join"
    /\ agentPc' = [agentPc EXCEPT ![a] = IF StreamDown THEN "broken" ELSE "closed"]
    /\ UNCHANGED <<ctrlPc, interrupted, agentTotal, ticks, wire, ctrlVars>>

\* The handler fails early (temporary file, invalid scenario), the agent's process
\* dies, or its connection breaks; or the agent goes silent: stuck, or cut off with
\* no sign of it.  Neither side sets keepalives or deadlines on the stream.
Fail(a) ==
    /\ Serving(a)
    /\ agentPc' \in {[agentPc EXCEPT ![a] = "broken"], [agentPc EXCEPT ![a] = "hung"]}
    /\ UNCHANGED <<ctrlPc, interrupted, agentTotal, ticks, wire, ctrlVars>>

-----------------------------------------------------------------------------
\* Mutant of Recv: the newest snapshot first.
RecvNewest(a) ==
    /\ reader[a] = "recv"
    /\ wire[a] # <<>>
    /\ inHand' = [inHand EXCEPT ![a] = wire[a][Len(wire[a])]]
    /\ wire' = [wire EXCEPT ![a] = SubSeq(@, 1, Len(@) - 1)]
    /\ reader' = [reader EXCEPT ![a] = "push"]
    /\ UNCHANGED <<connected, idOf, ctrlPc, interrupted, agentVars, snapCh, latest, results>>

\* stream.Recv returns the next snapshot ...
Recv(a) ==
    /\ reader[a] = "recv"
    /\ wire[a] # <<>>
    /\ inHand' = [inHand EXCEPT ![a] = Head(wire[a])]
    /\ wire' = [wire EXCEPT ![a] = Tail(@)]
    /\ reader' = [reader EXCEPT ![a] = "push"]
    /\ UNCHANGED <<connected, idOf, ctrlPc, interrupted, agentVars, snapCh, latest, results>>

\* ... or io.EOF, once the handler returned nil and all was received ...
RecvEOF(a) ==
    /\ reader[a] = "recv"
    /\ agentPc[a] = "closed"
    /\ wire[a] = <<>>
    /\ reader' = [reader EXCEPT ![a] = "eof"]
    /\ UNCHANGED <<connected, idOf, ctrlPc, interrupted, agentVars, wire, inHand, snapCh, latest, results>>

\* Mutant of RecvError: the stream is opened with a context of its own.
RecvErrorDetached(a) ==
    /\ reader[a] = "recv"
    /\ agentPc[a] = "broken"
    /\ reader' = [reader EXCEPT ![a] = "error"]
    /\ UNCHANGED <<connected, idOf, ctrlPc, interrupted, agentVars, wire, inHand, snapCh, latest, results>>

\* ... or an error: a failed handler, a broken connection, or the cancelled
\* context.  What is still in flight is dropped.
RecvError(a) ==
    /\ reader[a] = "recv"
    /\ agentPc[a] = "broken" \/ interrupted
    /\ reader' = [reader EXCEPT ![a] = "error"]
    /\ UNCHANGED <<connected, idOf, ctrlPc, interrupted, agentVars, wire, inHand, snapCh, latest, results>>

\* Mutant of Push: a channel without a capacity.
PushUnbounded(a) ==
    /\ reader[a] = "push"
    /\ snapCh' = Append(snapCh, [id |-> idOf[a], snap |-> inHand[a]])
    /\ inHand' = [inHand EXCEPT ![a] = NoSnap]
    /\ reader' = [reader EXCEPT ![a] = "recv"]
    /\ UNCHANGED <<connected, idOf, ctrlPc, interrupted, agentVars, wire, latest, results>>

\* snapCh <- tagged{...}
Push(a) ==
    /\ reader[a] = "push"
    /\ Len(snapCh) < SnapBuf
    /\ snapCh' = Append(snapCh, [id |-> idOf[a], snap |-> inHand[a]])
    /\ inHand' = [inHand EXCEPT ![a] = NoSnap]
    /\ reader' = [reader EXCEPT ![a] = "recv"]
    /\ UNCHANGED <<connected, idOf, ctrlPc, interrupted, agentVars, wire, latest, results>>

\* The draining goroutine: latest[snap.agentID] = snap.snap under the mutex.
Store ==
    /\ ctrlPc = "collect"
    /\ snapCh # <<>>
    /\ latest' = [latest EXCEPT ![Head(snapCh).id] = Head(snapCh).snap]
    /\ snapCh' = Tail(snapCh)
    /\ UNCHANGED <<connected, idOf, ctrlPc, interrupted, agentVars, wire, reader, inHand, results>>

\* Mutant of Collect: it does not wait for the drain (no doneCh).
CollectEarly ==
    /\ ctrlPc = "collect"
    /\ \A a \in Agents : reader[a] \in {"eof", "error"}
    /\ results' = {latest[id] : id \in {i \in Ids : latest[i] # NoSnap}}
    /\ ctrlPc' = "done" /\ connected' = FALSE
    /\ UNCHANGED <<idOf, interrupted, agentVars, wire, reader, inHand, snapCh, latest>>

\* Every reader returned, snapCh is closed and drained, doneCh is closed:
\* buildResults makes one row for each id in the map, and Run returns.
Collect ==
    /\ ctrlPc = "collect"
    /\ \A a \in Agents : reader[a] \in {"eof", "error"}
    /\ snapCh = <<>>
    /\ results' = {latest[id] : id \in {i \in Ids : latest[i] # NoSnap}}
    /\ ctrlPc' = "done" /\ connected' = FALSE
    /\ UNCHANGED <<idOf, interrupted, agentVars, wire, reader, inHand, snapCh, latest>>

Interrupt ==
    /\ ~interrupted
    /\ ctrlPc \in {"start", "collect"}
    /\ interrupted' = TRUE
    /\ UNCHANGED <<ctrlPc, agentVars, wire, ctrlVars>>

-----------------------------------------------------------------------------
Init ==
    /\ idOf \in IdChoices
    /\ ctrlPc = "start" /\ interrupted = FALSE /\ connected = TRUE
    /\ agentPc = [a \in Agents |-> "idle"]
    /\ agentTotal = [a \in Agents |-> 0]
    /\ ticks = [a \in Agents |-> 0]
    /\ wire = [a \in Agents |-> <<>>]
    /\ reader = [a \in Agents |-> "off"]
    /\ inHand = [a \in Agents |-> NoSnap]
    /\ snapCh = <<>>
    /\ latest = [id \in Ids |-> NoSnap]
    /\ results = {}

Starting == (\E a \in Agents : OpenStream(a)) \/ StartFails \/ StartReaders

Agent(a) == Respond(a) \/ Tick(a) \/ TimeUp(a) \/ StreamEnds(a) \/ Return(a)

Reader(a) == Recv(a) \/ RecvEOF(a) \/ RecvError(a) \/ Push(a)

Controller == Starting \/ (\E a \in Agents : Reader(a)) \/ Store \/ Collect

Next ==
    \/ Controller
    \/ \E a \in Agents : Agent(a) \/ Fail(a)
    \/ Interrupt

(***************************************************************************)
(* The controller's goroutines run, and so does the handler of an agent    *)
(* whose stream is down (unless it went silent, Fail).  Nothing is assumed *)
(* of the agent's own timeout: a scenario may last for days.               *)
(***************************************************************************)
Spec ==
    /\ Init /\ [][Next]_vars
    /\ WF_vars(Controller)
    /\ \A a \in Agents : WF_vars(StreamEnds(a))

-----------------------------------------------------------------------------
Snapshots == [agent : Agents, total : 0..MaxRequests, final : BOOLEAN]

TypeOK ==
    /\ idOf \in IdChoices
    /\ ctrlPc \in {"start", "collect", "done", "failed"}
    /\ interrupted \in BOOLEAN /\ connected \in BOOLEAN
    /\ agentPc \in [Agents -> {"idle", "run", "join", "closed", "broken", "hung"}]
    /\ agentTotal \in [Agents -> 0..MaxRequests]
    /\ ticks \in [Agents -> 0..MaxTicks]
    /\ wire \in [Agents -> Seq(Snapshots)]
    /\ reader \in [Agents -> {"off", "recv", "push", "eof", "error"}]
    /\ inHand \in [Agents -> Snapshots \cup {NoSnap}]
    /\ snapCh \in Seq([id : Ids, snap : Snapshots]) /\ Len(snapCh) <= SnapBuf
    /\ latest \in [Ids -> Snapshots \cup {NoSnap}]
    /\ results \subseteq Snapshots

OwnId(a) == \A b \in Agents : idOf[b] = idOf[a] => b = a

(***************************************************************************)
(* An agent whose stream ended cleanly is in the result.  If no other      *)
(* agent has its id, it is there with its last snapshot: neither the       *)
(* buffer of the stream, nor snapCh, nor the closing of snapCh and doneCh  *)
(* (controller.go:101-144, 152-158) lets an older one stand.  Agents that  *)
(* share an id share one row, and which of them it shows is a race.        *)
(***************************************************************************)
CleanFinishIsFinal ==
    ctrlPc = "done" =>
        \A a \in Agents : reader[a] = "eof" =>
            \E s \in results : /\ idOf[s.agent] = idOf[a]
                              /\ OwnId(a) => s.agent = a /\ s.final

(***************************************************************************)
(* The request counts behind the live line and the final table never go    *)
(* down for an agent with an id of its own (controller.go:138-142,         *)
(* 163-182).                                                               *)
(***************************************************************************)
LiveCountsGrow ==
    [][\A a \in Agents : OwnId(a) /\ latest[idOf[a]] # NoSnap
          => latest'[idOf[a]].total >= latest[idOf[a]].total]_vars

(***************************************************************************)
(* Ctrl+C ends the controller although agents may be silent or gone: Recv  *)
(* watches the stream's context, and the readers, the closing goroutine    *)
(* and the drain follow (controller.go:104-144).                           *)
(***************************************************************************)
InterruptReturns == interrupted ~> ctrlPc \in {"done", "failed"}

(***************************************************************************)
(* When Run has returned, whatever the reason (also a start that failed    *)
(* half-way, controller.go:88-90, when some agents are at work and no      *)
(* reader is), no agent goes on until its own timeout: the deferred Close  *)
(* (controller.go:75-79) ends its stream, the stream's context is the      *)
(* parent of the handler's (agent.go:77) and the handler returns.          *)
(***************************************************************************)
AgentsQuiesce ==
    \A a \in Agents :
        (ctrlPc \in {"done", "failed"} /\ agentPc[a] = "run")
            ~> agentPc[a] # "run"
=============================================================================

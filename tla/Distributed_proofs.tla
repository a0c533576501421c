------------------------- MODULE Distributed_proofs -------------------------
(***************************************************************************)
(* Proofs about Distributed, for any agents, any ids in agents.yaml and    *)
(* any capacity of snapCh: its types, that the live counts never go down,  *)
(* and that the snapshot which closes a stream is the one in the result.   *)
(***************************************************************************)
EXTENDS Distributed, SequenceTheorems, TLAPS

\* Where the snapshots are on their way from an agent to the result.
InWire(a) == Range(wire[a])
Held(a) == {inHand[a]} \ {NoSnap}
Queued == {t.snap : t \in Range(snapCh)}
Stored == {latest[id] : id \in Ids} \ {NoSnap}

Tagged == [id : Ids, snap : Snapshots]

\* s was taken before t if they come from the same agent.
Earlier(s, t) == s.agent = t.agent => s.total <= t.total /\ ~s.final

WireOrder == {p \in Snapshots \X Snapshots : Earlier(p[1], p[2])}
QueueOrder == {p \in Tagged \X Tagged : Earlier(p[1].snap, p[2].snap)}

Ordered(q, order) == \A i, j \in DOMAIN q : i < j => <<q[i], q[j]>> \in order

\* Each snapshot is that of its stream, under the id of its agent.
Labelled ==
    /\ \A a \in Agents : \A s \in InWire(a) \cup Held(a) : s.agent = a
    /\ \A a \in Agents : reader[a] = "push" <=> inHand[a] # NoSnap
    /\ \A t \in Range(snapCh) : t.id = idOf[t.snap.agent]
    /\ \A id \in Ids : latest[id] # NoSnap => idOf[latest[id].agent] = id

\* The way from an agent to the map keeps the order of the snapshots.
InOrder ==
    /\ \A a \in Agents : Ordered(wire[a], WireOrder)
    /\ Ordered(snapCh, QueueOrder)
    /\ \A a \in Agents : /\ \A t \in InWire(a), s \in Held(a) \cup Queued \cup Stored : Earlier(s, t)
                         /\ \A t \in Held(a), s \in Queued \cup Stored : Earlier(s, t)
    /\ \A t \in Queued, s \in Stored : Earlier(s, t)

\* No snapshot is ahead of its agent, and none is final before the agent ends.
NotAhead ==
    \A a \in Agents : \A s \in InWire(a) \cup Held(a) \cup Queued \cup Stored :
        s.agent = a => /\ s.total <= agentTotal[a]
                       /\ agentPc[a] \in {"idle", "run"} => ~s.final

\* The agent's last snapshot, or a later one under an id it shares, is in the map.
Delivered(a) ==
    /\ latest[idOf[a]] # NoSnap
    /\ OwnId(a) => latest[idOf[a]].agent = a /\ latest[idOf[a]].final

FinalSent(a) ==
    \/ \E s \in InWire(a) \cup Held(a) \cup Queued : s.agent = a /\ s.final
    \/ Delivered(a)

\* An agent whose stream ended cleanly has sent its last snapshot.
EndsWithFinal ==
    \A a \in Agents : /\ agentPc[a] = "join" => StreamDown \/ FinalSent(a)
                      /\ agentPc[a] = "closed" => FinalSent(a)
                      /\ reader[a] = "eof" => agentPc[a] = "closed" /\ wire[a] = <<>>

\* The readers start together, and the result is read when all have returned.
Phases ==
    /\ ctrlPc = "start" => \A a \in Agents : reader[a] = "off"
    /\ ctrlPc = "done" =>
          /\ snapCh = <<>> /\ \A a \in Agents : reader[a] \in {"eof", "error"}
          /\ results = {latest[id] : id \in {i \in Ids : latest[i] # NoSnap}}

IInv == TypeOK /\ Labelled /\ InOrder /\ NotAhead /\ EndsWithFinal /\ Phases

-----------------------------------------------------------------------------
\* A queue keeps its order when something later is put at its end ...
LEMMA PutInOrder ==
    ASSUME NEW S, NEW order, NEW q \in Seq(S), NEW x \in S,
           Ordered(q, order), \A y \in Range(q) : <<y, x>> \in order
    PROVE  /\ Append(q, x) \in Seq(S) /\ Len(Append(q, x)) = Len(q) + 1
           /\ Range(Append(q, x)) = Range(q) \cup {x}
           /\ Ordered(Append(q, x), order)
<1> DEFINE r == Append(q, x)
<1>1. /\ r \in Seq(S) /\ Len(r) = Len(q) + 1 /\ Len(q) \in Nat
      /\ DOMAIN q = 1..Len(q) /\ DOMAIN r = 1..(Len(q) + 1)
      /\ \A i \in 1..Len(q) : r[i] = q[i]
      /\ r[Len(q) + 1] = x
  BY AppendProperties, LenProperties
<1> HIDE DEF r
<1>2. Range(r) = Range(q) \cup {x}
  BY <1>1 DEF Range
<1>3. ASSUME NEW i \in DOMAIN r, NEW j \in DOMAIN r, i < j
      PROVE  <<r[i], r[j]>> \in order
  <2>1. i \in 1..Len(q) /\ r[i] = q[i] /\ q[i] \in Range(q)
    BY <1>1, <1>3 DEF Range
  <2>2. CASE j = Len(q) + 1
    BY <1>1, <2>1, <2>2
  <2>3. CASE j # Len(q) + 1
    BY <1>1, <1>3, <2>1, <2>3 DEF Ordered
  <2> QED
    BY <2>2, <2>3
<1> QED
  BY <1>1, <1>2, <1>3 DEF Ordered, r

\* ... and when its head is taken, which comes before all that is left.
LEMMA TakeInOrder ==
    ASSUME NEW S, NEW order, NEW q \in Seq(S), q # <<>>, Ordered(q, order)
    PROVE  /\ Tail(q) \in Seq(S) /\ Len(Tail(q)) = Len(q) - 1
           /\ Head(q) \in S /\ Range(q) = {Head(q)} \cup Range(Tail(q))
           /\ Ordered(Tail(q), order)
           /\ \A y \in Range(Tail(q)) : <<Head(q), y>> \in order
<1> DEFINE r == Tail(q)
           h == Head(q)
<1>1. /\ r \in Seq(S) /\ Len(r) = Len(q) - 1 /\ Len(q) \in Nat \ {0} /\ h \in S
      /\ DOMAIN q = 1..Len(q) /\ DOMAIN r = 1..(Len(q) - 1)
      /\ \A i \in 1..(Len(q) - 1) : r[i] = q[i + 1]
      /\ h = q[1]
  BY HeadTailProperties, LenProperties, EmptySeq
<1> HIDE DEF r, h
<1>2. Range(q) = {h} \cup Range(r)
  <2>1. ASSUME NEW i \in DOMAIN q PROVE q[i] \in {h} \cup Range(r)
    <3>1. CASE i = 1
      BY <1>1, <3>1
    <3>2. CASE i # 1
      <4>1. i - 1 \in DOMAIN r /\ r[i - 1] = q[i]
        BY <1>1, <3>2
      <4> QED
        BY <4>1 DEF Range
    <3> QED
      BY <3>1, <3>2
  <2>2. ASSUME NEW i \in DOMAIN r PROVE r[i] \in Range(q)
    BY <1>1 DEF Range
  <2>3. h \in Range(q)
    BY <1>1 DEF Range
  <2> QED
    BY <2>1, <2>2, <2>3 DEF Range
<1>3. ASSUME NEW i \in DOMAIN r, NEW j \in DOMAIN r, i < j
      PROVE  <<r[i], r[j]>> \in order
  <2>1. i + 1 \in DOMAIN q /\ j + 1 \in DOMAIN q /\ i + 1 < j + 1
    BY <1>1, <1>3
  <2> QED
    BY <1>1, <2>1 DEF Ordered
<1>4. ASSUME NEW i \in DOMAIN r PROVE <<h, r[i]>> \in order
  <2>1. 1 \in DOMAIN q /\ i + 1 \in DOMAIN q /\ 1 < i + 1
    BY <1>1
  <2> QED
    BY <1>1, <2>1 DEF Ordered
<1> QED
  BY <1>1, <1>2, <1>3, <1>4 DEF Ordered, Range, r, h

\* The kinds of values.
LEMMA Values ==
    ASSUME TypeOK
    PROVE  /\ NoSnap \notin Snapshots
           /\ \A a \in Agents : /\ InWire(a) \subseteq Snapshots /\ Held(a) \subseteq Snapshots
                               /\ wire[a] \in Seq(Snapshots)
                               /\ agentTotal[a] \in 0..MaxRequests /\ idOf[a] \in Ids
           /\ Queued \subseteq Snapshots /\ Stored \subseteq Snapshots
           /\ snapCh \in Seq(Tagged) /\ Range(snapCh) \subseteq Tagged
           /\ MaxRequests \in Nat
<1>1. NoSnap \notin Snapshots
  <2>1. ASSUME NoSnap \in Snapshots PROVE FALSE
    <3>1. DOMAIN NoSnap = {"agent", "total", "final"}
      BY <2>1 DEF Snapshots
    <3>2. DOMAIN NoSnap = {"agent"}
      BY DEF NoSnap
    <3> QED
      BY <3>1, <3>2
  <2> QED
    BY <2>1
<1>2. ASSUME NEW S, NEW q \in Seq(S) PROVE Range(q) \subseteq S
  BY DEF Range
<1>3. snapCh \in Seq(Tagged) /\ Range(snapCh) \subseteq Tagged
  BY <1>2 DEF TypeOK, Tagged
<1>4. \A a \in Agents : wire[a] \in Seq(Snapshots) /\ InWire(a) \subseteq Snapshots
  BY <1>2 DEF TypeOK, InWire
<1>5. \A a \in Agents : Held(a) \subseteq Snapshots
  BY DEF TypeOK, Held
<1>6. Queued \subseteq Snapshots /\ Stored \subseteq Snapshots
  BY <1>3 DEF Queued, Tagged, Stored, TypeOK
<1>7. \A a \in Agents : agentTotal[a] \in 0..MaxRequests /\ idOf[a] \in Ids
  BY DistributedAssumption DEF TypeOK
<1> QED
  BY <1>1, <1>3, <1>4, <1>5, <1>6, <1>7, DistributedAssumption
-----------------------------------------------------------------------------
\* The types.
LEMMA StartTypes ==
    ASSUME TypeOK, Starting \/ Interrupt
    PROVE  TypeOK'
<1> USE DEF TypeOK, ctrlVars, agentVars
<1>1. CASE \E a \in Agents : OpenStream(a)
  <2>1. PICK a \in Agents : OpenStream(a)
    BY <1>1
  <2> QED
    BY <2>1 DEF OpenStream
<1>2. CASE StartFails
  BY <1>2 DEF StartFails
<1>3. CASE StartReaders
  BY <1>3 DEF StartReaders
<1>4. CASE Interrupt
  BY <1>4 DEF Interrupt
<1> QED
  BY <1>1, <1>2, <1>3, <1>4 DEF Starting

\* A snapshot is one of the kind, and so is the queue it is put into.
LEMMA SendTypes ==
    ASSUME TypeOK, NEW a \in Agents, NEW last \in BOOLEAN
    PROVE  /\ Snap(a, last) \in Snapshots
           /\ [wire EXCEPT ![a] = Append(@, Snap(a, last))] \in [Agents -> Seq(Snapshots)]
<1>1. Snap(a, last) \in Snapshots
  BY DEF TypeOK, Snap, Snapshots
<1>2. wire[a] \in Seq(Snapshots) /\ wire \in [Agents -> Seq(Snapshots)]
  BY DEF TypeOK
<1>3. Append(wire[a], Snap(a, last)) \in Seq(Snapshots)
  BY <1>1, <1>2, AppendProperties
<1> QED
  BY <1>1, <1>2, <1>3

LEMMA AgentTypes ==
    ASSUME TypeOK, NEW a \in Agents, Agent(a) \/ Fail(a)
    PROVE  TypeOK'
<1>0. \A last \in BOOLEAN :
          [wire EXCEPT ![a] = Append(@, Snap(a, last))] \in [Agents -> Seq(Snapshots)]
  BY SendTypes
<1> USE DistributedAssumption DEF TypeOK, ctrlVars, agentVars
<1>1. CASE Respond(a)
  BY <1>1 DEF Respond
<1>2. CASE Tick(a)
  <2>1. ticks' \in [Agents -> 0..MaxTicks]
    BY <1>2 DEF Tick
  <2>2. wire' \in [Agents -> Seq(Snapshots)]
    BY <1>0, <1>2 DEF Tick
  <2> QED
    BY <1>2, <2>1, <2>2 DEF Tick
<1>3. CASE TimeUp(a) \/ StreamEnds(a)
  BY <1>0, <1>3 DEF Finish, TimeUp, StreamEnds
<1>4. CASE Return(a)
  BY <1>4 DEF Return
<1>5. CASE Fail(a)
  BY <1>5 DEF Fail
<1> QED
  BY <1>1, <1>2, <1>3, <1>4, <1>5 DEF Agent

LEMMA ReaderTypes ==
    ASSUME TypeOK, Labelled, NEW a \in Agents, Reader(a)
    PROVE  TypeOK'
<1> USE DistributedAssumption DEF TypeOK, ctrlVars, agentVars
<1>1. CASE Recv(a)
  <2>1. wire[a] \in Seq(Snapshots) /\ wire[a] # <<>>
    BY <1>1 DEF Recv
  <2>2. Head(wire[a]) \in Snapshots /\ Tail(wire[a]) \in Seq(Snapshots)
    BY <2>1, HeadTailProperties
  <2> QED
    BY <1>1, <2>2 DEF Recv
<1>2. CASE RecvEOF(a)
  BY <1>2 DEF RecvEOF
<1>3. CASE RecvError(a)
  BY <1>3 DEF RecvError
<1>4. CASE Push(a)
  <2> DEFINE tag == [id |-> idOf[a], snap |-> inHand[a]]
  <2>1. inHand[a] \in Snapshots /\ idOf[a] \in Ids
    BY <1>4 DEF Push, Labelled
  <2>2. tag \in Tagged /\ snapCh \in Seq(Tagged)
    BY <2>1 DEF Tagged
  <2>3. /\ Append(snapCh, tag) \in Seq(Tagged)
        /\ Len(Append(snapCh, tag)) = Len(snapCh) + 1 /\ Len(snapCh) \in Nat
    BY <2>2, AppendProperties, LenProperties
  <2>4. Len(snapCh) + 1 <= SnapBuf
    BY <1>4, <2>3 DEF Push
  <2>5. snapCh' \in Seq([id : Ids, snap : Snapshots]) /\ Len(snapCh') <= SnapBuf
    BY <1>4, <2>3, <2>4 DEF Push, Tagged
  <2> QED
    BY <1>4, <2>5 DEF Push
<1> QED
  BY <1>1, <1>2, <1>3, <1>4 DEF Reader

LEMMA DrainTypes ==
    ASSUME TypeOK, Store \/ Collect
    PROVE  TypeOK'
<1> USE DistributedAssumption DEF TypeOK, ctrlVars, agentVars
<1>1. CASE Store
  <2>1. snapCh \in Seq(Tagged) /\ snapCh # <<>>
    BY <1>1 DEF Store, Tagged
  <2>2. /\ Head(snapCh) \in Tagged /\ Tail(snapCh) \in Seq(Tagged)
        /\ Len(Tail(snapCh)) = Len(snapCh) - 1 /\ Len(snapCh) \in Nat
    BY <2>1, HeadTailProperties, LenProperties
  <2>3. Head(snapCh).id \in Ids /\ Head(snapCh).snap \in Snapshots
    BY <2>2 DEF Tagged
  <2>4. Len(snapCh) - 1 <= SnapBuf
    BY <2>2
  <2>5. snapCh' \in Seq([id : Ids, snap : Snapshots]) /\ Len(snapCh') <= SnapBuf
    BY <1>1, <2>2, <2>4 DEF Store, Tagged
  <2>6. latest' \in [Ids -> Snapshots \cup {NoSnap}]
    BY <1>1, <2>3 DEF Store
  <2> QED
    BY <1>1, <2>5, <2>6 DEF Store
<1>2. CASE Collect
  <2>1. results' \subseteq Snapshots
    BY <1>2 DEF Collect
  <2> QED
    BY <1>2, <2>1 DEF Collect
<1> QED
  BY <1>1, <1>2

-----------------------------------------------------------------------------
\* The steps that move no snapshot.
LEMMA QuietStep ==
    ASSUME IInv, TypeOK', UNCHANGED <<idOf, wire, inHand, snapCh, latest>>,
           \A a \in Agents : /\ agentTotal[a] <= agentTotal'[a]
                             /\ agentPc'[a] \in {"idle", "run"} => agentPc[a] \in {"idle", "run"}
                             /\ reader'[a] = "push" <=> reader[a] = "push"
    PROVE  /\ Labelled' /\ InOrder' /\ NotAhead'
           /\ \A a \in Agents : FinalSent(a) => FinalSent(a)'
<1> USE DEF IInv
<1>1. /\ \A a : InWire(a)' = InWire(a) /\ Held(a)' = Held(a)
      /\ Queued' = Queued /\ Stored' = Stored
  BY DEF InWire, Held, Queued, Stored
<1>2. Labelled'
  BY <1>1 DEF Labelled
<1>3. InOrder'
  BY <1>1 DEF InOrder
<1>4. NotAhead'
  <2> SUFFICES ASSUME NEW a \in Agents, NEW s \in InWire(a) \cup Held(a) \cup Queued \cup Stored,
                      s.agent = a
               PROVE  /\ s.total <= agentTotal'[a]
                      /\ agentPc'[a] \in {"idle", "run"} => ~s.final
    BY <1>1 DEF NotAhead
  <2>1. s.total \in Int
    BY Values DEF Snapshots
  <2>2. agentTotal[a] \in Int /\ agentTotal'[a] \in Int
    BY DEF TypeOK
  <2>3. s.total <= agentTotal[a] /\ agentTotal[a] <= agentTotal'[a]
    BY DEF NotAhead
  <2>4. agentPc'[a] \in {"idle", "run"} => ~s.final
    BY DEF NotAhead
  <2> QED
    BY <2>1, <2>2, <2>3, <2>4
<1>5. ASSUME NEW a \in Agents, FinalSent(a) PROVE FinalSent(a)'
  BY <1>1, <1>5 DEF FinalSent, Delivered, OwnId
<1> QED
  BY <1>2, <1>3, <1>4, <1>5
\* The steps of the agents' handlers and of the readers in that form.  Their last
\* three parts say where an end of a stream comes from.
LEMMA QuietSteps ==
    ASSUME IInv, TypeOK', NEW a \in Agents,
           \/ OpenStream(a) \/ StartFails \/ StartReaders \/ Interrupt \/ Collect
           \/ Respond(a) \/ (Tick(a) /\ UNCHANGED wire)
           \/ (Finish(a) /\ StreamDown /\ UNCHANGED wire)
           \/ Return(a) \/ Fail(a) \/ RecvEOF(a) \/ RecvError(a)
           \/ UNCHANGED vars
    PROVE  Labelled' /\ InOrder' /\ NotAhead' /\ EndsWithFinal' /\ Phases'
<1> USE DEF ctrlVars, agentVars
<1>t. TypeOK
  BY DEF IInv
<1>1. UNCHANGED <<idOf, wire, inHand, snapCh, latest>>
  BY DEF OpenStream, StartFails, StartReaders, Interrupt, Collect, Respond, Tick, Finish, TimeUp, StreamEnds, Return,
         Fail, RecvEOF, RecvError, vars
<1>2. \A b \in Agents : agentTotal[b] <= agentTotal'[b]
  <2>1. \A b \in Agents : agentTotal[b] \in Int /\ agentTotal \in [Agents -> 0..MaxRequests]
    BY <1>t DEF TypeOK
  <2>2. CASE Respond(a)
    BY <2>1, <2>2 DEF Respond
  <2>3. CASE ~Respond(a)
    <3>1. agentTotal' = agentTotal
      BY <2>3 DEF OpenStream, StartFails, StartReaders, Interrupt, Collect, Tick, Finish, TimeUp, StreamEnds, Return,
                  Fail, RecvEOF, RecvError, vars
    <3> QED
      BY <2>1, <3>1
  <2> QED
    BY <2>2, <2>3
<1>3. ASSUME NEW b \in Agents
      PROVE  /\ agentPc'[b] \in {"idle", "run"} => agentPc[b] \in {"idle", "run"}
             /\ agentPc[b] = "closed" => agentPc'[b] = "closed"
             /\ agentPc'[b] = "join" => agentPc[b] = "join" \/ StreamDown
             /\ agentPc'[b] = "closed" =>
                   agentPc[b] = "closed" \/ (agentPc[b] = "join" /\ ~StreamDown)
  <2>1. agentPc \in [Agents -> {"idle", "run", "join", "closed", "broken", "hung"}]
    BY <1>t DEF TypeOK
  <2>2. CASE OpenStream(a)
    BY <2>1, <2>2 DEF OpenStream
  <2>3. CASE Tick(a) /\ UNCHANGED wire
    BY <2>1, <2>3 DEF Tick
  <2>4. CASE Finish(a) /\ StreamDown
    BY <2>1, <2>4 DEF Finish
  <2>5. CASE Return(a)
    BY <2>1, <2>5 DEF Return
  <2>6. CASE Fail(a)
    BY <2>1, <2>6 DEF Fail, Serving
  <2>7. CASE UNCHANGED agentPc
    BY <2>7
  <2> QED
    BY <2>2, <2>3, <2>4, <2>5, <2>6, <2>7
    DEF StartFails, StartReaders, Interrupt, Collect, Respond, RecvEOF, RecvError, vars
<1>4. ASSUME NEW b \in Agents
      PROVE  /\ reader'[b] = "push" <=> reader[b] = "push"
             /\ reader'[b] = "eof" => reader[b] = "eof" \/ (agentPc[b] = "closed" /\ wire[b] = <<>>)
  <2>1. reader \in [Agents -> {"off", "recv", "push", "eof", "error"}]
    BY <1>t DEF TypeOK
  <2>2. CASE StartReaders
    BY <2>1, <2>2 DEF StartReaders, IInv, Phases
  <2>3. CASE RecvEOF(a)
    BY <2>1, <2>3 DEF RecvEOF
  <2>4. CASE RecvError(a)
    BY <2>1, <2>4 DEF RecvError
  <2>5. CASE UNCHANGED reader
    BY <2>5
  <2> QED
    BY <2>2, <2>3, <2>4, <2>5
    DEF OpenStream, StartFails, Interrupt, Collect, Respond, Tick, Finish, TimeUp, StreamEnds, Return, Fail, vars
<1>5. /\ Labelled' /\ InOrder' /\ NotAhead'
      /\ \A b \in Agents : FinalSent(b) => FinalSent(b)'
  BY <1>1, <1>2, <1>3, <1>4, QuietStep
<1>6. StreamDown => StreamDown'
  BY DEF StreamDown, OpenStream, StartFails, StartReaders, Interrupt, Collect, Respond, Tick,
         Finish, TimeUp, StreamEnds, Return, Fail, RecvEOF, RecvError, vars
<1>7. EndsWithFinal'
  BY <1>1, <1>3, <1>4, <1>5, <1>6 DEF IInv, EndsWithFinal
<1>8. Phases'
  <2>1. CASE Collect
    BY <2>1 DEF Collect, Phases
  <2>2. CASE StartReaders
    BY <2>2 DEF StartReaders, Phases
  <2>3. CASE ~Collect /\ ~StartReaders
    <3>1. ctrlPc' \in {"start", "done"} => ctrlPc' = ctrlPc
      BY <2>3 DEF OpenStream, StartFails, Interrupt, Respond, Tick, Finish, TimeUp, StreamEnds, Return, Fail,
                  RecvEOF, RecvError, vars
    <3>2. CASE UNCHANGED <<reader, results>>
      BY <1>1, <3>1, <3>2 DEF IInv, Phases
    <3>3. CASE RecvEOF(a) \/ RecvError(a)
      BY <3>1, <3>3 DEF RecvEOF, RecvError, IInv, Phases
    <3> QED
      BY <2>3, <3>2, <3>3 DEF OpenStream, StartFails, Interrupt, Respond, Tick, Finish, TimeUp, StreamEnds, Return,
                              Fail, vars
  <2> QED
    BY <2>1, <2>2, <2>3
<1> QED
  BY <1>5, <1>7, <1>8
-----------------------------------------------------------------------------
\* An agent sends: what it sends comes after all that it has sent before.
LEMMA SendStep ==
    ASSUME IInv, TypeOK', NEW a \in Agents, NEW last \in BOOLEAN, agentPc[a] = "run",
           wire' = [wire EXCEPT ![a] = Append(@, Snap(a, last))],
           agentPc' = IF last THEN [agentPc EXCEPT ![a] = "join"] ELSE agentPc,
           UNCHANGED <<connected, idOf, ctrlPc, interrupted, agentTotal, reader, inHand, snapCh, latest, results>>
    PROVE  Labelled' /\ InOrder' /\ NotAhead' /\ EndsWithFinal' /\ Phases'
<1>t. TypeOK
  BY DEF IInv
<1>0. PICK x : x = Snap(a, last)
  OBVIOUS
<1>1. x \in Snapshots /\ x.agent = a /\ x.total = agentTotal[a] /\ x.final = last
  BY <1>0, <1>t, SendTypes DEF Snap
<1>2. /\ wire[a] \in Seq(Snapshots) /\ wire' = [wire EXCEPT ![a] = Append(wire[a], x)]
      /\ wire \in [Agents -> Seq(Snapshots)]
      /\ agentPc \in [Agents -> {"idle", "run", "join", "closed", "broken", "hung"}]
  BY <1>0, <1>t DEF TypeOK
<1>3. \A s \in InWire(a) \cup Held(a) \cup Queued \cup Stored : Earlier(s, x)
  BY <1>1 DEF IInv, NotAhead, Earlier
<1>4. \A s \in Range(wire[a]) : <<s, x>> \in WireOrder
  BY <1>t, <1>1, <1>3, Values DEF InWire, WireOrder
<1>5. InWire(a)' = InWire(a) \cup {x} /\ Ordered(wire'[a], WireOrder)
  <2>1. Ordered(wire[a], WireOrder)
    BY DEF IInv, InOrder
  <2>2. /\ Range(Append(wire[a], x)) = Range(wire[a]) \cup {x}
        /\ Ordered(Append(wire[a], x), WireOrder)
    BY <1>1, <1>2, <1>4, <2>1, PutInOrder
  <2> QED
    BY <1>2, <2>2 DEF InWire
<1>6. /\ \A b \in Agents \ {a} : InWire(b)' = InWire(b) /\ wire'[b] = wire[b]
      /\ \A b \in Agents : Held(b)' = Held(b)
      /\ Queued' = Queued /\ Stored' = Stored
  BY <1>2 DEF InWire, Held, Queued, Stored
<1>7. Labelled'
  BY <1>1, <1>5, <1>6 DEF IInv, Labelled
<1>8. InOrder'
  <2>1. \A b \in Agents : Ordered(wire'[b], WireOrder)
    BY <1>5, <1>6 DEF IInv, InOrder
  <2>2. ASSUME NEW b \in Agents, NEW t \in InWire(b)', NEW s \in Held(b) \cup Queued \cup Stored
        PROVE  Earlier(s, t)
    <3>1. CASE t \in InWire(b)
      BY <2>2, <3>1 DEF IInv, InOrder
    <3>2. CASE t \notin InWire(b)
      <4>1. b = a /\ t = x
        BY <1>5, <1>6, <2>2, <3>2
      <4> QED
        BY <1>3, <2>2, <4>1
    <3> QED
      BY <3>1, <3>2
  <2> QED
    BY <1>6, <2>1, <2>2 DEF IInv, InOrder
<1>9. NotAhead'
  <2> SUFFICES ASSUME NEW b \in Agents,
                      NEW s \in InWire(b)' \cup Held(b) \cup Queued \cup Stored, s.agent = b
               PROVE  /\ s.total <= agentTotal[b]
                      /\ agentPc'[b] \in {"idle", "run"} => ~s.final
    BY <1>6 DEF NotAhead
  <2>1. CASE s \in InWire(b) \cup Held(b) \cup Queued \cup Stored
    <3>1. /\ s.total <= agentTotal[b]
          /\ agentPc[b] \in {"idle", "run"} => ~s.final
      BY <2>1 DEF IInv, NotAhead
    <3>2. agentPc'[b] \in {"idle", "run"} => agentPc[b] \in {"idle", "run"}
      BY <1>2
    <3> QED
      BY <3>1, <3>2
  <2>2. CASE s \notin InWire(b) \cup Held(b) \cup Queued \cup Stored
    <3>1. b = a /\ s = x
      BY <1>5, <1>6, <2>2
    <3>2. x.total <= agentTotal[a]
      BY <1>1, <1>t DEF TypeOK
    <3>3. last => agentPc'[a] = "join"
      BY <1>2
    <3> QED
      BY <1>1, <3>1, <3>2, <3>3
  <2> QED
    BY <2>1, <2>2
<1>10. \A b \in Agents : FinalSent(b) => FinalSent(b)'
  BY <1>5, <1>6 DEF FinalSent, Delivered, OwnId
<1>11. EndsWithFinal'
  <2> SUFFICES ASSUME NEW b \in Agents
               PROVE  /\ agentPc'[b] = "join" => StreamDown' \/ FinalSent(b)'
                      /\ agentPc'[b] = "closed" => FinalSent(b)'
                      /\ reader'[b] = "eof" => agentPc'[b] = "closed" /\ wire'[b] = <<>>
    BY DEF EndsWithFinal
  <2>1. CASE b = a
    <3>1. last => FinalSent(a)'
      BY <1>1, <1>5 DEF FinalSent
    <3>2. agentPc'[a] = IF last THEN "join" ELSE "run"
      BY <1>2
    <3>3. reader[a] # "eof"
      BY DEF IInv, EndsWithFinal
    <3> QED
      BY <2>1, <3>1, <3>2, <3>3
  <2>2. CASE b # a
    <3>1. agentPc'[b] = agentPc[b] /\ wire'[b] = wire[b] /\ StreamDown' = StreamDown
      BY <1>2, <2>2 DEF StreamDown
    <3> QED
      BY <1>10, <3>1 DEF IInv, EndsWithFinal
  <2> QED
    BY <2>1, <2>2
<1>12. Phases'
  BY DEF IInv, Phases
<1> QED
  BY <1>7, <1>8, <1>9, <1>11, <1>12

\* A reader takes the oldest snapshot of its stream.
LEMMA RecvStep ==
    ASSUME IInv, TypeOK', NEW a \in Agents, Recv(a)
    PROVE  Labelled' /\ InOrder' /\ NotAhead' /\ EndsWithFinal' /\ Phases'
<1>t. TypeOK
  BY DEF IInv
<1>0. PICK x : x = Head(wire[a])
  OBVIOUS
<1>1. /\ wire[a] \in Seq(Snapshots) /\ wire[a] # <<>> /\ reader[a] = "recv"
      /\ wire' = [wire EXCEPT ![a] = Tail(wire[a])] /\ inHand' = [inHand EXCEPT ![a] = x]
      /\ reader' = [reader EXCEPT ![a] = "push"]
      /\ wire \in [Agents -> Seq(Snapshots)] /\ inHand \in [Agents -> Snapshots \cup {NoSnap}]
      /\ reader \in [Agents -> {"off", "recv", "push", "eof", "error"}]
      /\ UNCHANGED <<connected, idOf, ctrlPc, interrupted, agentPc, agentTotal, snapCh, latest, results>>
  BY <1>0, <1>t DEF Recv, TypeOK, agentVars
<1>2. /\ x \in Snapshots /\ InWire(a) = {x} \cup InWire(a)'
      /\ Ordered(wire'[a], WireOrder) /\ \A t \in InWire(a)' : Earlier(x, t)
  <2>1. Ordered(wire[a], WireOrder)
    BY DEF IInv, InOrder
  <2>2. /\ x \in Snapshots /\ Range(wire[a]) = {x} \cup Range(Tail(wire[a]))
        /\ Ordered(Tail(wire[a]), WireOrder)
        /\ \A t \in Range(Tail(wire[a])) : <<x, t>> \in WireOrder
    BY <1>0, <1>1, <2>1, TakeInOrder
  <2> QED
    BY <1>1, <2>2 DEF InWire, WireOrder
<1>3. inHand[a] = NoSnap /\ Held(a) = {} /\ Held(a)' = {x} /\ x # NoSnap
  BY <1>t, <1>1, <1>2, Values DEF IInv, Labelled, Held
<1>4. /\ \A b \in Agents \ {a} : InWire(b)' = InWire(b) /\ wire'[b] = wire[b] /\ Held(b)' = Held(b)
      /\ Queued' = Queued /\ Stored' = Stored
  BY <1>1 DEF InWire, Held, Queued, Stored
<1>5. \A b \in Agents : (InWire(b) \cup Held(b))' = InWire(b) \cup Held(b)
  BY <1>2, <1>3, <1>4
<1>6. Labelled'
  <2>1. ASSUME NEW b \in Agents
        PROVE  /\ \A s \in InWire(b)' \cup Held(b)' : s.agent = b
               /\ reader'[b] = "push" <=> inHand'[b] # NoSnap
    BY <1>1, <1>3, <1>5 DEF IInv, Labelled
  <2> QED
    BY <1>1, <2>1 DEF IInv, Labelled
<1>7. InOrder'
  <2>1. \A b \in Agents : Ordered(wire'[b], WireOrder)
    BY <1>2, <1>4 DEF IInv, InOrder
  <2>2. ASSUME NEW b \in Agents
        PROVE  /\ \A t \in InWire(b)', s \in Held(b)' \cup Queued \cup Stored : Earlier(s, t)
               /\ \A t \in Held(b)', s \in Queued \cup Stored : Earlier(s, t)
    <3>1. CASE b = a
      BY <1>2, <1>3, <3>1 DEF IInv, InOrder
    <3>2. CASE b # a
      BY <1>4, <3>2 DEF IInv, InOrder
    <3> QED
      BY <3>1, <3>2
  <2> QED
    BY <1>1, <1>4, <2>1, <2>2 DEF IInv, InOrder
<1>8. NotAhead'
  BY <1>1, <1>4, <1>5 DEF IInv, NotAhead
<1>9. \A b \in Agents : FinalSent(b) => FinalSent(b)'
  BY <1>1, <1>4, <1>5 DEF FinalSent, Delivered, OwnId
<1>10. EndsWithFinal'
  <2>1. \A b \in Agents : reader'[b] = "eof" => b # a /\ reader[b] = "eof"
    BY <1>1
  <2> QED
    BY <1>1, <1>4, <1>9, <2>1 DEF IInv, EndsWithFinal, StreamDown
<1>11. Phases'
  BY <1>1 DEF IInv, Phases
<1> QED
  BY <1>6, <1>7, <1>8, <1>10, <1>11
\* It puts the snapshot into snapCh, behind all those of the same agent.
LEMMA PushStep ==
    ASSUME IInv, TypeOK', NEW a \in Agents, Push(a)
    PROVE  Labelled' /\ InOrder' /\ NotAhead' /\ EndsWithFinal' /\ Phases'
<1>t. TypeOK
  BY DEF IInv
<1>0. PICK x, tag : x = inHand[a] /\ tag = [id |-> idOf[a], snap |-> x]
  OBVIOUS
<1>1. /\ reader[a] = "push" /\ reader' = [reader EXCEPT ![a] = "recv"]
      /\ inHand' = [inHand EXCEPT ![a] = NoSnap] /\ snapCh' = Append(snapCh, tag)
      /\ inHand \in [Agents -> Snapshots \cup {NoSnap}]
      /\ reader \in [Agents -> {"off", "recv", "push", "eof", "error"}]
      /\ snapCh \in Seq(Tagged)
      /\ UNCHANGED <<connected, idOf, ctrlPc, interrupted, agentPc, agentTotal, wire, latest, results>>
  BY <1>0, <1>t DEF Push, TypeOK, Tagged, agentVars
<1>2. /\ x \in Snapshots /\ x.agent = a /\ tag \in Tagged /\ tag.snap = x /\ tag.id = idOf[a]
      /\ Held(a) = {x} /\ Held(a)' = {}
  <2>1. x \in Snapshots /\ x # NoSnap /\ Held(a) = {x} /\ Held(a)' = {}
    BY <1>0, <1>1, <1>t, Values DEF IInv, Labelled, Held
  <2>2. x.agent = a /\ idOf[a] \in Ids
    BY <1>t, <2>1, Values DEF IInv, Labelled
  <2> QED
    BY <1>0, <2>1, <2>2 DEF Tagged
<1>3. /\ Range(snapCh') = Range(snapCh) \cup {tag} /\ Ordered(snapCh', QueueOrder)
      /\ Queued' = Queued \cup {x}
  <2>1. ASSUME NEW y \in Range(snapCh) PROVE <<y, tag>> \in QueueOrder
    <3>1. y \in Tagged /\ y.snap \in Queued
      BY <1>t, Values DEF Queued
    <3>2. Earlier(y.snap, x)
      BY <1>2, <3>1 DEF IInv, InOrder
    <3> QED
      BY <1>2, <3>1, <3>2 DEF QueueOrder
  <2>2. Ordered(snapCh, QueueOrder)
    BY DEF IInv, InOrder
  <2>3. Range(snapCh') = Range(snapCh) \cup {tag} /\ Ordered(snapCh', QueueOrder)
    BY <1>1, <1>2, <2>1, <2>2, PutInOrder
  <2> QED
    BY <1>2, <2>3 DEF Queued
<1>4. /\ \A b \in Agents : InWire(b)' = InWire(b)
      /\ \A b \in Agents \ {a} : Held(b)' = Held(b)
      /\ Stored' = Stored
  BY <1>1 DEF InWire, Held, Stored
<1>5. Labelled'
  <2>1. ASSUME NEW b \in Agents
        PROVE  /\ \A s \in InWire(b)' \cup Held(b)' : s.agent = b
               /\ reader'[b] = "push" <=> inHand'[b] # NoSnap
    BY <1>1, <1>2, <1>4 DEF IInv, Labelled
  <2>2. \A t \in Range(snapCh') : t.id = idOf[t.snap.agent]
    BY <1>2, <1>3 DEF IInv, Labelled
  <2> QED
    BY <1>1, <2>1, <2>2 DEF IInv, Labelled
<1>6. InOrder'
  <2>1. ASSUME NEW b \in Agents
        PROVE  /\ \A t \in InWire(b), s \in Held(b)' \cup (Queued \cup {x}) \cup Stored : Earlier(s, t)
               /\ \A t \in Held(b)', s \in (Queued \cup {x}) \cup Stored : Earlier(s, t)
    <3>1. CASE b = a
      BY <1>2, <3>1 DEF IInv, InOrder
    <3>2. CASE b # a
      <4>1. Held(b)' = Held(b)
        BY <1>4, <3>2
      <4>2. \A t \in InWire(b) \cup Held(b) : Earlier(x, t)
        BY <1>2, <3>2 DEF IInv, Labelled, Earlier
      <4> QED
        BY <4>1, <4>2 DEF IInv, InOrder
    <3> QED
      BY <3>1, <3>2
  <2>2. \A t \in Queued \cup {x}, s \in Stored : Earlier(s, t)
    BY <1>2 DEF IInv, InOrder
  <2>3. \A b \in Agents : Ordered(wire'[b], WireOrder)
    BY <1>1 DEF IInv, InOrder
  <2> QED
    BY <1>3, <1>4, <2>1, <2>2, <2>3 DEF InOrder
<1>7. NotAhead'
  <2>1. \A b \in Agents : \A s \in (InWire(b) \cup Held(b) \cup Queued \cup Stored)' :
            s \in InWire(b) \cup Held(b) \cup Queued \cup Stored \/ s = x
    BY <1>2, <1>3, <1>4
  <2>2. x.agent = a /\ x \in Held(a)
    BY <1>2
  <2> QED
    BY <1>1, <2>1, <2>2 DEF IInv, NotAhead
<1>8. ASSUME NEW b \in Agents, FinalSent(b) PROVE FinalSent(b)'
  <2>1. Delivered(b) => Delivered(b)'
    BY <1>1 DEF Delivered, OwnId
  <2>2. ASSUME NEW s \in InWire(b) \cup Held(b) \cup Queued PROVE s \in (InWire(b) \cup Held(b) \cup Queued)'
    BY <1>2, <1>3, <1>4
  <2> QED
    BY <1>8, <2>1, <2>2 DEF FinalSent
<1>9. EndsWithFinal'
  <2>1. \A b \in Agents : reader'[b] = "eof" => reader[b] = "eof"
    BY <1>1
  <2> QED
    BY <1>1, <1>8, <2>1 DEF IInv, EndsWithFinal, StreamDown
<1>10. Phases'
  <2>1. ctrlPc # "start" /\ ctrlPc # "done"
    BY <1>1 DEF IInv, Phases
  <2> QED
    BY <1>1, <2>1 DEF Phases
<1> QED
  BY <1>5, <1>6, <1>7, <1>9, <1>10

\* The drain replaces a snapshot by a later one, unless agents share the id.
LEMMA StoreStep ==
    ASSUME IInv, TypeOK', Store
    PROVE  /\ Labelled' /\ InOrder' /\ NotAhead' /\ EndsWithFinal' /\ Phases'
           /\ \A a \in Agents : OwnId(a) /\ latest[idOf[a]] # NoSnap
                 => latest'[idOf[a]].total >= latest[idOf[a]].total
<1>t. TypeOK
  BY DEF IInv
<1>0. PICK tag, x : tag = Head(snapCh) /\ x = tag.snap
  OBVIOUS
<1>1. /\ ctrlPc = "collect" /\ snapCh # <<>> /\ snapCh \in Seq(Tagged)
      /\ snapCh' = Tail(snapCh) /\ latest' = [latest EXCEPT ![tag.id] = x]
      /\ latest \in [Ids -> Snapshots \cup {NoSnap}]
      /\ UNCHANGED <<connected, idOf, ctrlPc, interrupted, agentPc, agentTotal, wire, reader, inHand, results>>
  BY <1>0, <1>t DEF Store, TypeOK, Tagged, agentVars
<1>2. /\ tag \in Tagged /\ Range(snapCh) = {tag} \cup Range(snapCh')
      /\ Ordered(snapCh', QueueOrder) /\ \A t \in Range(snapCh') : Earlier(x, t.snap)
  <2>1. Ordered(snapCh, QueueOrder)
    BY DEF IInv, InOrder
  <2>2. /\ tag \in Tagged /\ Range(snapCh) = {tag} \cup Range(snapCh')
        /\ Ordered(snapCh', QueueOrder)
        /\ \A t \in Range(snapCh') : <<tag, t>> \in QueueOrder
    BY <1>0, <1>1, <2>1, TakeInOrder
  <2> QED
    BY <1>0, <2>2 DEF QueueOrder
<1>3. /\ x \in Snapshots /\ x # NoSnap /\ x.agent \in Agents /\ tag.id \in Ids
      /\ tag.id = idOf[x.agent] /\ x \in Queued
  <2>1. x \in Snapshots /\ tag.id \in Ids
    BY <1>0, <1>2 DEF Tagged
  <2>2. tag.id = idOf[x.agent] /\ x \in Queued
    BY <1>0, <1>2 DEF IInv, Labelled, Queued
  <2> QED
    BY <1>t, <2>1, <2>2, Values DEF Snapshots
<1>4. /\ Queued' \subseteq Queued /\ Queued \subseteq Queued' \cup {x}
      /\ \A t \in Queued' : Earlier(x, t)
  BY <1>0, <1>2 DEF Queued
<1>5. Stored' \subseteq Stored \cup {x}
  BY <1>1 DEF Stored
<1>6. \A b \in Agents : InWire(b)' = InWire(b) /\ Held(b)' = Held(b)
  BY <1>1 DEF InWire, Held
<1>7. Labelled'
  <2>1. \A t \in Range(snapCh') : t.id = idOf[t.snap.agent]
    BY <1>2 DEF IInv, Labelled
  <2>2. \A id \in Ids : latest'[id] # NoSnap => idOf[latest'[id].agent] = id
    BY <1>1, <1>3 DEF IInv, Labelled
  <2> QED
    BY <1>1, <1>6, <2>1, <2>2 DEF IInv, Labelled
<1>8. InOrder'
  <2>1. ASSUME NEW b \in Agents
        PROVE  /\ \A t \in InWire(b), s \in Held(b) \cup Queued' \cup Stored' : Earlier(s, t)
               /\ \A t \in Held(b), s \in Queued' \cup Stored' : Earlier(s, t)
    BY <1>3, <1>4, <1>5 DEF IInv, InOrder
  <2>2. \A t \in Queued', s \in Stored' : Earlier(s, t)
    BY <1>4, <1>5 DEF IInv, InOrder
  <2>3. \A b \in Agents : Ordered(wire'[b], WireOrder)
    BY <1>1 DEF IInv, InOrder
  <2> QED
    BY <1>2, <1>6, <2>1, <2>2, <2>3 DEF InOrder
<1>9. NotAhead'
  <2>1. \A b \in Agents : \A s \in (InWire(b) \cup Held(b) \cup Queued \cup Stored)' :
            s \in InWire(b) \cup Held(b) \cup Queued \cup Stored
    BY <1>3, <1>4, <1>5, <1>6
  <2> QED
    BY <1>1, <2>1 DEF IInv, NotAhead
\* A snapshot under an id of its own is followed by a later one of the same agent.
<1>10. ASSUME NEW b \in Agents, OwnId(b), latest[idOf[b]] # NoSnap, tag.id = idOf[b]
       PROVE  /\ x.agent = b /\ latest[idOf[b]].agent = b
              /\ latest[idOf[b]].total <= x.total /\ ~latest[idOf[b]].final
  <2>1. x.agent = b
    BY <1>3, <1>10 DEF OwnId
  <2>2. latest[idOf[b]] \in Stored /\ latest[idOf[b]] \in Snapshots
    BY <1>1, <1>3, <1>10 DEF Stored
  <2>3. latest[idOf[b]].agent = b
    BY <1>3, <1>10, <2>2 DEF IInv, Labelled, OwnId, Snapshots
  <2>4. Earlier(latest[idOf[b]], x)
    BY <1>3, <2>2 DEF IInv, InOrder
  <2> QED
    BY <2>1, <2>3, <2>4 DEF Earlier
<1>11. ASSUME NEW b \in Agents, FinalSent(b) PROVE FinalSent(b)'
  <2>1. CASE Delivered(b)
    <3>1. CASE tag.id = idOf[b]
      BY <1>1, <1>3, <1>10, <2>1, <3>1 DEF FinalSent, Delivered, OwnId
    <3>2. CASE tag.id # idOf[b]
      <4>1. latest'[idOf[b]] = latest[idOf[b]]
        BY <1>1, <1>t, <3>2, Values
      <4> QED
        BY <1>1, <2>1, <4>1 DEF FinalSent, Delivered, OwnId
    <3> QED
      BY <3>1, <3>2
  <2>2. CASE x.agent = b /\ x.final
    <3>1. latest'[idOf[b]] = x
      BY <1>1, <1>3, <2>2
    <3>2. Delivered(b)'
      BY <1>3, <2>2, <3>1, <1>1 DEF Delivered
    <3> QED
      BY <3>2 DEF FinalSent
  <2>3. CASE ~Delivered(b) /\ ~(x.agent = b /\ x.final)
    <3>1. PICK s \in InWire(b) \cup Held(b) \cup Queued : s.agent = b /\ s.final
      BY <1>11, <2>3 DEF FinalSent
    <3>2. s # x
      BY <2>3, <3>1
    <3>3. s \in (InWire(b) \cup Held(b) \cup Queued)'
      BY <1>4, <1>6, <3>1, <3>2
    <3> QED
      BY <3>1, <3>3 DEF FinalSent
  <2> QED
    BY <2>1, <2>2, <2>3
<1>12. EndsWithFinal'
  BY <1>1, <1>11 DEF IInv, EndsWithFinal, StreamDown
<1>13. Phases'
  BY <1>1 DEF Phases
<1>14. ASSUME NEW b \in Agents, OwnId(b), latest[idOf[b]] # NoSnap
       PROVE  latest'[idOf[b]].total >= latest[idOf[b]].total
  <2>1. CASE tag.id = idOf[b]
    <3>1. latest'[idOf[b]] = x /\ latest[idOf[b]].total <= x.total
      BY <1>1, <1>3, <1>10, <1>14, <2>1
    <3> QED
      BY <3>1
  <2>2. CASE tag.id # idOf[b]
    <3>1. latest'[idOf[b]] = latest[idOf[b]] /\ latest[idOf[b]] \in Snapshots
      BY <1>1, <1>t, <1>14, <2>2, Values
    <3>2. latest[idOf[b]].total \in Int
      BY <3>1, <1>t, Values DEF Snapshots
    <3> QED
      BY <3>1, <3>2
  <2> QED
    BY <2>1, <2>2
<1> QED
  BY <1>7, <1>8, <1>9, <1>12, <1>13, <1>14
-----------------------------------------------------------------------------
LEMMA InitIInv == Init => IInv
<1> SUFFICES ASSUME Init PROVE IInv
  OBVIOUS
<1>0. DOMAIN <<>> = {} /\ Len(<<>>) = 0 /\ \A S : <<>> \in Seq(S)
  BY EmptySeq
<1>1. TypeOK
  <2>1. wire \in [Agents -> Seq(Snapshots)]
    BY <1>0 DEF Init
  <2>2. snapCh \in Seq([id : Ids, snap : Snapshots]) /\ Len(snapCh) <= SnapBuf
    BY <1>0, DistributedAssumption DEF Init
  <2>3. /\ agentTotal \in [Agents -> 0..MaxRequests] /\ ticks \in [Agents -> 0..MaxTicks]
        /\ inHand \in [Agents -> Snapshots \cup {NoSnap}]
        /\ latest \in [Ids -> Snapshots \cup {NoSnap}]
    BY DistributedAssumption DEF Init
  <2> QED
    BY <2>1, <2>2, <2>3 DEF Init, TypeOK
<1>2. /\ \A a \in Agents : InWire(a) = {} /\ Held(a) = {}
      /\ Queued = {} /\ Stored = {} /\ Range(snapCh) = {}
  BY <1>0 DEF Init, InWire, Held, Queued, Stored, Range
<1>3. Labelled
  BY <1>2 DEF Init, Labelled
<1>4. InOrder
  BY <1>0, <1>2 DEF Init, InOrder, Ordered
<1>5. NotAhead /\ EndsWithFinal /\ Phases
  BY <1>2 DEF Init, NotAhead, EndsWithFinal, Phases
<1> QED
  BY <1>1, <1>3, <1>4, <1>5 DEF IInv

LEMMA NextIInv == IInv /\ [Next]_vars => IInv'
<1> SUFFICES ASSUME IInv, [Next]_vars PROVE IInv'
  OBVIOUS
<1>t. TypeOK /\ Labelled
  BY DEF IInv
<1>0. PICK a : a \in Agents
  BY DistributedAssumption
<1>1. CASE Starting \/ Interrupt \/ Collect
  <2>1. TypeOK'
    BY <1>1, <1>t, StartTypes, DrainTypes
  <2> QED
    BY <1>0, <1>1, <2>1, QuietSteps DEF Starting, IInv
<1>2. ASSUME NEW b \in Agents, Agent(b) \/ Fail(b) PROVE IInv'
  <2>1. TypeOK'
    BY <1>2, <1>t, AgentTypes
  <2>2. CASE Tick(b)
    <3>1. CASE UNCHANGED wire
      BY <2>1, <2>2, <3>1, QuietSteps DEF IInv
    <3>2. CASE ~UNCHANGED wire
      <4>1. /\ wire' = [wire EXCEPT ![b] = Append(@, Snap(b, FALSE))] /\ UNCHANGED agentPc
            /\ agentPc[b] = "run" /\ UNCHANGED <<ctrlPc, interrupted, agentTotal, ctrlVars>>
        BY <2>2, <3>2 DEF Tick
      <4> QED
        BY <2>1, <4>1, SendStep DEF IInv, ctrlVars
    <3> QED
      BY <3>1, <3>2
  <2>3. CASE Finish(b)
    <3>1. CASE StreamDown /\ UNCHANGED wire
      BY <2>1, <2>3, <3>1, QuietSteps DEF IInv
    <3>2. CASE ~(StreamDown /\ UNCHANGED wire)
      <4>1. /\ wire' = [wire EXCEPT ![b] = Append(@, Snap(b, TRUE))]
            /\ agentPc' = [agentPc EXCEPT ![b] = "join"]
            /\ agentPc[b] = "run" /\ UNCHANGED <<ctrlPc, interrupted, agentTotal, ctrlVars>>
        BY <2>3, <3>2 DEF Finish
      <4> QED
        BY <2>1, <4>1, SendStep DEF IInv, ctrlVars
    <3> QED
      BY <3>1, <3>2
  <2> QED
    BY <1>2, <2>1, <2>2, <2>3, QuietSteps DEF Agent, TimeUp, StreamEnds, IInv
<1>3. ASSUME NEW b \in Agents, Reader(b) PROVE IInv'
  <2>1. TypeOK'
    BY <1>3, <1>t, ReaderTypes
  <2> QED
    BY <1>3, <2>1, QuietSteps, RecvStep, PushStep DEF Reader, IInv
<1>4. CASE Store
  <2>1. TypeOK'
    BY <1>4, <1>t, DrainTypes
  <2> QED
    BY <1>4, <2>1, StoreStep DEF IInv
<1>5. CASE UNCHANGED vars
  <2>1. TypeOK'
    BY <1>t, <1>5 DEF vars, agentVars, ctrlVars, TypeOK
  <2> QED
    BY <1>0, <1>5, <2>1, QuietSteps DEF IInv
<1> QED
  BY <1>1, <1>2, <1>3, <1>4, <1>5 DEF Next, Controller

THEOREM Inductive == Spec => []IInv
<1>1. Spec => Init /\ [][Next]_vars
  BY PTL DEF Spec
<1> QED
  BY <1>1, InitIInv, NextIInv, PTL

(***************************************************************************)
(* TypeOK for every instance: in particular snapCh stays in its buffer.    *)
(***************************************************************************)
THEOREM TypeCorrect == Spec => []TypeOK
BY Inductive, PTL DEF IInv

(***************************************************************************)
(* CleanFinishIsFinal for every instance: the snapshot an agent sends as   *)
(* its handler ends is the one in the result, unless agents share its id.  *)
(***************************************************************************)
THEOREM LastSnapshotWins == Spec => []CleanFinishIsFinal
<1>1. IInv => CleanFinishIsFinal
  <2> SUFFICES ASSUME IInv, ctrlPc = "done", NEW a \in Agents, reader[a] = "eof"
               PROVE  \E s \in results : /\ idOf[s.agent] = idOf[a]
                                         /\ OwnId(a) => s.agent = a /\ s.final
    BY DEF CleanFinishIsFinal
  <2>1. agentPc[a] = "closed" /\ wire[a] = <<>> /\ snapCh = <<>> /\ idOf[a] \in Ids
        /\ results = {latest[id] : id \in {i \in Ids : latest[i] # NoSnap}}
    BY Values DEF IInv, EndsWithFinal, Phases
  <2>2. InWire(a) = {} /\ Held(a) = {} /\ Queued = {}
    BY <2>1, EmptySeq DEF IInv, Labelled, InWire, Held, Queued, Range
  <2>3. Delivered(a)
    BY <2>1, <2>2 DEF IInv, EndsWithFinal, FinalSent
  <2>4. latest[idOf[a]] \in results /\ idOf[latest[idOf[a]].agent] = idOf[a]
    BY <2>1, <2>3 DEF IInv, Labelled, Delivered
  <2> QED
    BY <2>3, <2>4 DEF Delivered
<1> QED
  BY <1>1, Inductive, PTL

(***************************************************************************)
(* LiveCountsGrow for every instance: no step replaces a snapshot of an    *)
(* agent with an id of its own by one with a smaller count.                *)
(***************************************************************************)
THEOREM LiveCountsNeverFall == Spec => LiveCountsGrow
<1>1. IInv /\ IInv' /\ [Next]_vars =>
        [\A a \in Agents : OwnId(a) /\ latest[idOf[a]] # NoSnap
            => latest'[idOf[a]].total >= latest[idOf[a]].total]_vars
  <2> SUFFICES ASSUME IInv, IInv', [Next]_vars,
                      NEW a \in Agents, OwnId(a), latest[idOf[a]] # NoSnap
               PROVE  latest'[idOf[a]].total >= latest[idOf[a]].total
    OBVIOUS
  <2>1. CASE Store
    BY <2>1, StoreStep DEF IInv
  <2>2. CASE ~Store
    <3>1. latest' = latest
      BY <2>2 DEF Next, Controller, Starting, OpenStream, StartFails, StartReaders, Agent, Respond,
                  Tick, Finish, TimeUp, StreamEnds, Return, Fail, Reader, Recv, RecvEOF, RecvError, Push, Collect,
                  Interrupt, vars, ctrlVars, agentVars
    <3>2. latest[idOf[a]] \in Stored /\ TypeOK
      BY Values DEF IInv, Stored
    <3>3. latest[idOf[a]].total \in Int
      BY <3>2, Values DEF Snapshots
    <3> QED
      BY <3>1, <3>3
  <2> QED
    BY <2>1, <2>2
<1>2. Spec => [][Next]_vars
  BY PTL DEF Spec
<1> QED
  BY <1>1, <1>2, Inductive, PTL DEF LiveCountsGrow
-----------------------------------------------------------------------------
(***************************************************************************)
(* What the controller's goroutines wait for: Recv for a snapshot, the end *)
(* of a stream or of the context, a reader for room in snapCh, the drain   *)
(* for something in it, and Run for all readers and the drain.             *)
(***************************************************************************)
ReaderReady(a) ==
    \/ reader[a] = "recv" /\ (wire[a] # <<>> \/ agentPc[a] \in {"closed", "broken"} \/ interrupted)
    \/ reader[a] = "push" /\ Len(snapCh) < SnapBuf

ControllerReady ==
    \/ ctrlPc = "start"
    \/ \E a \in Agents : ReaderReady(a)
    \/ ctrlPc = "collect" /\ snapCh # <<>>
    \/ ctrlPc = "collect" /\ \A a \in Agents : reader[a] \in {"eof", "error"}

\* Once the readers have started, every stream has been opened.
Started ==
    ctrlPc = "collect" => \A a \in Agents : reader[a] # "off" /\ agentPc[a] # "idle"

LEMMA StartedKept ==
    ASSUME TypeOK, Started, [Next]_vars
    PROVE  Started'
<1>1. CASE StartReaders
  BY <1>1 DEF StartReaders, Started, agentVars
<1>2. CASE (\E a \in Agents : OpenStream(a)) \/ StartFails \/ Collect
  BY <1>2 DEF OpenStream, StartFails, Collect, Started
<1>3. ASSUME NEW a \in Agents, Agent(a) \/ Fail(a) PROVE Started'
  <2>1. reader' = reader /\ ctrlPc' = ctrlPc
    BY <1>3 DEF Agent, Respond, Tick, Finish, TimeUp, StreamEnds, Return, Fail, ctrlVars
  <2>2. \/ agentPc' = agentPc
        \/ \E x \in {"broken", "join", "closed", "hung"} : agentPc' = [agentPc EXCEPT ![a] = x]
    BY <1>3 DEF Agent, Respond, Tick, Finish, TimeUp, StreamEnds, Return, Fail
  <2> QED
    BY <2>1, <2>2 DEF TypeOK, Started
<1>4. ASSUME NEW a \in Agents, Reader(a) PROVE Started'
  <2>1. agentPc' = agentPc /\ ctrlPc' = ctrlPc
    BY <1>4 DEF Reader, Recv, RecvEOF, RecvError, Push, agentVars
  <2>2. \E x \in {"recv", "push", "eof", "error"} : reader' = [reader EXCEPT ![a] = x]
    BY <1>4 DEF Reader, Recv, RecvEOF, RecvError, Push
  <2> QED
    BY <2>1, <2>2 DEF TypeOK, Started
<1>5. CASE Store \/ Interrupt \/ UNCHANGED vars
  BY <1>5 DEF Store, Interrupt, vars, agentVars, ctrlVars, Started
<1> QED
  BY <1>1, <1>2, <1>3, <1>4, <1>5 DEF Next, Controller, Starting

LEMMA OnlyAgentsAreAwaited ==
    ASSUME TypeOK, Started, ~ControllerReady, ctrlPc \notin {"done", "failed"}
    PROVE  /\ ~interrupted
           /\ \E a \in Agents : /\ reader[a] = "recv" /\ wire[a] = <<>>
                               /\ agentPc[a] \in {"run", "join", "hung"}
<1>1. ctrlPc = "collect" /\ snapCh = <<>>
  BY DEF ControllerReady, TypeOK
<1>2. Len(snapCh) < SnapBuf
  <2>1. Len(snapCh) = 0
    BY <1>1
  <2> QED
    BY <2>1, DistributedAssumption
<1>3. PICK a \in Agents : reader[a] \notin {"eof", "error"}
  BY <1>1 DEF ControllerReady
<1>4. reader[a] = "recv"
  BY <1>1, <1>2, <1>3 DEF ControllerReady, ReaderReady, Started, TypeOK
<1> QED
  BY <1>1, <1>4 DEF ControllerReady, ReaderReady, Started, TypeOK

(***************************************************************************)
(* The safety half of InterruptReturns, for every instance: the readers,   *)
(* snapCh, the drain and the closing goroutine never wait for each other   *)
(* alone.  If the controller cannot move, it has returned, or it waits for *)
(* a silent agent or one at work, and the context has not ended.           *)
(***************************************************************************)
THEOREM ControllerWaitsForAgents ==
    Spec => [](~ControllerReady =>
                  \/ ctrlPc \in {"done", "failed"}
                  \/ /\ ~interrupted
                     /\ \E a \in Agents : /\ reader[a] = "recv" /\ wire[a] = <<>>
                                         /\ agentPc[a] \in {"run", "join", "hung"})
<1>1. Init => Started
  BY DEF Init, Started
<1>2. Started /\ TypeOK /\ [Next]_vars => Started'
  BY StartedKept
<1>3. TypeOK /\ Started =>
        (~ControllerReady =>
            \/ ctrlPc \in {"done", "failed"}
            \/ /\ ~interrupted
               /\ \E a \in Agents : /\ reader[a] = "recv" /\ wire[a] = <<>>
                                   /\ agentPc[a] \in {"run", "join", "hung"})
  BY OnlyAgentsAreAwaited
<1>4. Spec => Init /\ [][Next]_vars
  BY PTL DEF Spec
<1> QED
  BY <1>1, <1>2, <1>3, <1>4, TypeCorrect, PTL
=============================================================================

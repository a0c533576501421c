-------------------------- MODULE ConnWorker_proofs -------------------------
(***************************************************************************)
(* Proofs about ConnWorker, for any number of jobs and every kind of       *)
(* worker and peer: its types, that no connection is left open, and that   *)
(* no job reads an answer that a failed one left behind.                   *)
(***************************************************************************)
EXTENDS ConnWorker, SequenceTheorems, TLAPS

\* The jobs that were reported as successes, and the one whose answer is due.
OkJobs == {k \in DOMAIN results : results[k].ok}
InFlight == IF wpc = "read" THEN {job} ELSE {}

WholeAnswers == setup.readBytes = setup.replyBytes

\* Each job dials at most once and makes one result.
JobsInOrder ==
    /\ wpc = "dial" => conn = NoConn /\ dials < job
    /\ wpc \in {"dial", "write", "read"} => job \in 1..MaxJobs
    /\ conn <= dials
    /\ Len(results) = IF wpc \in {"idle", "exited"} THEN job ELSE job - 1
    /\ \A i \in DOMAIN results : results[i].job = i

\* A connection that was not made yet is untouched; a closed peer owes nothing.
ConnsInOrder ==
    /\ \A c \in Conns : c > dials => handle[c] = "none" /\ wire[c] = <<>> /\ owed[c] = <<>>
    /\ \A c \in Conns : peer[c] = "closed" => owed[c] = <<>>

\* What is on its way on the cached connection answers jobs that succeeded, or
\* the job that reads.
CacheIsClean ==
    conn # NoConn =>
        /\ wire[conn] \in Seq(OkJobs \cup InFlight)
        /\ owed[conn] \in Seq(OkJobs \cup InFlight)

\* When whole answers are read, nothing else than the current one is there.
CacheIsSettled ==
    WholeAnswers /\ conn # NoConn /\ wpc # "exited" =>
        IF wpc = "read"
        THEN /\ wire[conn] \in Seq({job}) /\ owed[conn] \in Seq({job})
             /\ Len(wire[conn]) + Len(owed[conn]) <= setup.replyBytes
        ELSE wire[conn] = <<>> /\ owed[conn] = <<>>

\* What was read by the successful jobs.
AnswersAreClean ==
    \A i \in OkJobs :
        \/ results[i].conn \in Conns /\ NothingRead(results[i])
        \/ /\ results[i].units \in Seq(OkJobs)
           /\ WholeAnswers => results[i].units = [k \in 1..setup.replyBytes |-> results[i].job]

IInv ==
    /\ TypeOK /\ NoConnectionLeaks
    /\ JobsInOrder /\ ConnsInOrder /\ CacheIsClean /\ CacheIsSettled /\ AnswersAreClean

-----------------------------------------------------------------------------
\* Taking units off a sequence, and moving one from one sequence to another.
LEMMA SplitUnits ==
    ASSUME NEW S, NEW s \in Seq(S), NEW n \in 1..Len(s)
    PROVE  /\ SubSeq(s, 1, n) \in Seq(S) /\ Len(SubSeq(s, 1, n)) = n
           /\ \A i \in 1..n : SubSeq(s, 1, n)[i] = s[i]
           /\ SubSeq(s, n + 1, Len(s)) \in Seq(S)
           /\ Len(SubSeq(s, n + 1, Len(s))) = Len(s) - n
<1>1. Len(s) \in Nat /\ \A i \in 1..Len(s) : s[i] \in S
  OBVIOUS
<1>2. \A i \in 1..n : s[i] \in S
  BY <1>1
<1>3. \A i \in (n + 1)..Len(s) : s[i] \in S
  BY <1>1
<1>4. /\ SubSeq(s, 1, n) \in Seq(S)
      /\ Len(SubSeq(s, 1, n)) = IF 1 <= n THEN n - 1 + 1 ELSE 0
      /\ \A i \in 1..(n - 1 + 1) : SubSeq(s, 1, n)[i] = s[1 + i - 1]
  BY <1>1, <1>2, SubSeqProperties
<1>5. /\ SubSeq(s, n + 1, Len(s)) \in Seq(S)
      /\ Len(SubSeq(s, n + 1, Len(s))) = IF n + 1 <= Len(s) THEN Len(s) - (n + 1) + 1 ELSE 0
  BY <1>1, <1>3, SubSeqProperties
<1> QED
  BY <1>1, <1>4, <1>5

LEMMA MoveUnit ==
    ASSUME NEW S, NEW s \in Seq(S), NEW t \in Seq(S), t # <<>>
    PROVE  /\ Append(s, Head(t)) \in Seq(S) /\ Tail(t) \in Seq(S)
           /\ Len(Append(s, Head(t))) = Len(s) + 1 /\ Len(Tail(t)) = Len(t) - 1
BY HeadTailProperties, AppendProperties

\* An answer of n units to job j.
LEMMA AnswerUnits ==
    ASSUME NEW n \in Nat, NEW j
    PROVE  LET a == [i \in 1..n |-> j] IN a \in Seq({j}) /\ Len(a) = n
<1>1. [i \in 1..n |-> j] \in [1..n -> {j}]
  OBVIOUS
<1> QED
  BY <1>1, SeqDef

\* Of w units that have come and o that are owed, n or fewer in all: n are
\* read, or one comes, or those that are owed will not come.
LEMMA UnitsLeft ==
    ASSUME NEW w \in Nat, NEW o \in Nat, NEW n \in Nat, w + o <= n
    PROVE  /\ n <= w => w - n = 0 /\ o = 0
           /\ (w + 1) + (o - 1) <= n
           /\ \A k \in 0..o : w + k <= n
OBVIOUS

-----------------------------------------------------------------------------
\* The setup of the worker.
LEMMA SetupFacts ==
    ASSUME TypeOK
    PROVE  /\ setup.protocol \in {"ws", "tcp"}
           /\ setup.readBytes \in Nat /\ setup.replyBytes \in Nat \ {0}
           /\ MaxJobs \in Nat
BY ConnWorkerAssumption DEF TypeOK

\* A result is appended: the earlier ones stay, and stay successes.
LEMMA ReportKeeps ==
    ASSUME TypeOK, JobsInOrder, AnswersAreClean, wpc \in {"dial", "write", "read"},
           NEW ok \in BOOLEAN, NEW units \in Seq(0..MaxJobs), Report(ok, units),
           UNCHANGED <<setup, job, peer>>,
           ok => \/ conn \in Conns /\ setup.protocol = "tcp" /\ units = Unread /\ peer[conn] = "closed"
                 \/ /\ units \in Seq(OkJobs \cup {job})
                    /\ WholeAnswers => units = [k \in 1..setup.replyBytes |-> job]
    PROVE  /\ results' \in Seq(Result)
           /\ Len(results') = job
           /\ \A i \in DOMAIN results' : results'[i].job = i
           /\ OkJobs' = IF ok THEN OkJobs \cup {job} ELSE OkJobs
           /\ AnswersAreClean'
<1> DEFINE new == [job |-> job, conn |-> conn, ok |-> ok, units |-> units]
<1>1. /\ job \in 1..MaxJobs /\ Len(results) = job - 1
      /\ results \in Seq(Result)
      /\ new \in Result
  BY DEF TypeOK, JobsInOrder, Result
<1>2. /\ results' = Append(results, new)
      /\ results' \in Seq(Result)
      /\ Len(results') = job /\ DOMAIN results' = 1..job /\ DOMAIN results = 1..(job - 1)
      /\ \A i \in DOMAIN results : results'[i] = results[i]
      /\ results'[job] = new
  <2> HIDE DEF new
  <2>1. results' = Append(results, new)
    BY DEF Report, new
  <2> QED
    BY <1>1, <2>1, AppendProperties
<1>3. \A i \in DOMAIN results' : results'[i].job = i
  BY <1>1, <1>2 DEF JobsInOrder
<1>4. OkJobs' = IF ok THEN OkJobs \cup {job} ELSE OkJobs
  BY <1>1, <1>2 DEF OkJobs
<1>5. ASSUME NEW i \in OkJobs'
      PROVE  \/ results'[i].conn \in Conns /\ NothingRead(results'[i])
             \/ /\ results'[i].units \in Seq(OkJobs')
                /\ WholeAnswers =>
                      results'[i].units = [k \in 1..setup.replyBytes |-> results'[i].job]
  <2>1. CASE i \in OkJobs
    <3>1. results'[i] = results[i]
      BY <1>2, <2>1 DEF OkJobs
    <3>2. CASE results[i].conn \in Conns /\ NothingRead(results[i])
      BY <3>1, <3>2
    <3>3. CASE ~(results[i].conn \in Conns /\ NothingRead(results[i]))
      <4>1. results[i].units \in Seq(OkJobs)
        BY <2>1, <3>3 DEF AnswersAreClean
      <4>2. results[i].units \in Seq(OkJobs')
        BY <1>4, <4>1, SeqMonotonic
      <4> QED
        BY <2>1, <3>1, <3>3, <4>2 DEF AnswersAreClean
    <3> QED
      BY <3>2, <3>3
  <2>2. CASE i \notin OkJobs
    <3>1. i = job /\ ok
      BY <1>4, <2>2
    <3>2. /\ results'[i].units = units /\ results'[i].job = job /\ results'[i].conn = conn
          /\ OkJobs' = OkJobs \cup {job}
      BY <1>2, <1>4, <3>1
    <3>3. CASE conn \in Conns /\ setup.protocol = "tcp" /\ units = Unread /\ peer[conn] = "closed"
      BY <3>2, <3>3 DEF NothingRead
    <3>4. CASE /\ units \in Seq(OkJobs \cup {job})
               /\ WholeAnswers => units = [k \in 1..setup.replyBytes |-> job]
      BY <3>2, <3>4
    <3> QED
      BY <3>1, <3>3, <3>4
  <2> QED
    BY <2>1, <2>2
<1>6. AnswersAreClean'
  <2>1. /\ Conns' = Conns /\ WholeAnswers' = WholeAnswers /\ setup' = setup
        /\ \A i \in OkJobs' : NothingRead(results[i])' <=> NothingRead(results'[i])
    BY DEF WholeAnswers, NothingRead, Unread
  <2> QED
    BY <1>5, <2>1 DEF AnswersAreClean
<1> QED
  BY <1>2, <1>3, <1>4, <1>6
\* No result is made, and no connection opens at the peer's end.
LEMMA AnswersKept ==
    ASSUME AnswersAreClean, UNCHANGED <<setup, results>>,
           \A c \in Conns : peer[c] = "closed" => peer'[c] = "closed"
    PROVE  AnswersAreClean'
<1>1. OkJobs' = OkJobs /\ WholeAnswers' = WholeAnswers /\ Unread' = Unread
  BY DEF OkJobs, WholeAnswers, Unread
<1> QED
  BY <1>1 DEF AnswersAreClean, NothingRead

-----------------------------------------------------------------------------
LEMMA TakeJobIInv ==
    ASSUME IInv, TakeJob
    PROVE  IInv'
<1> USE DEF IInv, TakeJob
<1>1. /\ TypeOK' /\ NoConnectionLeaks' /\ JobsInOrder' /\ ConnsInOrder'
  <2>1. TypeOK'
    BY SetupFacts DEF TypeOK, JobsInOrder, NoConn, Conns
  <2>2. NoConnectionLeaks' /\ ConnsInOrder'
    BY DEF NoConnectionLeaks, ConnsInOrder
  <2>3. JobsInOrder'
    BY SetupFacts DEF TypeOK, JobsInOrder, NoConn, Conns
  <2> QED
    BY <2>1, <2>2, <2>3
<1>2. OkJobs' = OkJobs /\ InFlight' = {} /\ InFlight = {} /\ WholeAnswers' = WholeAnswers
  BY DEF OkJobs, InFlight, WholeAnswers
<1>3. CacheIsClean' /\ CacheIsSettled' /\ AnswersAreClean'
  BY <1>2, AnswersKept DEF CacheIsClean, CacheIsSettled
<1> QED
  BY <1>1, <1>3

LEMMA DialOkIInv ==
    ASSUME IInv, DialOk
    PROVE  IInv'
<1> USE DEF IInv, DialOk
<1>0. dials + 1 \in Conns /\ wire[dials + 1] = <<>> /\ owed[dials + 1] = <<>>
  BY SetupFacts DEF TypeOK, JobsInOrder, ConnsInOrder, Conns
<1>1. /\ TypeOK' /\ JobsInOrder' /\ ConnsInOrder'
  BY <1>0, SetupFacts DEF TypeOK, JobsInOrder, ConnsInOrder, NoConn, Conns
<1>2. NoConnectionLeaks'
  BY <1>0 DEF TypeOK, JobsInOrder, NoConnectionLeaks, NoConn, Conns
<1>3. OkJobs' = OkJobs /\ InFlight' = {} /\ WholeAnswers' = WholeAnswers
  BY DEF OkJobs, InFlight, WholeAnswers
<1>4. wire[dials + 1] \in Seq(OkJobs) /\ owed[dials + 1] \in Seq(OkJobs)
  BY <1>0, EmptySeq
<1>5. CacheIsClean' /\ CacheIsSettled' /\ AnswersAreClean'
  BY <1>0, <1>3, <1>4, AnswersKept DEF CacheIsClean, CacheIsSettled
<1> QED
  BY <1>1, <1>2, <1>5

\* The steps that report a failure and leave no connection in the cache.
LEMMA FailureIInv ==
    ASSUME IInv, wpc \in {"dial", "write", "read"}, Report(FALSE, <<>>),
           \/ Discard
           \/ UNCHANGED <<conn, handle>> /\ conn = NoConn,
           UNCHANGED <<setup, ctxDone, job, dials, peer, owed, wire>>
    PROVE  IInv'
<1> USE DEF IInv
<1>0. <<>> \in Seq(0..MaxJobs)
  BY EmptySeq
<1>1. /\ results' \in Seq(Result)
      /\ Len(results') = job
      /\ \A i \in DOMAIN results' : results'[i].job = i
      /\ AnswersAreClean'
  BY <1>0, ReportKeeps
<1>2. wpc' = "idle" /\ conn' = NoConn
  BY DEF Report, Discard
<1>3. CacheIsClean' /\ CacheIsSettled'
  BY <1>2 DEF CacheIsClean, CacheIsSettled
<1>4. /\ handle' \in [Conns -> {"none", "open", "closed"}]
      /\ \A c \in Conns : handle'[c] # "open"
      /\ \A c \in Conns : c > dials => handle'[c] = "none"
  <2>0. /\ handle \in [Conns -> {"none", "open", "closed"}]
        /\ conn \in Int /\ dials \in Int /\ conn <= dials
    BY DEF TypeOK, JobsInOrder, Conns, NoConn
  <2>1. \A c \in Conns : handle[c] = "open" => c = conn
    BY DEF NoConnectionLeaks
  <2>2. \A c \in Conns : c \in Int /\ c # NoConn /\ (c > dials => handle[c] = "none")
    BY DEF ConnsInOrder, NoConn, Conns
  <2>3. CASE handle' = [handle EXCEPT ![conn] = "closed"]
    <3>1. handle' \in [Conns -> {"none", "open", "closed"}]
      BY <2>0, <2>3
    <3>2. ASSUME NEW c \in Conns
          PROVE  handle'[c] # "open" /\ (c > dials => handle'[c] = "none")
      <4>1. handle'[c] = IF c = conn THEN "closed" ELSE handle[c]
        BY <2>0, <2>3
      <4>2. c = conn => ~(c > dials)
        BY <2>0
      <4> QED
        BY <2>1, <2>2, <4>1, <4>2
    <3> QED
      BY <3>1, <3>2
  <2>4. CASE handle' = handle /\ conn = NoConn
    BY <2>0, <2>1, <2>2, <2>4
  <2> QED
    BY <2>3, <2>4 DEF Discard
<1>5. TypeOK' /\ JobsInOrder'
  BY <1>1, <1>2, <1>4 DEF TypeOK, JobsInOrder, NoConn
<1>6. NoConnectionLeaks' /\ ConnsInOrder'
  BY <1>4 DEF NoConnectionLeaks, ConnsInOrder
<1> QED
  BY <1>1, <1>3, <1>5, <1>6

LEMMA WriteOkIInv ==
    ASSUME IInv, WriteOk
    PROVE  IInv'
<1> USE DEF IInv
<1> DEFINE answer == [i \in 1..setup.replyBytes |-> job]
<1>0. /\ conn \in Conns /\ job \in 1..MaxJobs /\ wpc = "write" /\ wpc' = "read"
      /\ owed \in [Conns -> Units] /\ wire \in [Conns -> Units] /\ conn # NoConn
      /\ owed' = IF peer[conn] = "open" THEN [owed EXCEPT ![conn] = @ \o answer] ELSE owed
      /\ UNCHANGED <<setup, ctxDone, job, conn, dials, handle, peer, wire, results>>
  BY DEF WriteOk, TypeOK, JobsInOrder, NoConn, Conns
<1>1. answer \in Seq({job}) /\ Len(answer) = setup.replyBytes /\ setup.replyBytes \in Nat
  BY AnswerUnits, SetupFacts
<1>2. OkJobs' = OkJobs /\ InFlight = {} /\ InFlight' = {job} /\ WholeAnswers' = WholeAnswers
  BY <1>0 DEF OkJobs, InFlight, WholeAnswers
<1> HIDE DEF answer
<1>3. wire[conn] \in Seq(OkJobs) /\ owed[conn] \in Seq(OkJobs)
  <2>1. OkJobs \cup InFlight = OkJobs
    BY <1>2
  <2> QED
    BY <1>0, <2>1 DEF CacheIsClean
<1>4. wire[conn] \in Seq(OkJobs \cup {job}) /\ owed[conn] \o answer \in Seq(OkJobs \cup {job})
      /\ owed[conn] \in Seq(OkJobs \cup {job})
  <2>1. /\ wire[conn] \in Seq(OkJobs \cup {job}) /\ owed[conn] \in Seq(OkJobs \cup {job})
        /\ answer \in Seq(OkJobs \cup {job})
    BY <1>1, <1>3, SeqMonotonic
  <2> QED
    BY <2>1, ConcatProperties
<1>5. /\ conn' # NoConn /\ wire'[conn'] \in Seq(OkJobs \cup {job})
      /\ owed'[conn'] \in Seq(OkJobs \cup {job})
  BY <1>0, <1>4
<1>6. CacheIsClean'
  BY <1>2, <1>5 DEF CacheIsClean
<1>7. CacheIsSettled'
  <2> SUFFICES ASSUME WholeAnswers
               PROVE  /\ wire'[conn] \in Seq({job}) /\ owed'[conn] \in Seq({job})
                      /\ Len(wire'[conn]) + Len(owed'[conn]) <= setup.replyBytes
    BY <1>0, <1>2 DEF CacheIsSettled
  <2>1. wire[conn] = <<>> /\ owed[conn] = <<>>
    BY <1>0 DEF CacheIsSettled
  <2>2. owed'[conn] \in {<<>>, answer} /\ wire'[conn] = <<>>
    <3>1. <<>> \o answer = answer
      BY <1>1, ConcatEmptySeq
    <3> QED
      BY <1>0, <2>1, <3>1
  <2>3. <<>> \in Seq({job}) /\ Len(<<>>) = 0
    BY EmptySeq
  <2>4. CASE owed'[conn] = <<>>
    BY <1>1, <2>2, <2>3, <2>4
  <2>5. CASE owed'[conn] = answer
    BY <1>1, <2>2, <2>3, <2>5
  <2> QED
    BY <2>2, <2>4, <2>5
<1>8. AnswersAreClean'
  BY <1>0, AnswersKept
<1>9. TypeOK'
  <2>1. owed[conn] \o answer \in Units
    <3>1. answer \in Units /\ owed[conn] \in Units
      BY <1>0, <1>1, SeqMonotonic DEF Units
    <3> QED
      BY <3>1, ConcatProperties DEF Units
  <2>2. owed' \in [Conns -> Units]
    BY <1>0, <2>1
  <2> QED
    BY <1>0, <2>2 DEF TypeOK
<1>10. NoConnectionLeaks' /\ JobsInOrder' /\ ConnsInOrder'
  BY <1>0 DEF NoConnectionLeaks, JobsInOrder, ConnsInOrder, TypeOK, Conns
<1> QED
  BY <1>6, <1>7, <1>8, <1>9, <1>10

LEMMA ReadOkIInv ==
    ASSUME IInv, ReadOk
    PROVE  IInv'
<1> USE DEF IInv
<1>0. PICK n \in Readable :
          /\ Report(TRUE, SubSeq(wire[conn], 1, n))
          /\ wire' = [wire EXCEPT ![conn] = SubSeq(@, n + 1, Len(@))]
  BY DEF ReadOk
<1> DEFINE units == SubSeq(wire[conn], 1, n)
           rest == SubSeq(wire[conn], n + 1, Len(wire[conn]))
<1>1. /\ wpc = "read" /\ wpc' = "idle" /\ conn \in Conns /\ conn # NoConn /\ job \in 1..MaxJobs
      /\ wire \in [Conns -> Units] /\ owed \in [Conns -> Units]
      /\ wire' = [wire EXCEPT ![conn] = rest]
      /\ UNCHANGED <<setup, ctxDone, job, conn, dials, handle, peer, owed>>
  <2>1. /\ wpc = "read" /\ wpc' = "idle" /\ wire' = [wire EXCEPT ![conn] = rest]
        /\ UNCHANGED <<setup, ctxDone, job, conn, dials, handle, peer, owed>>
    BY <1>0 DEF ReadOk, Report
  <2>2. /\ conn \in Conns /\ job \in 1..MaxJobs
        /\ wire \in [Conns -> Units] /\ owed \in [Conns -> Units]
    BY <2>1 DEF TypeOK, JobsInOrder
  <2>3. conn # NoConn
    BY <2>2 DEF NoConn, Conns
  <2> QED
    BY <2>1, <2>2, <2>3
<1>2. InFlight = {job} /\ InFlight' = {} /\ WholeAnswers' = WholeAnswers
  BY <1>1 DEF InFlight, WholeAnswers
<1>3. wire[conn] \in Seq(OkJobs \cup {job}) /\ owed[conn] \in Seq(OkJobs \cup {job})
  BY <1>1, <1>2 DEF CacheIsClean
<1>4. n \in 1..Len(wire[conn]) /\ (setup.readBytes # 0 => n = setup.readBytes)
  BY <1>0 DEF Readable
<1>5. /\ units \in Seq(OkJobs \cup {job}) /\ rest \in Seq(OkJobs \cup {job})
      /\ units \in Units /\ rest \in Units
  BY <1>1, <1>3, <1>4, SplitUnits DEF Units
<1>z. units \in Seq(0..MaxJobs)
  BY <1>5, SeqMonotonic DEF Units
<1>6. ASSUME WholeAnswers
      PROVE  /\ units = [k \in 1..setup.replyBytes |-> job]
             /\ rest = <<>> /\ owed[conn] = <<>>
  <2>1. /\ wire[conn] \in Seq({job}) /\ owed[conn] \in Seq({job})
        /\ Len(wire[conn]) + Len(owed[conn]) <= setup.replyBytes
    BY <1>1, <1>6 DEF CacheIsSettled
  <2>2. n = setup.replyBytes
    BY <1>4, <1>6, SetupFacts DEF WholeAnswers
  <2>3. /\ units \in Seq({job}) /\ Len(units) = n /\ rest \in Seq({job})
        /\ Len(rest) = Len(wire[conn]) - n
    BY <1>4, <2>1, SplitUnits
  <2>4. Len(wire[conn]) \in Nat /\ Len(owed[conn]) \in Nat /\ setup.replyBytes \in Nat
    BY <2>1, SetupFacts, LenProperties
  <2>5. Len(rest) = 0 /\ Len(owed[conn]) = 0
    <3>1. n \in Nat /\ n <= Len(wire[conn])
      BY <1>4, <2>2, <2>4
    <3>2. Len(wire[conn]) - n = 0 /\ Len(owed[conn]) = 0
      BY <2>1, <2>2, <2>4, <3>1, UnitsLeft
    <3> QED
      BY <2>3, <3>2
  <2>6. rest = <<>> /\ owed[conn] = <<>>
    BY <2>1, <2>3, <2>5, EmptySeq
  <2>7. units = [k \in 1..setup.replyBytes |-> job]
    <3>1. /\ units \in [1..Len(units) -> {job}]
      BY <2>3, LenProperties
    <3> HIDE DEF units
    <3> QED
      BY <2>2, <2>3, <3>1
  <2> QED
    BY <2>6, <2>7
<1> HIDE DEF units, rest
<1>7. Report(TRUE, units)
  BY <1>0 DEF units
<1>8. /\ results' \in Seq(Result)
      /\ Len(results') = job
      /\ \A i \in DOMAIN results' : results'[i].job = i
      /\ OkJobs' = OkJobs \cup {job}
      /\ AnswersAreClean'
  BY <1>1, <1>5, <1>z, <1>6, <1>7, ReportKeeps
<1>9. CacheIsClean'
  <2>1. /\ conn' = conn /\ owed'[conn] = owed[conn] /\ wire'[conn] = rest
        /\ OkJobs' \cup InFlight' = OkJobs \cup {job}
    BY <1>1, <1>2, <1>8
  <2> QED
    BY <1>3, <1>5, <2>1 DEF CacheIsClean
<1>10. CacheIsSettled'
  BY <1>1, <1>2, <1>6 DEF CacheIsSettled
<1>11. wire' \in [Conns -> Units]
  BY <1>1, <1>5
<1>12. TypeOK' /\ JobsInOrder'
  BY <1>1, <1>8, <1>11 DEF TypeOK, JobsInOrder
<1>13. ConnsInOrder'
  <2>1. dials \in Int /\ conn \in Int /\ conn <= dials
    BY <1>1 DEF TypeOK, JobsInOrder, Conns
  <2>2. \A c \in Conns : c > dials => wire'[c] = wire[c]
    BY <1>1, <2>1
  <2> QED
    BY <1>1, <2>2 DEF ConnsInOrder
<1>14. NoConnectionLeaks'
  BY <1>1 DEF NoConnectionLeaks
<1> QED
  BY <1>8, <1>9, <1>10, <1>12, <1>13, <1>14

\* io.EOF passed for success: nothing was read, and nothing will come.
LEMMA ReadNothingIInv ==
    ASSUME IInv, ReadEOF, setup.protocol = "tcp", wire[conn] = <<>>
    PROVE  IInv'
<1> USE DEF IInv
<1>1. /\ Report(TRUE, Unread) /\ wpc = "read" /\ wpc' = "idle" /\ peer[conn] = "closed"
      /\ conn \in Conns /\ job \in 1..MaxJobs /\ owed[conn] = <<>>
      /\ UNCHANGED <<setup, ctxDone, job, conn, dials, handle, peer, owed, wire>>
  BY DEF ReadEOF, Report, TypeOK, JobsInOrder, ConnsInOrder
<1>2. Unread \in Seq(0..MaxJobs)
  <2>1. Unread \in Seq({0})
    BY AnswerUnits, SetupFacts DEF Unread
  <2>2. {0} \subseteq 0..MaxJobs
    BY SetupFacts
  <2> QED
    BY <2>1, <2>2, SeqMonotonic
<1>3. /\ results' \in Seq(Result)
      /\ Len(results') = job
      /\ \A i \in DOMAIN results' : results'[i].job = i
      /\ AnswersAreClean'
  BY <1>1, <1>2, ReportKeeps
<1>4. CacheIsClean' /\ CacheIsSettled'
  <2>1. /\ conn' = conn /\ wire'[conn] = <<>> /\ owed'[conn] = <<>>
        /\ \A S : <<>> \in Seq(S)
    BY <1>1, EmptySeq
  <2> QED
    BY <1>1, <2>1 DEF CacheIsClean, CacheIsSettled
<1>5. TypeOK' /\ JobsInOrder'
  BY <1>1, <1>3 DEF TypeOK, JobsInOrder
<1>6. NoConnectionLeaks' /\ ConnsInOrder'
  BY <1>1 DEF NoConnectionLeaks, ConnsInOrder
<1> QED
  BY <1>3, <1>4, <1>5, <1>6

LEMMA WorkerExitIInv ==
    ASSUME IInv, WorkerExit
    PROVE  IInv'
<1> USE DEF IInv, WorkerExit
<1>1. OkJobs' = OkJobs /\ InFlight' = {} /\ InFlight = {} /\ WholeAnswers' = WholeAnswers
  BY DEF OkJobs, InFlight, WholeAnswers
<1>2. CacheIsClean' /\ CacheIsSettled' /\ AnswersAreClean'
  BY <1>1, AnswersKept DEF CacheIsClean, CacheIsSettled
<1>3. TypeOK' /\ JobsInOrder'
  BY DEF TypeOK, JobsInOrder, NoConn, Conns
<1>4. /\ conn \in Int /\ conn <= dials /\ dials \in Int
      /\ handle \in [Conns -> {"none", "open", "closed"}]
      /\ \A c \in Conns : /\ c \in Int /\ c # NoConn /\ (c > dials => handle[c] = "none")
                          /\ handle[c] = "open" => c = conn
  BY DEF TypeOK, JobsInOrder, ConnsInOrder, NoConnectionLeaks, NoConn, Conns
<1>5. ASSUME NEW c \in Conns
      PROVE  handle'[c] # "open" /\ (c > dials => handle'[c] = "none")
  <2>1. CASE conn = NoConn
    BY <1>4, <2>1
  <2>2. CASE conn # NoConn
    <3>1. handle'[c] = IF c = conn THEN "closed" ELSE handle[c]
      BY <1>4, <2>2
    <3>2. conn > dials => FALSE
      BY <1>4, <2>2
    <3> QED
      BY <1>4, <3>1, <3>2
  <2> QED
    BY <2>1, <2>2
<1>6. NoConnectionLeaks' /\ ConnsInOrder'
  BY <1>5 DEF NoConnectionLeaks, ConnsInOrder
<1> QED
  BY <1>2, <1>3, <1>6

-----------------------------------------------------------------------------
\* What the peer sends was owed.
LEMMA PeerSendsIInv ==
    ASSUME IInv, NEW c \in Conns, PeerSends(c)
    PROVE  IInv'
<1> USE DEF IInv, PeerSends
<1>1. /\ owed[c] # <<>> /\ peer[c] = "open"
      /\ wire \in [Conns -> Units] /\ owed \in [Conns -> Units]
      /\ wire' = [wire EXCEPT ![c] = Append(wire[c], Head(owed[c]))]
      /\ owed' = [owed EXCEPT ![c] = Tail(owed[c])]
      /\ UNCHANGED <<setup, ctxDone, wpc, job, conn, dials, handle, peer, results>>
  BY DEF TypeOK
<1>2. OkJobs' = OkJobs /\ InFlight' = InFlight /\ WholeAnswers' = WholeAnswers
  BY <1>1 DEF OkJobs, InFlight, WholeAnswers
<1>3. \A S : wire[c] \in Seq(S) /\ owed[c] \in Seq(S) =>
            /\ wire'[c] \in Seq(S) /\ owed'[c] \in Seq(S)
            /\ Len(wire'[c]) = Len(wire[c]) + 1 /\ Len(owed'[c]) = Len(owed[c]) - 1
  BY <1>1, MoveUnit
<1>4. \A d \in Conns : d # c => wire'[d] = wire[d] /\ owed'[d] = owed[d]
  BY <1>1
<1>5. wire' \in [Conns -> Units] /\ owed' \in [Conns -> Units]
  <2>1. wire'[c] \in Units /\ owed'[c] \in Units
    BY <1>1, <1>3 DEF Units
  <2> QED
    BY <1>1, <2>1
<1>6. TypeOK' /\ JobsInOrder' /\ NoConnectionLeaks' /\ AnswersAreClean'
  BY <1>1, <1>2, <1>5, AnswersKept DEF TypeOK, JobsInOrder, NoConnectionLeaks
<1>7. ConnsInOrder'
  <2>1. ~(c > dials)
    BY <1>1 DEF ConnsInOrder
  <2>2. \A d \in Conns : peer'[d] = "closed" => d # c
    BY <1>1
  <2> QED
    BY <1>1, <1>4, <2>1, <2>2 DEF ConnsInOrder
<1>8. CacheIsClean'
  <2>1. CASE conn = c
    BY <1>1, <1>2, <1>3, <2>1 DEF CacheIsClean
  <2>2. CASE conn # c
    BY <1>1, <1>2, <1>4, <2>2 DEF CacheIsClean, TypeOK
  <2> QED
    BY <2>1, <2>2
<1>9. CacheIsSettled'
  <2>1. CASE conn = c
    <3> SUFFICES ASSUME WholeAnswers, conn # NoConn, wpc # "exited"
                 PROVE  /\ wpc = "read"
                        /\ wire'[c] \in Seq({job}) /\ owed'[c] \in Seq({job})
                        /\ Len(wire'[c]) + Len(owed'[c]) <= setup.replyBytes
      BY <1>1, <1>2, <2>1 DEF CacheIsSettled
    <3>1. /\ wpc = "read"
          /\ wire[c] \in Seq({job}) /\ owed[c] \in Seq({job})
          /\ Len(wire[c]) + Len(owed[c]) <= setup.replyBytes
      BY <1>1, <2>1 DEF CacheIsSettled
    <3>2. Len(wire[c]) \in Nat /\ Len(owed[c]) \in Nat
      BY <3>1, LenProperties
    <3>3. /\ wire'[c] \in Seq({job}) /\ owed'[c] \in Seq({job})
          /\ Len(wire'[c]) = Len(wire[c]) + 1 /\ Len(owed'[c]) = Len(owed[c]) - 1
      BY <1>3, <3>1
    <3>4. (Len(wire[c]) + 1) + (Len(owed[c]) - 1) <= setup.replyBytes
      BY <3>1, <3>2, SetupFacts, UnitsLeft
    <3> QED
      BY <3>1, <3>3, <3>4
  <2>2. CASE conn # c
    BY <1>1, <1>2, <1>4, <2>2 DEF CacheIsSettled, TypeOK
  <2> QED
    BY <2>1, <2>2
<1> QED
  BY <1>6, <1>7, <1>8, <1>9

LEMMA PeerClosesIInv ==
    ASSUME IInv, NEW c \in Conns, PeerCloses(c)
    PROVE  IInv'
<1> USE DEF IInv, PeerCloses
<1>1. /\ owed \in [Conns -> Units] /\ peer \in [Conns -> {"open", "closed"}]
      /\ owed' = [owed EXCEPT ![c] = <<>>] /\ peer' = [peer EXCEPT ![c] = "closed"]
      /\ UNCHANGED <<setup, ctxDone, wpc, job, conn, dials, handle, wire, results>>
  BY DEF TypeOK
<1>2. OkJobs' = OkJobs /\ InFlight' = InFlight /\ WholeAnswers' = WholeAnswers
  BY <1>1 DEF OkJobs, InFlight, WholeAnswers
<1>3. \A d \in Conns : owed'[d] \in {<<>>, owed[d]}
  BY <1>1
<1>4. Len(<<>>) = 0 /\ \A S : <<>> \in Seq(S)
  BY EmptySeq
<1>5. owed' \in [Conns -> Units] /\ peer' \in [Conns -> {"open", "closed"}]
  BY <1>1, <1>4 DEF Units
<1>6. TypeOK' /\ JobsInOrder' /\ NoConnectionLeaks' /\ AnswersAreClean'
  BY <1>1, <1>2, <1>5, AnswersKept DEF TypeOK, JobsInOrder, NoConnectionLeaks
<1>7. ConnsInOrder'
  BY <1>1, <1>3 DEF ConnsInOrder
<1>8. conn' = conn /\ (conn # NoConn => owed'[conn] \in {<<>>, owed[conn]})
  BY <1>1, <1>3 DEF TypeOK
<1>9. CacheIsClean'
  BY <1>1, <1>2, <1>4, <1>8 DEF CacheIsClean
<1>10. CacheIsSettled'
  <2>1. CASE conn # NoConn /\ wpc = "read" /\ WholeAnswers
    <3>1. /\ wire[conn] \in Seq({job}) /\ owed[conn] \in Seq({job})
          /\ Len(wire[conn]) + Len(owed[conn]) <= setup.replyBytes
      BY <2>1 DEF CacheIsSettled
    <3>2. Len(wire[conn]) \in Nat /\ Len(owed[conn]) \in Nat /\ setup.replyBytes \in Nat
      BY <3>1, LenProperties, SetupFacts
    <3>3. owed'[conn] \in Seq({job}) /\ Len(owed'[conn]) \in Nat
          /\ Len(owed'[conn]) <= Len(owed[conn])
      <4>1. CASE owed'[conn] = <<>>
        <5>1. Len(owed'[conn]) = 0 /\ owed'[conn] \in Seq({job})
          BY <1>4, <4>1
        <5> QED
          BY <3>2, <5>1
      <4>2. CASE owed'[conn] = owed[conn]
        BY <3>1, <3>2, <4>2
      <4> QED
        BY <1>8, <2>1, <4>1, <4>2
    <3>4. Len(wire[conn]) + Len(owed'[conn]) <= setup.replyBytes
      <4>1. Len(owed'[conn]) \in 0..Len(owed[conn])
        BY <3>2, <3>3
      <4> QED
        BY <3>1, <3>2, <4>1, UnitsLeft
    <3> QED
      BY <1>1, <1>2, <2>1, <3>1, <3>3, <3>4 DEF CacheIsSettled
  <2>2. CASE ~(conn # NoConn /\ wpc = "read" /\ WholeAnswers)
    BY <1>1, <1>2, <1>8, <2>2 DEF CacheIsSettled
  <2> QED
    BY <2>1, <2>2
<1> QED
  BY <1>6, <1>7, <1>9, <1>10

-----------------------------------------------------------------------------
LEMMA InitIInv == Init => IInv
<1> SUFFICES ASSUME Init PROVE IInv
  OBVIOUS
<1>1. DOMAIN <<>> = {} /\ Len(<<>>) = 0 /\ \A S : <<>> \in Seq(S)
  BY EmptySeq
<1>2. TypeOK
  <2>1. job \in 0..MaxJobs /\ dials \in 0..job
    BY ConnWorkerAssumption DEF Init
  <2>2. owed \in [Conns -> Units] /\ wire \in [Conns -> Units]
    BY <1>1 DEF Init, Units
  <2>3. results \in Seq(Result)
    BY <1>1 DEF Init
  <2> QED
    BY <2>1, <2>2, <2>3 DEF Init, TypeOK, NoConn
<1>3. NoConnectionLeaks /\ JobsInOrder /\ ConnsInOrder /\ CacheIsClean /\ CacheIsSettled
  BY <1>1 DEF Init, NoConnectionLeaks, JobsInOrder, ConnsInOrder, CacheIsClean, CacheIsSettled,
              NoConn
<1>4. AnswersAreClean
  BY <1>1 DEF Init, AnswersAreClean, OkJobs
<1> QED
  BY <1>2, <1>3, <1>4 DEF IInv

LEMMA NextIInv == IInv /\ [Next]_vars => IInv'
<1> SUFFICES ASSUME IInv, [Next]_vars PROVE IInv'
  OBVIOUS
<1>1. CASE DialFails \/ WriteFails \/ ReadTimeout
  <2>1. DialFails => conn = NoConn
    BY DEF IInv, JobsInOrder, DialFails
  <2> QED
    BY <1>1, <2>1, FailureIInv DEF DialFails, WriteFails, ReadTimeout
<1>2. CASE ReadEOF
  <2>1. CASE setup.protocol = "tcp" /\ wire[conn] = <<>>
    BY <1>2, <2>1, ReadNothingIInv
  <2>2. CASE ~(setup.protocol = "tcp" /\ wire[conn] = <<>>)
    BY <1>2, <2>2, FailureIInv DEF ReadEOF
  <2> QED
    BY <2>1, <2>2
<1>3. CASE Cancel \/ UNCHANGED vars
  <2>1. AnswersAreClean'
    BY <1>3, AnswersKept DEF Cancel, vars, IInv
  <2> QED
    BY <1>3, <2>1 DEF Cancel, vars, IInv, TypeOK, NoConnectionLeaks, JobsInOrder, ConnsInOrder,
                      CacheIsClean, CacheIsSettled, OkJobs, InFlight, WholeAnswers
<1> QED
  BY <1>1, <1>2, <1>3, TakeJobIInv, DialOkIInv, WriteOkIInv, ReadOkIInv, WorkerExitIInv,
     PeerSendsIInv, PeerClosesIInv
  DEF Next, Work

THEOREM Inductive == Spec => []IInv
BY InitIInv, NextIInv, PTL DEF Spec

(***************************************************************************)
(* TypeOK for every instance: in particular a job dials at most once.      *)
(***************************************************************************)
THEOREM TypeCorrect == Spec => []TypeOK
BY Inductive, PTL DEF IInv

(***************************************************************************)
(* NoConnectionLeaks for every instance: the cached connection is the only *)
(* open one, and none is when the worker has returned.                     *)
(***************************************************************************)
THEOREM ConnectionsAreClosed == Spec => []NoConnectionLeaks
BY Inductive, PTL DEF IInv

(***************************************************************************)
(* OwnAnswer for every instance: an answer that comes late, after its job  *)
(* failed, is never taken for the answer to a later job.                   *)
(***************************************************************************)
THEOREM AnswersAreOwn == Spec => []OwnAnswer
<1>1. IInv => OwnAnswer
  <2> SUFFICES ASSUME IInv, NEW i \in OkJobs
               PROVE  \/ results[i].units = [k \in 1..setup.replyBytes |-> results[i].job]
                      \/ NothingRead(results[i])
                      \/ /\ setup.readBytes # setup.replyBytes
                         /\ \A k \in DOMAIN results[i].units :
                               results[i].units[k] # 0 /\ results[results[i].units[k]].ok
    BY DEF OwnAnswer, OkJobs
  <2>1. CASE NothingRead(results[i])
    BY <2>1
  <2>2. CASE ~NothingRead(results[i])
    <3>1. results[i].units \in Seq(OkJobs)
      BY <2>2 DEF IInv, AnswersAreClean
    <3>2. \A k \in DOMAIN results[i].units : results[i].units[k] \in OkJobs
      BY <3>1
    <3>3. 0 \notin OkJobs
      BY DEF OkJobs, IInv, TypeOK
    <3> QED
      BY <2>2, <3>2, <3>3 DEF IInv, AnswersAreClean, WholeAnswers, OkJobs
  <2> QED
    BY <2>1, <2>2
<1> QED
  BY <1>1, Inductive, PTL
=============================================================================

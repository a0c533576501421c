----------------------------- MODULE ConnWorker -----------------------------
(***************************************************************************)
(* A worker of the connection-keeping protocols and its peer:              *)
(* internal/wsworker/worker.go and internal/tcpworker/worker.go.  The      *)
(* worker handles one job at a time; for one target it keeps one           *)
(* connection, writes the payload and reads the answer under a deadline.   *)
(*                                                                         *)
(* The stream is a sequence of units (WebSocket messages, TCP bytes), each *)
(* marked with the job it answers; 0 is a byte that nobody sent.  The peer *)
(* answers in order, at its own pace, and may close at any time, also      *)
(* half-way through an answer.                                             *)
(***************************************************************************)
EXTENDS Integers, Sequences

CONSTANTS
    Setups,      \* the kinds of worker and peer to run, see below
    MaxJobs      \* bound: jobs the worker handles

(***************************************************************************)
(* protocol is "ws" or "tcp"; readBytes is tcp_read_bytes, where 0 reads   *)
(* whatever has arrived; replyBytes is the number of units in an answer of *)
(* the peer.  A WebSocket message is one unit, and so is its answer.       *)
(***************************************************************************)
ASSUME ConnWorkerAssumption ==
    /\ Setups \subseteq [protocol : {"ws", "tcp"}, readBytes : Nat, replyBytes : Nat \ {0}]
    /\ \A s \in Setups :
          s.protocol = "ws" => s.readBytes = 1 /\ s.replyBytes = 1
    /\ MaxJobs \in Nat

Conns == 1..MaxJobs   \* the worker dials at most once for each job
NoConn == 0

VARIABLES
    setup,     \* the worker and its peer, never changed
    ctxDone,   \* the run's context has ended
    wpc,       \* "idle" | "dial" | "write" | "read" | "exited"
    job,       \* the job in hand, or the last one
    conn,      \* conns[target], or NoConn
    dials,     \* connections made so far
    handle,    \* our end of each connection: "none" | "open" | "closed"
    peer,      \* the other end: "open" | "closed"
    owed,      \* units the peer still has to send on each connection
    wire,      \* units that have arrived and are not read yet
    results    \* [job, conn, ok, units] in order

vars == <<setup, ctxDone, wpc, job, conn, dials, handle, peer, owed, wire, results>>

Report(ok, units) ==
    /\ results' = Append(results, [job |-> job, conn |-> conn, ok |-> ok, units |-> units])
    /\ wpc' = "idle"

\* Mutant of Discard: delete without Close.
DiscardOpen == conn' = NoConn /\ UNCHANGED handle

\* delete(conns, target); conn.Close()
Discard ==
    /\ handle' = [handle EXCEPT ![conn] = "closed"]
    /\ conn' = NoConn

-----------------------------------------------------------------------------
\* Mutant of TakeJob: a connection is taken to be there.
TakeJobConnected ==
    /\ wpc = "idle"
    /\ job < MaxJobs
    /\ job' = job + 1
    /\ wpc' = "write"
    /\ UNCHANGED <<setup, ctxDone, conn, dials, handle, peer, owed, wire, results>>

\* A job arrives; a cached connection is used without a look at its state.
TakeJob ==
    /\ wpc = "idle"
    /\ job < MaxJobs
    /\ job' = job + 1
    /\ wpc' = IF conn = NoConn THEN "dial" ELSE "write"
    /\ UNCHANGED <<setup, ctxDone, conn, dials, handle, peer, owed, wire, results>>

DialOk ==
    /\ wpc = "dial"
    /\ dials' = dials + 1
    /\ conn' = dials + 1
    /\ handle' = [handle EXCEPT ![dials + 1] = "open"]
    /\ wpc' = "write"
    /\ UNCHANGED <<setup, ctxDone, job, peer, owed, wire, results>>

DialFails ==
    /\ wpc = "dial"
    /\ Report(FALSE, <<>>)
    /\ UNCHANGED <<setup, ctxDone, job, conn, dials, handle, peer, owed, wire>>

\* The write succeeds, into the void when the peer has just closed.
WriteOk ==
    /\ wpc = "write"
    /\ owed' = IF peer[conn] = "open"
               THEN [owed EXCEPT ![conn] = @ \o [i \in 1..setup.replyBytes |-> job]]
               ELSE owed
    /\ wpc' = "read"
    /\ UNCHANGED <<setup, ctxDone, job, conn, dials, handle, peer, wire, results>>

WriteFails ==
    /\ wpc = "write"
    /\ peer[conn] = "closed"
    /\ Discard
    /\ Report(FALSE, <<>>)
    /\ UNCHANGED <<setup, ctxDone, job, dials, peer, owed, wire>>

\* How many units a successful read returns: one message, the number asked for,
\* or any that have arrived.
Readable ==
    IF setup.readBytes = 0 THEN 1..Len(wire[conn])
    ELSE {setup.readBytes} \cap (1..Len(wire[conn]))

ReadOk ==
    /\ wpc = "read"
    /\ \E n \in Readable :
          /\ Report(TRUE, SubSeq(wire[conn], 1, n))
          /\ wire' = [wire EXCEPT ![conn] = SubSeq(@, n + 1, Len(@))]
    /\ UNCHANGED <<setup, ctxDone, job, conn, dials, handle, peer, owed>>

\* Mutant of ReadTimeout: the connection is kept.
ReadTimeoutKeeps ==
    /\ wpc = "read"
    /\ Report(FALSE, <<>>)
    /\ UNCHANGED <<setup, ctxDone, job, conn, dials, handle, peer, owed, wire>>

\* Mutant of ReadTimeout: no SetReadDeadline, so only a reset ends a read.
ReadTimeoutReset ==
    /\ wpc = "read"
    /\ peer[conn] = "closed"
    /\ Discard
    /\ Report(FALSE, <<>>)
    /\ UNCHANGED <<setup, ctxDone, job, dials, peer, owed, wire>>

\* The deadline passes, or the connection is reset: it goes, together with the
\* answer that may come late.
ReadTimeout ==
    /\ wpc = "read"
    /\ Discard
    /\ Report(FALSE, <<>>)
    /\ UNCHANGED <<setup, ctxDone, job, dials, peer, owed, wire>>

\* The TCP worker's buffer when not a byte could be read: it was made with
\* tcp_read_bytes bytes, all zero, or cut to none.
Unread == [k \in 1..setup.readBytes |-> 0]

\* The peer closed before the answer was complete.  With nothing read the error
\* is io.EOF, which the TCP worker lets pass: it reports status 200 with the whole
\* buffer and keeps the connection.  After a part of it, it is io.ErrUnexpectedEOF.
ReadEOF ==
    /\ wpc = "read"
    /\ peer[conn] = "closed"
    /\ Readable = {}
    /\ IF setup.protocol = "tcp" /\ wire[conn] = <<>>
       THEN Report(TRUE, Unread) /\ UNCHANGED <<handle, conn>>
       ELSE Report(FALSE, <<>>) /\ Discard
    /\ UNCHANGED <<setup, ctxDone, job, dials, peer, owed, wire>>

\* The context ends the worker between two jobs; the deferred function closes
\* the cached connection.
WorkerExit ==
    /\ wpc = "idle"
    /\ ctxDone
    /\ wpc' = "exited"
    /\ handle' = IF conn = NoConn THEN handle ELSE [handle EXCEPT ![conn] = "closed"]
    /\ UNCHANGED <<setup, ctxDone, job, conn, dials, peer, owed, wire, results>>

-----------------------------------------------------------------------------
\* The peer sends the next unit it owes ...
PeerSends(c) ==
    /\ peer[c] = "open"
    /\ owed[c] # <<>>
    /\ wire' = [wire EXCEPT ![c] = Append(@, Head(owed[c]))]
    /\ owed' = [owed EXCEPT ![c] = Tail(@)]
    /\ UNCHANGED <<setup, ctxDone, wpc, job, conn, dials, handle, peer, results>>

\* ... or closes, whatever it owes.
PeerCloses(c) ==
    /\ handle[c] = "open"
    /\ peer[c] = "open"
    /\ peer' = [peer EXCEPT ![c] = "closed"]
    /\ owed' = [owed EXCEPT ![c] = <<>>]
    /\ UNCHANGED <<setup, ctxDone, wpc, job, conn, dials, handle, wire, results>>

Cancel ==
    /\ ~ctxDone
    /\ ctxDone' = TRUE
    /\ UNCHANGED <<setup, wpc, job, conn, dials, handle, peer, owed, wire, results>>

Init ==
    /\ setup \in Setups
    /\ ctxDone = FALSE
    /\ wpc = "idle" /\ job = 0 /\ conn = NoConn /\ dials = 0
    /\ handle = [c \in Conns |-> "none"]
    /\ peer = [c \in Conns |-> "open"]
    /\ owed = [c \in Conns |-> <<>>]
    /\ wire = [c \in Conns |-> <<>>]
    /\ results = <<>>

Work ==
    \/ DialOk \/ DialFails \/ WriteOk \/ WriteFails
    \/ ReadOk \/ ReadTimeout \/ ReadEOF

Next ==
    \/ TakeJob \/ Work \/ WorkerExit
    \/ \E c \in Conns : PeerSends(c) \/ PeerCloses(c)
    \/ Cancel

(***************************************************************************)
(* The worker runs: dials and reads have timeouts, and the payload of a    *)
(* write, which has none, is taken to fit the socket's buffer.  Nothing is *)
(* assumed of the peer.                                                    *)
(***************************************************************************)
Spec == Init /\ [][Next]_vars /\ WF_vars(Work)

-----------------------------------------------------------------------------
Units == Seq(1..MaxJobs)

Result ==
    [job : 1..MaxJobs, conn : Conns \cup {NoConn}, ok : BOOLEAN, units : Seq(0..MaxJobs)]

TypeOK ==
    /\ setup \in Setups
    /\ ctxDone \in BOOLEAN
    /\ wpc \in {"idle", "dial", "write", "read", "exited"}
    /\ job \in 0..MaxJobs
    /\ conn \in Conns \cup {NoConn}
    /\ wpc \in {"write", "read"} => conn \in Conns
    /\ dials \in 0..job
    /\ handle \in [Conns -> {"none", "open", "closed"}]
    /\ peer \in [Conns -> {"open", "closed"}]
    /\ owed \in [Conns -> Units] /\ wire \in [Conns -> Units]
    /\ results \in Seq(Result)

\* A job that found its connection closed by the peer and succeeded all the same.
NothingRead(r) ==
    setup.protocol = "tcp" /\ r.units = Unread /\ peer[r.conn] = "closed"

(***************************************************************************)
(* A successful result carries the whole answer to its own job and nothing *)
(* of an earlier one, although answers arrive late, after a timeout, and   *)
(* although successive jobs share the connection (wsworker/worker.go:      *)
(* 79-90, tcpworker/worker.go:79-102).  For TCP there is one exception,    *)
(* NothingRead: the peer has closed the connection of the job, io.EOF      *)
(* passed for success, and the body is tcp_read_bytes zeros (or empty), so *)
(* never a mixture of the two.  With a tcp_read_bytes other than the       *)
(* length of an answer, an answer may be cut and its rest read by the next *)
(* job, but no job reads what a failed one left behind.                    *)
(***************************************************************************)
OwnAnswer ==
    \A i \in DOMAIN results : results[i].ok =>
        LET units == results[i].units IN
        \/ units = [k \in 1..setup.replyBytes |-> results[i].job]
        \/ NothingRead(results[i])
        \/ /\ setup.readBytes # setup.replyBytes
           /\ \A k \in DOMAIN units : units[k] # 0 /\ results[units[k]].ok

(***************************************************************************)
(* No connection is left open behind the cache: the only open one is the   *)
(* cached one, and none is once the worker has returned (the deferred      *)
(* loop and the delete/Close pairs).                                       *)
(***************************************************************************)
NoConnectionLeaks ==
    \A c \in Conns : handle[c] = "open" => c = conn /\ wpc # "exited"

(***************************************************************************)
(* Whatever the peer does, a job in hand ends in a result.                 *)
(***************************************************************************)
EveryJobReported ==
    \A j \in 1..MaxJobs :
        (job = j /\ wpc # "idle") ~> (Len(results) >= j)
=============================================================================

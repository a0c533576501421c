---------------------------- MODULE MCConnWorker ----------------------------
(***************************************************************************)
(* The WebSocket worker, and the TCP worker reading whole answers of two   *)
(* bytes, one byte of them, or whatever has arrived of answers of one or   *)
(* two.                                                                    *)
(***************************************************************************)
EXTENDS ConnWorker

Setup(p, read, reply) == [protocol |-> p, readBytes |-> read, replyBytes |-> reply]

MCSetups == {Setup("ws", 1, 1), Setup("tcp", 2, 2), Setup("tcp", 1, 2),
             Setup("tcp", 0, 1), Setup("tcp", 0, 2)}
=============================================================================

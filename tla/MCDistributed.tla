---------------------------- MODULE MCDistributed ---------------------------
(***************************************************************************)
(* Two agents, with distinct ids or, as in the README's agents.yaml, with  *)
(* none.                                                                   *)
(***************************************************************************)
EXTENDS Distributed, TLC

CONSTANTS a1, a2, noId

OwnIds == [a \in Agents |-> a]
SameId == [a \in Agents |-> noId]
WithAndWithoutIds == {OwnIds, SameId}
=============================================================================

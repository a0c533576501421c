----------------------------- MODULE MCLoadRun ------------------------------
(***************************************************************************)
(* Small pipelines for LoadRun: `sudd run --url` with one pool, and `sudd  *)
(* run --scenario` with two.                                               *)
(***************************************************************************)
EXTENDS LoadRun, TLC

CONSTANTS http, tcp, w1, w2

UrlRun == [scenario |-> FALSE, poolOf |-> [w \in {w1, w2} |-> http]]
ScenarioRun == [scenario |-> TRUE, poolOf |-> w1 :> http @@ w2 :> tcp]

BothForms == {UrlRun, ScenarioRun}
ScenarioOnly == {ScenarioRun}
=============================================================================

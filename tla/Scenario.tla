------------------------------- MODULE Scenario -----------------------------
(***************************************************************************)
(* The functions of internal/scenario: validation, the choice of an        *)
(* endpoint, the substitution of variables, and the update of the chain    *)
(* store.                                                                  *)
(*                                                                         *)
(* A scenario is [name, stages, endpoints], a stage its duration: "ok" or  *)
(* "bad".  A URL or a body is a sequence of pieces, <<"lit", text>> or     *)
(* <<"var", v>>; a variable v is a sequence: <<"uuid">>, <<"env", name>>,  *)
(* <<"random_int", 1, 10>>, or <<endpoint, name>> of the chain store.      *)
(***************************************************************************)
EXTENDS Responses

Kind(ep) == CASE "grpc" \in ep.targets -> "grpc"
              [] "ws" \in ep.targets   -> "ws"
              [] "tcp" \in ep.targets  -> "tcp"
              [] OTHER                 -> "http"

Acceptable(ep) ==
    /\ ep.weight > 0
    /\ CASE Kind(ep) = "grpc" -> ep.grpcMethod # ""
         [] Kind(ep) = "ws"   -> ep.wsReadTimeout # "bad"
         [] Kind(ep) = "tcp"  -> ep.tcpReadTimeout # "bad"
         [] Kind(ep) = "http" -> ep.url # <<>>

\* No error from Validate.
Valid(s) ==
    /\ s.name # ""
    /\ s.stages # <<>> /\ \A i \in DOMAIN s.stages : s.stages[i] # "bad"
    /\ s.endpoints # <<>> /\ \A i \in DOMAIN s.endpoints : Acceptable(s.endpoints[i])

\* What Validate fills in.
Completed(ep) ==
    IF Kind(ep) = "http" /\ ep.method = "" THEN [ep EXCEPT !.method = "GET"] ELSE ep

-----------------------------------------------------------------------------
Cumulative(endpoints) ==
    LET sum[i \in 0..Len(endpoints)] ==
            IF i = 0 THEN 0 ELSE sum[i - 1] + endpoints[i].weight
    IN sum

\* rand.Intn draws one of these; it panics if there is none.
Draws(endpoints) == 0..(Cumulative(endpoints)[Len(endpoints)] - 1)

First(indices) == CHOOSE i \in indices : \A j \in indices : i <= j

\* Mutant of PickEndpoint: r <= cumulative.
PickEndpointOffByOne(endpoints, r) ==
    IF Len(endpoints) = 1 THEN 1
    ELSE First({i \in DOMAIN endpoints : r <= Cumulative(endpoints)[i]}
               \cup {Len(endpoints)})

\* The index of the endpoint that draw r chooses.
PickEndpoint(endpoints, r) ==
    IF Len(endpoints) = 1 THEN 1
    ELSE First({i \in DOMAIN endpoints : r < Cumulative(endpoints)[i]}
               \cup {Len(endpoints)})

-----------------------------------------------------------------------------
\* {{...}} is left as it is if nothing is known by that name.  A value keeps the
\* name it was put in for (for a property).
Replaced(piece, known) ==
    LET v == piece[2] IN
    CASE piece[1] = "lit"                        -> piece
      [] piece[1] = "var" /\ v \in DOMAIN known  -> <<"value", known[v], v>>
      [] OTHER ->
            IF \/ Head(v) \in {"uuid", "timestamp", "env"}
               \/ Head(v) = "random_int" /\ Len(v) = 3 /\ v[2] <= v[3]
            THEN <<"made", v>> ELSE piece

ReplaceVars(pieces, known) == [i \in DOMAIN pieces |-> Replaced(pieces[i], known)]

\* "$." in front of a path is cut off.
Trimmed(path) == IF Len(path) > 1 /\ Head(path) = "$" THEN Tail(path) ELSE path

\* The variables of the endpoint that a body has a value for.
Extracted(ep, json) ==
    {v \in DOMAIN ep.extract :
        json.kind = "object" /\ GetNestedValue(json, Trimmed(ep.extract[v])) # <<>>}

\* Mutant of Stored: "" is stored as well.
StoredEmpty(data, ep, json) ==
    LET new == {<<ep.name, v>> : v \in DOMAIN ep.extract}
    IN [k \in DOMAIN data \cup new |->
            IF k \in new THEN GetNestedValue(json, Trimmed(ep.extract[k[2]])) ELSE data[k]]

\* Mutant of Stored: the map is made anew for each response.
StoredAnew(data, ep, json) ==
    [k \in {<<ep.name, v>> : v \in Extracted(ep, json)} |->
        GetNestedValue(json, Trimmed(ep.extract[k[2]]))]

\* ChainStore.Store, under its lock.
Stored(data, ep, json) ==
    LET new == {<<ep.name, v>> : v \in Extracted(ep, json)}
    IN [k \in DOMAIN data \cup new |->
            IF k \in new THEN GetNestedValue(json, Trimmed(ep.extract[k[2]])) ELSE data[k]]
=============================================================================

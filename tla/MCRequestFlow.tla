---------------------------- MODULE MCRequestFlow ---------------------------
(***************************************************************************)
(* Scenarios of one or two endpoints and a server that answers each        *)
(* endpoint well, badly, or without something that is looked for.          *)
(***************************************************************************)
EXTENDS RequestFlow, TLC

CONSTANTS w1, w2

TwoWorkers == {w1, w2}

Plain(name, weight) ==
    [name |-> name, weight |-> weight, targets |-> {}, grpcMethod |-> "",
     wsReadTimeout |-> "", tcpReadTimeout |-> "", method |-> "",
     url |-> << <<"lit", name>> >>, body |-> <<>>, headers |-> <<>>, expectedStatus |-> "",
     extract |-> <<>>, assertions |-> <<>>, session |-> FALSE]

Says(type) ==
    [type |-> type, key |-> "", path |-> <<>>, value |-> <<>>, equals |-> <<>>,
     contains |-> <<>>]

Login ==
    [Plain("login", 1) EXCEPT !.session = TRUE, !.expectedStatus = "200",
        !.method = "POST",
        !.extract = [token |-> <<"$", "user", "token">>, name |-> <<"user", "name">>]]

Use ==
    [Plain("use", 2) EXCEPT !.session = TRUE,
        !.url = << <<"lit", "/use/">>, <<"var", <<"login", "token">>>> >>,
        !.body = << <<"var", <<"login", "name">>>>, <<"var", <<"uuid">>>>,
                    <<"var", <<"random_int", 1, 10>>>> >>,
        !.headers = << <<"lit", "Bearer">>, <<"var", <<"env", "API_TOKEN">>>> >>]

\* A second endpoint with a variable.
Again ==
    [Plain("again", 1) EXCEPT !.extract = [id |-> <<"id">>],
        !.url = << <<"var", <<"login", "token">>>>, <<"var", <<"again", "id">>>> >>,
        !.body = << <<"var", <<"again", "id">>>>, <<"var", <<"login", "name">>>> >>]

Checked ==
    [Plain("use", 1) EXCEPT !.assertions =
        <<[Says("status") EXCEPT !.value = <<"200">>],
          [Says("body_contains") EXCEPT !.contains = <<"done">>],
          [Says("header") EXCEPT !.key = "type", !.equals = <<"json">>],
          [Says("json_field") EXCEPT !.path = <<"items", "0">>, !.equals = <<"done">>]>>]

ChecksJSON ==
    [Plain("use", 1) EXCEPT !.assertions =
        <<[Says("json_field") EXCEPT !.path = <<"items", "0">>, !.value = <<"done">>]>>]

Odd(assertion) == [Plain("use", 1) EXCEPT !.assertions = <<assertion>>]

Call(target) == [Plain("call", 2) EXCEPT !.targets = {target, "tcp"}]

Steps(endpoints) == [name |-> "s", stages |-> <<"ok">>, endpoints |-> endpoints]

SomeScenarios ==
    {Steps(<<Login, Use>>), Steps(<<Login, Again>>), Steps(<<Checked>>), Steps(<<ChecksJSON>>),
     Steps(<<Odd(Says("header"))>>), Steps(<<Odd(Says("time"))>>),
     Steps(<<Odd([Says("json_field") EXCEPT !.path = <<"items", "x">>])>>),
     Steps(<<[Call("grpc") EXCEPT !.grpcMethod = "m"], Plain("use", 1), Call("ws")>>),
     \* and those that are rejected
     [Steps(<<Login>>) EXCEPT !.name = ""], [Steps(<<Login>>) EXCEPT !.stages = <<>>],
     [Steps(<<Login>>) EXCEPT !.stages = <<"ok", "bad">>], Steps(<<>>),
     Steps(<<Use, [Login EXCEPT !.weight = 0]>>), Steps(<<Call("grpc")>>),
     Steps(<<[Call("ws") EXCEPT !.wsReadTimeout = "bad"]>>),
     Steps(<<[Call("tcp") EXCEPT !.tcpReadTimeout = "bad"]>>),
     Steps(<<[Use EXCEPT !.url = <<>>]>>)}

Leaf(text) == [kind |-> "leaf", text |-> text]
Object(fields) == [kind |-> "object", fields |-> fields]

Page(status, cookie, words, json) ==
    [status |-> status, cookie |-> cookie, header |-> [type |-> <<"json">>],
     words |-> words, json |-> json, begins |-> <<>>]

ServerAnswers(name, n) ==
    IF name = "login"
    THEN {Page("200", TRUE, <<"welcome">>,
               Object([user |-> Object([token |-> Leaf(<<"t", n>>),
                                        name |-> Leaf(<<"u", n>>)])])),
          Page("200", TRUE, <<"welcome">>,
               Object([user |-> Object([token |-> Leaf(<<"t", n>>),
                                        name |-> Leaf(<<>>)])])),
          Page("401", FALSE, <<"refused">>, Object([error |-> Leaf(<<"refused">>)]))}
    ELSE IF name = "again"
    THEN {Page("200", FALSE, <<"is", "done">>, Object([id |-> Leaf(<<"i", n>>)]))}
    ELSE {Page("200", FALSE, <<"is", "done">>,
               Object([items |-> [kind |-> "array", items |-> <<Leaf(<<"done">>)>>]])),
          Page("200", FALSE, <<"is", "done">>,
               Object([items |-> [kind |-> "array", items |-> <<Leaf(<<"lost">>)>>]])),
          \* two documents, one after the other
          [Page("200", FALSE, <<"done", "lost">>, NoJSON) EXCEPT !.begins =
              <<Object([items |-> [kind |-> "array", items |-> <<Leaf(<<"done">>)>>]])>>],
          Page("500", FALSE, <<>>, NoJSON)}

Symmetry == Permutations(TwoWorkers)
=============================================================================

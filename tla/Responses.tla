------------------------------ MODULE Responses -----------------------------
(***************************************************************************)
(* What the program does with the body of a response: the assertions of an *)
(* endpoint (internal/assertions/assertions.go) and the value that chaining*)
(* extracts (internal/scenario/chain.go).                                  *)
(*                                                                         *)
(* A text is a sequence of words, and "contains" is about consecutive ones.*)
(* A JSON value is [kind |-> "object", fields |-> a function],             *)
(* [kind |-> "array", items |-> a sequence] or [kind |-> "leaf",           *)
(* text |-> what %v prints] (null prints as <nil>); "invalid" is the kind  *)
(* of a body that does not parse.  A status is its decimal string.         *)
(***************************************************************************)
EXTENDS Integers, Sequences

NoJSON == [kind |-> "invalid"]
Missing == [kind |-> "missing"]

Printed(node) ==
    CASE node.kind = "leaf"   -> node.text
      [] node.kind = "object" -> <<"map">>
      [] node.kind = "array"  -> <<"list">>

Contains(text, needle) ==
    \E i \in 1..(Len(text) - Len(needle) + 1) :
        SubSeq(text, i, i + Len(needle) - 1) = needle

Numerals == <<"0", "1", "2", "3">>

Field(node, key) ==
    IF node.kind = "object" /\ key \in DOMAIN node.fields THEN node.fields[key]
    ELSE Missing

FieldOrItem(node, key) ==
    IF node.kind # "array" THEN Field(node, key)
    ELSE LET index == {i \in DOMAIN node.items : Numerals[i] = key}
         IN IF index = {} THEN Missing ELSE node.items[CHOOSE i \in index : TRUE]

Follow(root, path, Into(_, _)) ==
    LET node[i \in 0..Len(path)] ==
            IF i = 0 THEN root ELSE Into(node[i - 1], path[i])
    IN node[Len(path)]

\* Into objects and, with a number, into arrays.
WalkPath(root, path) == Follow(root, path, FieldOrItem)

\* Into objects only; <<>> is the empty string that stands for "not there".
GetNestedValue(root, path) ==
    LET node == Follow(root, path, Field)
    IN IF node = Missing THEN <<>> ELSE Printed(node)

-----------------------------------------------------------------------------
\* An assertion is [type, key, path, value, equals, contains]; its texts are
\* <<>> and its strings "" where the scenario does not give them.
Either(first, second, none) == IF first # none THEN first ELSE second

CheckStatus(a, resp) ==
    LET want == Either(a.value, a.equals, <<>>)
    IN want = <<>> \/ want = <<resp.status>>

CheckBodyContains(a, resp) ==
    LET needle == Either(a.value, a.contains, <<>>)
    IN needle = <<>> \/ Contains(resp.words, needle)

\* A header that is absent reads as the empty string; case is ignored.
CheckHeader(a, resp) ==
    LET actual == IF a.key \in DOMAIN resp.header THEN resp.header[a.key] ELSE <<>>
    IN /\ a.key # ""
       /\ a.equals = <<>> \/ actual = a.equals
       /\ a.contains = <<>> \/ Contains(actual, a.contains)

\* Mutant of CheckJSONField: a body that does not parse is not checked.
CheckJSONFieldIfAny(a, resp) ==
    LET node == WalkPath(resp.json, a.path)
        want == Either(a.value, a.equals, <<>>)
    IN resp.json = NoJSON \/
       (/\ a.path # <<>> /\ node # Missing
        /\ want = <<>> \/ Printed(node) = want
        /\ a.contains = <<>> \/ Contains(Printed(node), a.contains))

CheckJSONField(a, resp) ==
    LET node == WalkPath(resp.json, a.path)
        want == Either(a.value, a.equals, <<>>)
    IN /\ a.path # <<>> /\ resp.json # NoJSON /\ node # Missing
       /\ want = <<>> \/ Printed(node) = want
       /\ a.contains = <<>> \/ Contains(Printed(node), a.contains)

\* Run: no assertion fails.  One of an unknown type does.
Passes(assertions, resp) ==
    \A i \in DOMAIN assertions :
        LET a == assertions[i] IN
        CASE a.type = "status"        -> CheckStatus(a, resp)
          [] a.type = "body_contains" -> CheckBodyContains(a, resp)
          [] a.type = "header"        -> CheckHeader(a, resp)
          [] a.type = "json_field"    -> CheckJSONField(a, resp)
          [] OTHER                    -> FALSE
=============================================================================

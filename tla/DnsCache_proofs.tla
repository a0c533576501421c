--------------------------- MODULE DnsCache_proofs --------------------------
(***************************************************************************)
(* For any number of workers, any TTL and any limit on the time of a       *)
(* query: what a lookup returns as valid is boundedly stale, and the cache *)
(* goes back in time by one query at most.                                 *)
(***************************************************************************)
EXTENDS DnsCache, TLAPS

\* An entry was stored at expires - TTL, at the end of the query that made it.
Sound(e) ==
    e # Missing => /\ e.asOf <= now
                   /\ e.expires <= e.asOf + MaxQuery + TTL

AllSound == Sound(cache) /\ \A w \in Workers : Sound(entry[w])

InTime ==
    \A w \in Workers :
        /\ asked[w] <= now
        /\ pc[w] = "query" => now <= asked[w] + MaxQuery

IInv == TypeOK /\ AllSound /\ InTime

-----------------------------------------------------------------------------
LEMMA InitIInv == Init => IInv
<1> QED
  BY DnsCacheAssumption DEF Init, IInv, TypeOK, AllSound, Sound, InTime

\* Time going on does not make an entry unsound.
LEMMA SoundLater ==
    ASSUME IInv, now' \in Nat, now <= now', NEW e \in Entries \cup {Missing}, Sound(e)
    PROVE  e # Missing => /\ e.asOf <= now'
                          /\ e.expires <= e.asOf + MaxQuery + TTL
<1> QED
  BY DnsCacheAssumption DEF IInv, TypeOK, Sound, Entries

LEMMA NextIInv == IInv /\ [Next]_vars => IInv'
<1> SUFFICES ASSUME IInv, [Next]_vars PROVE IInv'
  OBVIOUS
<1> USE DnsCacheAssumption DEF IInv, TypeOK
<1>1. CASE Tick
  <2>1. now \in Nat /\ now' = now + 1 /\ UNCHANGED <<cache, pc, entry, asked>>
    BY <1>1 DEF Tick
  <2>2. AllSound'
    BY <2>1, SoundLater DEF AllSound, Sound
  <2>3. InTime'
    BY <1>1, <2>1 DEF Tick, InTime
  <2> QED
    BY <2>1, <2>2, <2>3
<1>2. ASSUME NEW w \in Workers, ReadCache(w) PROVE IInv'
  BY <1>2 DEF ReadCache, Goto, AllSound, Sound, InTime
<1>3. ASSUME NEW w \in Workers, Hit(w) PROVE IInv'
  BY <1>3 DEF Hit, Goto, AllSound, Sound, InTime
<1>4. ASSUME NEW w \in Workers, Query(w) PROVE IInv'
  BY <1>4 DEF Query, Goto, AllSound, Sound, InTime
<1>5. ASSUME NEW w \in Workers, Answered(w) PROVE IInv'
  <2>1. PICK t \in asked[w]..now : cache' = [asOf |-> t, expires |-> now + TTL]
    BY <1>5 DEF Answered
  <2>2. /\ now \in Nat /\ asked[w] \in Nat /\ now <= asked[w] + MaxQuery
        /\ UNCHANGED <<now, entry, asked>>
    BY <1>5 DEF Answered, InTime
  <2>3. cache' \in Entries /\ cache'.asOf = t /\ cache'.expires = now + TTL
    BY <2>1, <2>2 DEF Entries
  <2>4. AllSound'
    BY <2>1, <2>2, <2>3 DEF AllSound, Sound
  <2>5. InTime' /\ pc' \in [Workers -> {"idle", "look", "query"}]
    BY <1>5, <2>2 DEF Answered, Goto, InTime
  <2> QED
    BY <2>2, <2>3, <2>4, <2>5
<1>6. ASSUME NEW w \in Workers, NoAnswer(w) PROVE IInv'
  BY <1>6 DEF NoAnswer, Goto, AllSound, Sound, InTime
<1>7. CASE UNCHANGED vars
  BY <1>7 DEF vars, AllSound, Sound, InTime
<1> QED
  BY <1>1, <1>2, <1>3, <1>4, <1>5, <1>6, <1>7 DEF Next, Lookup

LEMMA Inductive == Spec => []IInv
<1> QED
  BY InitIInv, NextIInv, PTL DEF Spec

-----------------------------------------------------------------------------
(***************************************************************************)
(* The cached entry and the copies that lookups hold keep their types,     *)
(* however lookups overlap (resolver.go:67-104).                           *)
(***************************************************************************)
THEOREM TypeCorrect == Spec => []TypeOK
<1>1. IInv => TypeOK
  BY DEF IInv
<1> QED
  BY Inductive, <1>1, PTL

(***************************************************************************)
(* A cached address returned as valid was true within the last TTL and one *)
(* query, however lookups overlap (resolver.go:75-81).                     *)
(***************************************************************************)
THEOREM StalenessBound == Spec => []BoundedStaleness
<1>1. IInv => BoundedStaleness
  <2> SUFFICES ASSUME IInv, NEW e \in {cache} \cup {entry[w] : w \in Workers}, Valid(e)
               PROVE  now - e.asOf < TTL + MaxQuery
    BY DEF BoundedStaleness
  <2>1. e \in Entries /\ Sound(e)
    BY DEF IInv, TypeOK, AllSound, Valid
  <2> QED
    BY <2>1, DnsCacheAssumption DEF IInv, TypeOK, Sound, Valid, Entries
<1> QED
  BY Inductive, <1>1, PTL

(***************************************************************************)
(* A slow lookup that stores its answer last undoes at most MaxQuery of    *)
(* what a fast one has found out (resolver.go:96-101).                     *)
(***************************************************************************)
THEOREM RegressionBound == Spec => RegressionBounded
<1>1. IInv /\ [Next]_vars
        => [cache # Missing => cache'.asOf >= cache.asOf - MaxQuery]_vars
  <2> SUFFICES ASSUME IInv, Next, cache # Missing
               PROVE  cache'.asOf >= cache.asOf - MaxQuery
    BY DEF vars
  <2>0. cache \in Entries /\ cache.asOf \in Nat /\ cache.asOf <= now /\ MaxQuery \in Nat
    BY DnsCacheAssumption DEF IInv, TypeOK, AllSound, Sound, Entries
  <2>1. CASE UNCHANGED cache
    BY <2>0, <2>1
  <2>2. CASE \E w \in Workers : Answered(w)
    <3>1. PICK w \in Workers : Answered(w)
      BY <2>2
    <3>2. /\ asked[w] \in Nat /\ now \in Nat /\ now <= asked[w] + MaxQuery
          /\ cache'.asOf \in asked[w]..now
      BY <3>1 DEF Answered, IInv, TypeOK, InTime
    <3> QED
      BY <2>0, <3>2
  <2> QED
    BY <2>1, <2>2 DEF Next, Lookup, Tick, ReadCache, Hit, Query, NoAnswer
<1> QED
  BY Inductive, <1>1, PTL DEF Spec, RegressionBounded
=============================================================================

---------------------------- MODULE OAuth2_proofs ---------------------------
(***************************************************************************)
(* For any number of workers, any lives of tokens, any margin and any      *)
(* timeout not above it: a token taken from the cache is alive, and no     *)
(* token is replaced before it is due.                                     *)
(***************************************************************************)
EXTENDS OAuth2, TLAPS

\* Only the holder of the mutex is past it.
HolderOnly == \A w \in Workers : apc[w] \in {"check", "post"} => mu = w

\* An exchange in progress began when the token was due, and is not overdue.
Exchange ==
    \A w \in Workers : apc[w] = "post" =>
        /\ expiry <= asked + Margin
        /\ now <= asked + ClientTimeout

\* The client believes in the token for one exchange too long, at most.
Skew == life > 0 => expiry <= death + ClientTimeout

IInv == TypeOK /\ HolderOnly /\ Exchange /\ Skew

-----------------------------------------------------------------------------
LEMMA InitIInv == Init => IInv
<1> SUFFICES ASSUME Init PROVE IInv
  OBVIOUS
<1> USE OAuth2Assumption
<1>1. PICK n \in Lives, issued \in 0..now :
         life = n /\ expiry = now + (IF n > 0 THEN n ELSE DefaultLife) /\ death = issued + n
  BY DEF Init
<1>2. now \in 0..ClientTimeout /\ n \in Nat /\ issued \in Nat
  BY <1>1 DEF Init
<1>3. TypeOK
  BY <1>1, <1>2 DEF Init, TypeOK
<1>4. HolderOnly /\ Exchange
  BY DEF Init, HolderOnly, Exchange
<1>5. Skew
  BY <1>1, <1>2 DEF Skew
<1> QED
  BY <1>3, <1>4, <1>5 DEF IInv

\* Storing a token at the end of an exchange that kept the timeout.
LEMMA StoreKeepsSkew ==
    ASSUME IInv, NEW n \in Lives, StoreToken(n), now <= asked + ClientTimeout, now' = now
    PROVE  /\ expiry' \in Nat /\ death' \in Nat /\ life' \in Lives
           /\ Skew'
<1>1. PICK issued \in asked..now : death' = issued + n
  BY DEF StoreToken
<1>2. /\ asked \in Nat /\ now \in Nat /\ n \in Nat
      /\ DefaultLife \in Nat /\ ClientTimeout \in Nat
  BY OAuth2Assumption DEF IInv, TypeOK
<1>3. life' = n /\ expiry' = now + (IF n > 0 THEN n ELSE DefaultLife)
  BY DEF StoreToken
<1> QED
  BY <1>1, <1>2, <1>3 DEF Skew

LEMMA NextIInv == IInv /\ [Next]_vars => IInv'
<1> SUFFICES ASSUME IInv, [Next]_vars PROVE IInv'
  OBVIOUS
<1> USE OAuth2Assumption, FreeAssumption DEF IInv, TypeOK
<1>1. CASE Tick
  <2>1. now \in Nat /\ asked \in Nat /\ ClientTimeout \in Nat
    OBVIOUS
  <2>2. Exchange'
    BY <1>1, <2>1 DEF Tick, Exchange
  <2> QED
    BY <1>1, <2>1, <2>2 DEF Tick, HolderOnly, Skew
<1>2. ASSUME NEW w \in Workers, Ask(w) PROVE IInv'
  BY <1>2 DEF Ask, Goto, HolderOnly, Exchange, Skew
<1>3. ASSUME NEW w \in Workers, Lock(w) PROVE IInv'
  BY <1>3 DEF Lock, Goto, HolderOnly, Exchange, Skew
<1>4. ASSUME NEW w \in Workers, UseCached(w) PROVE IInv'
  BY <1>4 DEF UseCached, Unlock, Goto, HolderOnly, Exchange, Skew
<1>5. ASSUME NEW w \in Workers, Post(w) PROVE IInv'
  <2>1. mu = w /\ expiry <= now + Margin
    BY <1>5 DEF Post, HolderOnly, Fresh
  <2>2. \A v \in Workers \ {w} : apc[v] \notin {"check", "post"}
    BY <2>1 DEF HolderOnly
  <2>3. Exchange'
    BY <1>5, <2>1, <2>2 DEF Post, Goto, Exchange
  <2> QED
    BY <1>5, <2>1, <2>3 DEF Post, Goto, HolderOnly, Skew
<1>6. ASSUME NEW w \in Workers, Refreshed(w) PROVE IInv'
  <2>1. PICK n \in Lives : StoreToken(n)
    BY <1>6 DEF Refreshed
  <2>2. mu = w /\ now <= asked + ClientTimeout /\ UNCHANGED <<now, asked>>
    BY <1>6 DEF Refreshed, HolderOnly, Exchange
  <2>3. expiry' \in Nat /\ death' \in Nat /\ life' \in Lives /\ Skew'
    BY <2>1, <2>2, StoreKeepsSkew
  <2>4. \A v \in Workers : apc'[v] \notin {"check", "post"}
    BY <1>6, <2>2 DEF Refreshed, Goto, HolderOnly
  <2>5. HolderOnly' /\ Exchange'
    BY <2>4 DEF HolderOnly, Exchange
  <2>6. mu' = Free /\ apc' = [apc EXCEPT ![w] = "idle"]
    BY <1>6 DEF Refreshed, Unlock, Goto
  <2> QED
    BY <2>2, <2>3, <2>5, <2>6
<1>7. ASSUME NEW w \in Workers, Refused(w) PROVE IInv'
  BY <1>7 DEF Refused, Unlock, Goto, HolderOnly, Exchange, Skew
<1>8. CASE UNCHANGED vars
  BY <1>8 DEF vars, HolderOnly, Exchange, Skew
<1> QED
  BY <1>1, <1>2, <1>3, <1>4, <1>5, <1>6, <1>7, <1>8 DEF Next, Holder

LEMMA Inductive == Spec => []IInv
<1> QED
  BY InitIInv, NextIInv, PTL DEF Spec

-----------------------------------------------------------------------------
(***************************************************************************)
(* The cache, its mutex and its clocks keep their types, whatever the      *)
(* lives of the tokens the server issues (auth.go:102-160).                *)
(***************************************************************************)
THEOREM TypeCorrect == Spec => []TypeOK
<1>1. IInv => TypeOK
  BY DEF IInv
<1> QED
  BY Inductive, <1>1, PTL

(***************************************************************************)
(* The 30 s margin covers the 10 s an exchange may take: a token handed    *)
(* out from the cache is good at the server for 20 s (auth.go:106).        *)
(***************************************************************************)
THEOREM CacheIsAlive == Spec => []CachedTokenIsAlive
<1>1. IInv => CachedTokenIsAlive
  BY OAuth2Assumption DEF IInv, TypeOK, Skew, CachedTokenIsAlive, Fresh
<1> QED
  BY Inductive, <1>1, PTL

(***************************************************************************)
(* However many workers wait for the mutex, they cause one exchange, not   *)
(* one each (auth.go:103-111).                                             *)
(***************************************************************************)
THEOREM OneExchange == Spec => NoStampede
<1>1. IInv /\ [Next]_vars => [expiry' # expiry => now + Margin >= expiry]_vars
  <2> SUFFICES ASSUME IInv, Next, expiry' # expiry PROVE now + Margin >= expiry
    BY DEF vars
  <2>1. PICK w \in Workers : Refreshed(w)
    BY DEF Next, Holder, Tick, Ask, Lock, UseCached, Post, Refused
  <2>2. expiry <= asked + Margin
    BY <2>1 DEF Refreshed, IInv, Exchange
  <2> QED
    BY <2>2, OAuth2Assumption DEF IInv, TypeOK
<1> QED
  BY Inductive, <1>1, PTL DEF Spec, NoStampede
=============================================================================

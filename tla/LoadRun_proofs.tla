--------------------------- MODULE LoadRun_proofs ---------------------------
(***************************************************************************)
(* Proofs about LoadRun, for any number of requests, pools, workers and    *)
(* any capacities of the channels: its types, where each request is, what  *)
(* the counters count, and that it implements RequestLedger.               *)
(***************************************************************************)
EXTENDS LoadRun, FiniteSetTheorems, TLAPS

allVars == <<mode, ctxDone, fired, schedPc, target, jobsCh, wpc, held, failed,
             resCh, fwd, merged, total, errors, counted, swallowed, mainPc,
             summary, exitCode>>

LEMMA VarsAreAll == UNCHANGED vars <=> UNCHANGED allVars
BY DEF vars, allVars, schedVars, workVars, flowVars, tallyVars, mainVars

\* A channel holds finitely many requests; putting one in adds at most one.
LEMMA Sizes ==
    ASSUME NEW S \in SUBSET Jobs
    PROVE  /\ IsFiniteSet(S) /\ Cardinality(S) \in Nat
           /\ \A j : /\ Cardinality(S \cup {j}) <= Cardinality(S) + 1
                     /\ Cardinality(S \ {j}) <= Cardinality(S)
<1>1. IsFiniteSet(Jobs)
  BY LoadRunAssumption, FS_Interval DEF Jobs
<1>2. IsFiniteSet(S) /\ Cardinality(S) \in Nat
  BY <1>1, FS_Subset, FS_CardinalityType
<1>3. ASSUME NEW j
      PROVE  /\ Cardinality(S \cup {j}) <= Cardinality(S) + 1
             /\ Cardinality(S \ {j}) <= Cardinality(S)
  <2>1. Cardinality(S \cup {j}) = IF j \in S THEN Cardinality(S) ELSE Cardinality(S) + 1
    BY <1>2, FS_AddElement
  <2>2. Cardinality(S \ {j}) = IF j \in S THEN Cardinality(S) - 1 ELSE Cardinality(S)
    BY <1>2, FS_RemoveElement
  <2> QED
    BY <1>2, <2>1, <2>2
<1> QED
  BY <1>2, <1>3

LEMMA PoolOfWorker ==
    ASSUME TypeOK, NEW w \in Workers
    PROVE  PoolOf[w] \in Pools
BY LoadRunAssumption DEF TypeOK, PoolOf

-----------------------------------------------------------------------------
\* The channels stay within their capacities.
Bounded(ch, size) == \A p \in Pools : Cardinality(ch[p]) <= size

LEMMA PutKeepsBound ==
    ASSUME NEW ch \in [Pools -> SUBSET Jobs], NEW size \in Nat, Bounded(ch, size),
           NEW p \in Pools, NEW j \in Jobs, Cardinality(ch[p]) < size
    PROVE  /\ [ch EXCEPT ![p] = @ \cup {j}] \in [Pools -> SUBSET Jobs]
           /\ Bounded([ch EXCEPT ![p] = @ \cup {j}], size)
<1>1. Cardinality(ch[p] \cup {j}) <= Cardinality(ch[p]) + 1 /\ Cardinality(ch[p]) \in Nat
  BY Sizes
<1>2. Cardinality(ch[p] \cup {j}) \in Nat
  BY Sizes
<1> QED
  BY <1>1, <1>2 DEF Bounded

LEMMA TakeKeepsBound ==
    ASSUME NEW ch \in [Pools -> SUBSET Jobs], NEW size \in Nat, Bounded(ch, size),
           NEW p \in Pools, NEW j
    PROVE  /\ [ch EXCEPT ![p] = @ \ {j}] \in [Pools -> SUBSET Jobs]
           /\ Bounded([ch EXCEPT ![p] = @ \ {j}], size)
<1>1. Cardinality(ch[p] \ {j}) <= Cardinality(ch[p]) /\ Cardinality(ch[p]) \in Nat
  BY Sizes
<1>2. Cardinality(ch[p] \ {j}) \in Nat
  BY Sizes
<1> QED
  BY <1>1, <1>2 DEF Bounded
-----------------------------------------------------------------------------
(***************************************************************************)
(* The types.  They are inductive once it is known that whoever is about   *)
(* to put a request into a channel has one.                                *)
(***************************************************************************)
HandsFull ==
    /\ schedPc = "submit" => fired # 0
    /\ \A w \in Workers : wpc[w] \in {"fire", "send"} <=> held[w] # NoJob

TypeInv == TypeOK /\ HandsFull

LEMMA SchedulerTypes ==
    ASSUME TypeInv, Build \/ Submit \/ SchedExit
    PROVE  TypeInv'
<1> USE LoadRunAssumption DEF TypeInv, HandsFull, TypeOK, Alive, schedVars, workVars,
        flowVars, tallyVars, mainVars, Jobs
<1>1. CASE Build
  <2>1. \A w \in Workers : PoolOf[w] \in Pools
    BY PoolOfWorker
  <2>2. target' \in Pools
    BY <1>1, <2>1 DEF Build
  <2> QED
    BY <1>1, <2>2 DEF Build
<1>2. CASE Submit
  <2>1. fired \in Jobs
    BY <1>2 DEF Submit
  <2>2. jobsCh' \in [Pools -> SUBSET Jobs] /\ Bounded(jobsCh', JobBuf)
    BY <1>2, <2>1, PutKeepsBound DEF Submit, Bounded
  <2> QED
    BY <1>2, <2>2 DEF Submit, Bounded
<1>3. CASE SchedExit
  BY <1>3 DEF SchedExit
<1> QED
  BY <1>1, <1>2, <1>3

LEMMA WorkerTypes ==
    ASSUME TypeInv, NEW w \in Workers, Worker(w)
    PROVE  TypeInv'
<1> USE LoadRunAssumption DEF TypeInv, HandsFull, TypeOK, Alive, schedVars, workVars,
        flowVars, tallyVars, mainVars, NoJob
<1>p. PoolOf[w] \in Pools
  BY PoolOfWorker
<1>1. CASE TakeJob(w)
  <2>1. PICK j \in jobsCh[PoolOf[w]] :
            /\ jobsCh' = [jobsCh EXCEPT ![PoolOf[w]] = @ \ {j}]
            /\ held' = [held EXCEPT ![w] = j]
    BY <1>1 DEF TakeJob
  <2>2. j \in Jobs /\ j # NoJob
    BY <1>p, <2>1 DEF Jobs
  <2>3. jobsCh' \in [Pools -> SUBSET Jobs] /\ Bounded(jobsCh', JobBuf)
    BY <1>p, <2>1, TakeKeepsBound DEF Bounded
  <2> QED
    BY <1>1, <2>1, <2>2, <2>3 DEF TakeJob, Bounded
<1>2. CASE WorkerExit(w)
  BY <1>2 DEF WorkerExit
<1>3. CASE Fire(w)
  BY <1>3 DEF Fire
<1>4. CASE SendResult(w)
  <2>1. held[w] \in Jobs
    BY <1>4 DEF SendResult
  <2>2. resCh' \in [Pools -> SUBSET Jobs] /\ Bounded(resCh', ResBuf)
    BY <1>4, <1>p, <2>1, PutKeepsBound DEF SendResult, Bounded
  <2> QED
    BY <1>4, <2>2 DEF SendResult, Bounded
<1> QED
  BY <1>1, <1>2, <1>3, <1>4 DEF Worker

LEMMA MergeTypes ==
    ASSUME TypeInv, NEW p \in Pools, PickUp(p) \/ Forward(p)
    PROVE  TypeInv'
<1> USE LoadRunAssumption DEF TypeInv, HandsFull, TypeOK, Alive, schedVars, workVars,
        flowVars, tallyVars, mainVars
<1>1. CASE PickUp(p)
  <2>1. PICK r \in resCh[p] : /\ resCh' = [resCh EXCEPT ![p] = @ \ {r}]
                             /\ fwd' = [fwd EXCEPT ![p] = r]
    BY <1>1 DEF PickUp
  <2>2. r \in Jobs
    BY <2>1
  <2>3. resCh' \in [Pools -> SUBSET Jobs] /\ Bounded(resCh', ResBuf)
    BY <2>1, TakeKeepsBound DEF Bounded
  <2> QED
    BY <1>1, <2>1, <2>2, <2>3 DEF PickUp, Bounded
<1>2. CASE Forward(p)
  <2>1. fwd[p] \in Jobs /\ merged' = merged \cup {fwd[p]}
    BY <1>2 DEF Forward
  <2>2. /\ Cardinality(merged') \in Nat /\ Cardinality(merged) \in Nat
        /\ Cardinality(merged') <= Cardinality(merged) + 1
    BY <2>1, Sizes
  <2>3. Cardinality(merged') <= MergedBuf
    BY <1>2, <2>2 DEF Forward
  <2> QED
    BY <1>2, <2>1, <2>3 DEF Forward
<1> QED
  BY <1>1, <1>2

LEMMA ConsumerTypes ==
    ASSUME TypeInv, NEW r \in Jobs, Count(r) \/ Swallow(r)
    PROVE  TypeInv'
<1> USE LoadRunAssumption DEF TypeInv, HandsFull, TypeOK, Alive, schedVars, workVars,
        flowVars, tallyVars, mainVars
<1>1. /\ resCh' \in [Pools -> SUBSET Jobs] /\ Bounded(resCh', ResBuf)
      /\ merged' \subseteq Jobs /\ Cardinality(merged') <= MergedBuf
      /\ fwd' = fwd
  <2>0. Receive(r)
    BY DEF Count, Swallow
  <2>1. CASE Scenario
    <3>1. merged' = merged \ {r} /\ UNCHANGED <<resCh, fwd>>
      BY <2>0, <2>1 DEF Receive
    <3>2. Cardinality(merged') <= Cardinality(merged) /\ Cardinality(merged') \in Nat
          /\ Cardinality(merged) \in Nat
      BY <3>1, Sizes
    <3> QED
      BY <3>1, <3>2 DEF Bounded
  <2>2. CASE ~Scenario
    <3>1. PICK p \in Pools : /\ resCh' = [resCh EXCEPT ![p] = @ \ {r}]
                             /\ UNCHANGED <<merged, fwd>>
      BY <2>0, <2>2 DEF Receive
    <3>2. resCh' \in [Pools -> SUBSET Jobs] /\ Bounded(resCh', ResBuf)
      BY <3>1, TakeKeepsBound DEF Bounded
    <3> QED
      BY <3>1, <3>2
  <2> QED
    BY <2>1, <2>2
<1>2. CASE Count(r)
  BY <1>1, <1>2 DEF Count, Bounded
<1>3. CASE Swallow(r)
  BY <1>1, <1>3 DEF Swallow, Bounded
<1> QED
  BY <1>2, <1>3

LEMMA MainTypes ==
    ASSUME TypeInv, Main \/ Cancel
    PROVE  TypeInv'
<1> USE DEF TypeInv, HandsFull, TypeOK, Alive, schedVars, workVars, flowVars, tallyVars,
        mainVars
<1>1. CASE Join
  BY <1>1 DEF Join, MainStep
<1>2. CASE ReadTotal
  BY <1>2 DEF ReadTotal, MainStep
<1>3. CASE ReadErrors
  BY <1>3 DEF ReadErrors, MainStep
<1>4. CASE ReadRate
  <2>1. (Scenario /\ ErrLimit > 0 /\ Exceeds(errors, total, ErrLimit)) \in BOOLEAN
    BY DEF Exceeds
  <2> QED
    BY <1>4, <2>1 DEF ReadRate, MainStep
<1>5. CASE Exit
  BY <1>5 DEF Exit, MainStep
<1>6. CASE Cancel
  BY <1>6 DEF Cancel
<1> QED
  BY <1>1, <1>2, <1>3, <1>4, <1>5, <1>6 DEF Main

THEOREM TypeInvariant == Spec => []TypeInv
<1>1. Init => TypeInv
  <2> SUFFICES ASSUME Init PROVE TypeInv
    OBVIOUS
  <2>1. \A w \in Workers : mode.poolOf[w] \in Pools
    BY LoadRunAssumption DEF Init
  <2>2. Cardinality({}) = 0
    BY FS_EmptySet
  <2>3. fired = 0 /\ fired \in 0..MaxJobs /\ mode \in Modes /\ target \in Pools
    BY <2>1, LoadRunAssumption DEF Init, PoolOf
  <2>4. HandsFull
    BY DEF Init, HandsFull
  <2>5. /\ \A p \in Pools : Cardinality(jobsCh[p]) <= JobBuf /\ Cardinality(resCh[p]) <= ResBuf
        /\ Cardinality(merged) <= MergedBuf
    BY <2>2, LoadRunAssumption DEF Init
  <2> QED
    BY <2>3, <2>4, <2>5 DEF Init, TypeInv, TypeOK
<1>2. TypeInv /\ [Next]_vars => TypeInv'
  <2> SUFFICES ASSUME TypeInv, [Next]_vars PROVE TypeInv'
    OBVIOUS
  <2>1. CASE UNCHANGED vars
    BY <2>1, VarsAreAll DEF allVars, TypeInv, TypeOK, HandsFull
  <2>2. CASE Next
    BY <2>2, SchedulerTypes, WorkerTypes, MergeTypes, ConsumerTypes, MainTypes
    DEF Next, Work, Consume
  <2> QED
    BY <2>1, <2>2
<1> QED
  BY <1>1, <1>2, PTL DEF Spec

(***************************************************************************)
(* TypeOK for every instance: in particular no channel ever holds more     *)
(* than its capacity.                                                      *)
(***************************************************************************)
THEOREM TypeCorrect == Spec => []TypeOK
BY TypeInvariant, PTL DEF TypeInv

-----------------------------------------------------------------------------
(***************************************************************************)
(* Where each request is.  OnePlace in a form that says of each channel    *)
(* and each goroutine whether it holds j: j is in the place x, and in no   *)
(* other, or nowhere.                                                      *)
(***************************************************************************)
Only(j, x) ==
    /\ \A p \in Pools : /\ j \in jobsCh[p] <=> x = <<"jobs", p>>
                        /\ j \in resCh[p] <=> x = <<"results", p>>
                        /\ j = fwd[p] <=> x = <<"forward", p>>
    /\ \A w \in Workers : j = held[w] <=> x = <<"worker", w>>
    /\ j \in merged <=> x = <<"merged", 0>>
    /\ j \in counted <=> x = <<"counted", 0>>
    /\ j \in swallowed <=> x = <<"swallowed", 0>>

Nowhere(j) ==
    /\ \A p \in Pools : j \notin jobsCh[p] /\ j \notin resCh[p] /\ j # fwd[p]
    /\ \A w \in Workers : j # held[w]
    /\ j \notin merged /\ j \notin counted /\ j \notin swallowed

Placed ==
    \A j \in Jobs : /\ j \in Issued => \E x \in Sites : Only(j, x)
                    /\ j \notin Issued => Nowhere(j)

\* The kinds of places.
LEMMA SiteKinds ==
    ASSUME NEW x \in Sites
    PROVE  \/ \E p \in Pools : x \in {<<"jobs", p>>, <<"results", p>>, <<"forward", p>>}
           \/ \E w \in Workers : x = <<"worker", w>>
           \/ x \in {<<"merged", 0>>, <<"counted", 0>>, <<"swallowed", 0>>}
BY DEF Sites

LEMMA SitesAre ==
    /\ \A p \in Pools : {<<"jobs", p>>, <<"results", p>>, <<"forward", p>>} \subseteq Sites
    /\ \A w \in Workers : <<"worker", w>> \in Sites
    /\ {<<"merged", 0>>, <<"counted", 0>>, <<"swallowed", 0>>} \subseteq Sites
BY DEF Sites

LEMMA AtEach ==
    ASSUME NEW j
    PROVE  /\ \A p : /\ At(<<"jobs", p>>, j) <=> j \in jobsCh[p]
                     /\ At(<<"results", p>>, j) <=> j \in resCh[p]
                     /\ At(<<"forward", p>>, j) <=> j = fwd[p]
           /\ \A w : At(<<"worker", w>>, j) <=> j = held[w]
           /\ At(<<"merged", 0>>, j) <=> j \in merged
           /\ At(<<"counted", 0>>, j) <=> j \in counted
           /\ At(<<"swallowed", 0>>, j) <=> j \in swallowed
BY DEF At

LEMMA OnlyIsOnePlace ==
    ASSUME NEW j, NEW x \in Sites, NEW y \in Sites, Only(j, y)
    PROVE  At(x, j) <=> x = y
<1>1. CASE \E p \in Pools : x \in {<<"jobs", p>>, <<"results", p>>, <<"forward", p>>}
  <2>1. PICK p \in Pools : x \in {<<"jobs", p>>, <<"results", p>>, <<"forward", p>>}
    BY <1>1
  <2>2. CASE x = <<"jobs", p>>
    BY <2>2, AtEach DEF Only
  <2>3. CASE x = <<"results", p>>
    BY <2>3, AtEach DEF Only
  <2>4. CASE x = <<"forward", p>>
    BY <2>4, AtEach DEF Only
  <2> QED
    BY <2>1, <2>2, <2>3, <2>4
<1>2. CASE \E w \in Workers : x = <<"worker", w>>
  BY <1>2, AtEach DEF Only
<1>3. CASE x \in {<<"merged", 0>>, <<"counted", 0>>, <<"swallowed", 0>>}
  <2>1. CASE x = <<"merged", 0>>
    BY <2>1, AtEach DEF Only
  <2>2. CASE x = <<"counted", 0>>
    BY <2>2, AtEach DEF Only
  <2>3. CASE x = <<"swallowed", 0>>
    BY <2>3, AtEach DEF Only
  <2> QED
    BY <1>3, <2>1, <2>2, <2>3
<1> QED
  BY <1>1, <1>2, <1>3, SiteKinds

LEMMA NowhereIsNoPlace ==
    ASSUME NEW j, NEW x \in Sites, Nowhere(j)
    PROVE  ~At(x, j)
<1>1. CASE \E p \in Pools : x \in {<<"jobs", p>>, <<"results", p>>, <<"forward", p>>}
  <2>1. PICK p \in Pools : x \in {<<"jobs", p>>, <<"results", p>>, <<"forward", p>>}
    BY <1>1
  <2>2. CASE x = <<"jobs", p>>
    BY <2>2, AtEach DEF Nowhere
  <2>3. CASE x = <<"results", p>>
    BY <2>3, AtEach DEF Nowhere
  <2>4. CASE x = <<"forward", p>>
    BY <2>4, AtEach DEF Nowhere
  <2> QED
    BY <2>1, <2>2, <2>3, <2>4
<1>2. CASE \E w \in Workers : x = <<"worker", w>>
  BY <1>2, AtEach DEF Nowhere
<1>3. CASE x \in {<<"merged", 0>>, <<"counted", 0>>, <<"swallowed", 0>>}
  <2>1. CASE x = <<"merged", 0>>
    BY <2>1, AtEach DEF Nowhere
  <2>2. CASE x = <<"counted", 0>>
    BY <2>2, AtEach DEF Nowhere
  <2>3. CASE x = <<"swallowed", 0>>
    BY <2>3, AtEach DEF Nowhere
  <2> QED
    BY <1>3, <2>1, <2>2, <2>3
<1> QED
  BY <1>1, <1>2, <1>3, SiteKinds

LEMMA PlacedIsOnePlace == Placed => OnePlace
BY OnlyIsOnePlace, NowhereIsNoPlace DEF Placed, OnePlace

(***************************************************************************)
(* A step of the pipeline takes one request from one place to another and  *)
(* leaves the rest where they are.                                         *)
(***************************************************************************)
Stays(k) ==
    /\ \A p \in Pools : /\ k \in jobsCh'[p] <=> k \in jobsCh[p]
                        /\ k \in resCh'[p] <=> k \in resCh[p]
                        /\ k = fwd'[p] <=> k = fwd[p]
    /\ \A w \in Workers : k = held'[w] <=> k = held[w]
    /\ k \in merged' <=> k \in merged
    /\ k \in counted' <=> k \in counted
    /\ k \in swallowed' <=> k \in swallowed

LEMMA StaysPut ==
    ASSUME NEW k, Stays(k)
    PROVE  /\ Nowhere(k) => Nowhere(k)'
           /\ \A x : Only(k, x) => Only(k, x)'
BY DEF Stays, Nowhere, Only

LEMMA MoveKeepsPlaced ==
    ASSUME Placed, NEW j \in Jobs, NEW to \in Sites, j \in Issued, Only(j, to)',
           \A k \in Jobs \ {j} : Stays(k), Issued' = Issued
    PROVE  Placed'
<1> SUFFICES ASSUME NEW k \in Jobs
             PROVE  /\ k \in Issued' => \E x \in Sites : Only(k, x)'
                    /\ k \notin Issued' => Nowhere(k)'
  BY DEF Placed, Sites
<1>1. CASE k = j
  BY <1>1
<1>2. CASE k # j
  BY <1>2, StaysPut DEF Placed
<1> QED
  BY <1>1, <1>2

\* Whoever is found somewhere is only there.
LEMMA FoundOnly ==
    ASSUME Placed, NEW j \in Jobs, NEW x \in Sites, At(x, j)
    PROVE  j \in Issued /\ Only(j, x)
<1>1. ~Nowhere(j)
  BY NowhereIsNoPlace
<1>2. j \in Issued
  BY <1>1 DEF Placed
<1>3. PICK y \in Sites : Only(j, y)
  BY <1>2 DEF Placed
<1>4. y = x
  BY <1>3, OnlyIsOnePlace
<1> QED
  BY <1>2, <1>3, <1>4

LEMMA TakeJobPlaces ==
    ASSUME TypeInv, Placed, NEW w \in Workers, TakeJob(w)
    PROVE  Placed'
<1> DEFINE from == <<"jobs", PoolOf[w]>>
           to == <<"worker", w>>
<1>1. PICK j \in jobsCh[PoolOf[w]] :
          /\ jobsCh' = [jobsCh EXCEPT ![PoolOf[w]] = @ \ {j}]
          /\ held' = [held EXCEPT ![w] = j]
  BY DEF TakeJob
<1>2. /\ UNCHANGED <<fired, schedPc, resCh, fwd, merged, counted, swallowed>>
      /\ held[w] = NoJob /\ PoolOf[w] \in Pools /\ j \in Jobs
      /\ jobsCh \in [Pools -> SUBSET Jobs] /\ held \in [Workers -> Jobs \cup {NoJob}]
  BY PoolOfWorker DEF TakeJob, TypeInv, TypeOK, HandsFull, schedVars, flowVars, tallyVars
<1>3. from \in Sites /\ to \in Sites /\ At(from, j)
  BY <1>2, SitesAre, AtEach
<1>4. j \in Issued /\ Only(j, from)
  BY <1>2, <1>3, FoundOnly
<1>5. Only(j, to)'
  BY <1>1, <1>2, <1>4 DEF Only
<1>6. ASSUME NEW k \in Jobs \ {j} PROVE Stays(k)
  BY <1>1, <1>2, <1>6 DEF Stays, Jobs, NoJob
<1>7. Issued' = Issued
  BY <1>2 DEF Issued
<1> QED
  BY <1>2, <1>3, <1>4, <1>5, <1>6, <1>7, MoveKeepsPlaced

LEMMA SendResultPlaces ==
    ASSUME TypeInv, Placed, NEW w \in Workers, SendResult(w)
    PROVE  Placed'
<1>0. PICK j \in Jobs, p \in Pools : j = held[w] /\ p = PoolOf[w]
  BY PoolOfWorker DEF SendResult, TypeInv, TypeOK, HandsFull
<1> DEFINE from == <<"worker", w>>
           to == <<"results", p>>
<1>1. /\ UNCHANGED <<fired, schedPc, jobsCh, fwd, merged, counted, swallowed>>
      /\ resCh' = [resCh EXCEPT ![p] = @ \cup {j}]
      /\ held' = [held EXCEPT ![w] = NoJob]
      /\ resCh \in [Pools -> SUBSET Jobs] /\ held \in [Workers -> Jobs \cup {NoJob}]
  BY <1>0 DEF SendResult, TypeInv, TypeOK, schedVars, tallyVars
<1>2. from \in Sites /\ to \in Sites /\ At(from, j)
  BY <1>0, SitesAre, AtEach
<1>3. j \in Issued /\ Only(j, from)
  BY <1>1, <1>2, FoundOnly
<1>4. Only(j, to)'
  BY <1>1, <1>3 DEF Only, Jobs, NoJob
<1>5. ASSUME NEW k \in Jobs \ {j} PROVE Stays(k)
  BY <1>0, <1>1, <1>5 DEF Stays, Jobs, NoJob
<1>6. Issued' = Issued
  BY <1>1 DEF Issued
<1> QED
  BY <1>2, <1>3, <1>4, <1>5, <1>6, MoveKeepsPlaced

LEMMA PickUpPlaces ==
    ASSUME TypeInv, Placed, NEW p \in Pools, PickUp(p)
    PROVE  Placed'
<1> DEFINE from == <<"results", p>>
           to == <<"forward", p>>
<1>1. PICK j \in resCh[p] : /\ resCh' = [resCh EXCEPT ![p] = @ \ {j}]
                            /\ fwd' = [fwd EXCEPT ![p] = j]
  BY DEF PickUp
<1>2. /\ UNCHANGED <<fired, schedPc, jobsCh, held, merged, counted, swallowed>>
      /\ fwd[p] = NoJob /\ j \in Jobs
      /\ resCh \in [Pools -> SUBSET Jobs] /\ fwd \in [Pools -> Jobs \cup {NoJob}]
  BY DEF PickUp, TypeInv, TypeOK, schedVars, workVars, tallyVars
<1>3. from \in Sites /\ to \in Sites /\ At(from, j)
  BY <1>2, SitesAre, AtEach
<1>4. j \in Issued /\ Only(j, from)
  BY <1>2, <1>3, FoundOnly
<1>5. Only(j, to)'
  BY <1>1, <1>2, <1>4 DEF Only
<1>6. ASSUME NEW k \in Jobs \ {j} PROVE Stays(k)
  BY <1>1, <1>2, <1>6 DEF Stays, Jobs, NoJob
<1>7. Issued' = Issued
  BY <1>2 DEF Issued
<1> QED
  BY <1>2, <1>3, <1>4, <1>5, <1>6, <1>7, MoveKeepsPlaced

LEMMA ForwardPlaces ==
    ASSUME TypeInv, Placed, NEW p \in Pools, Forward(p)
    PROVE  Placed'
<1>0. PICK j \in Jobs : j = fwd[p]
  BY DEF Forward, TypeInv, TypeOK
<1> DEFINE from == <<"forward", p>>
           to == <<"merged", 0>>
<1>1. /\ UNCHANGED <<fired, schedPc, jobsCh, held, resCh, counted, swallowed>>
      /\ merged' = merged \cup {j}
      /\ fwd' = [fwd EXCEPT ![p] = NoJob]
      /\ fwd \in [Pools -> Jobs \cup {NoJob}]
  BY <1>0 DEF Forward, TypeInv, TypeOK, schedVars, workVars, tallyVars
<1>2. from \in Sites /\ to \in Sites /\ At(from, j)
  BY <1>0, SitesAre, AtEach
<1>3. j \in Issued /\ Only(j, from)
  BY <1>1, <1>2, FoundOnly
<1>4. Only(j, to)'
  BY <1>1, <1>3 DEF Only, Jobs, NoJob
<1>5. ASSUME NEW k \in Jobs \ {j} PROVE Stays(k)
  BY <1>0, <1>1, <1>5 DEF Stays, Jobs, NoJob
<1>6. Issued' = Issued
  BY <1>1 DEF Issued
<1> QED
  BY <1>2, <1>3, <1>4, <1>5, <1>6, MoveKeepsPlaced

\* A received result was in a channel, and in no other place.
LEMMA ReceivedFrom ==
    ASSUME TypeInv, Placed, NEW r \in Jobs, Receive(r)
    PROVE  /\ r \in Issued
           /\ \E from \in Sites :
                /\ Only(r, from)
                /\ from[1] \in {"merged", "results"}
           /\ \A p \in Pools : r \notin resCh'[p]
           /\ r \notin merged'
           /\ \A k \in Jobs \ {r} : /\ \A p \in Pools : k \in resCh'[p] <=> k \in resCh[p]
                                    /\ k \in merged' <=> k \in merged
<1>0. resCh \in [Pools -> SUBSET Jobs]
  BY DEF TypeInv, TypeOK
<1>1. CASE Scenario
  <2>1. r \in merged /\ merged' = merged \ {r} /\ resCh' = resCh
    BY <1>1 DEF Receive
  <2>2. At(<<"merged", 0>>, r) /\ <<"merged", 0>> \in Sites
    BY <2>1, AtEach, SitesAre
  <2>3. r \in Issued /\ Only(r, <<"merged", 0>>)
    BY <2>2, FoundOnly
  <2> QED
    BY <2>1, <2>2, <2>3 DEF Only
<1>2. CASE ~Scenario
  <2>1. PICK p \in Pools : /\ r \in resCh[p] /\ merged' = merged
                           /\ resCh' = [resCh EXCEPT ![p] = @ \ {r}]
    BY <1>2 DEF Receive
  <2>2. At(<<"results", p>>, r) /\ <<"results", p>> \in Sites
    BY <2>1, AtEach, SitesAre
  <2>3. r \in Issued /\ Only(r, <<"results", p>>)
    BY <2>2, FoundOnly
  <2> QED
    BY <1>0, <2>1, <2>2, <2>3 DEF Only
<1> QED
  BY <1>1, <1>2

LEMMA ConsumerPlaces ==
    ASSUME TypeInv, Placed, NEW r \in Jobs, Count(r) \/ Swallow(r)
    PROVE  Placed'
<1>1. /\ UNCHANGED <<fired, schedPc, jobsCh, held, fwd>>
      /\ Receive(r)
  BY DEF Count, Swallow, Receive, schedVars, workVars
<1>2. Issued' = Issued
  BY <1>1 DEF Issued
<1>3. PICK from \in Sites : Only(r, from) /\ from[1] \in {"merged", "results"}
  BY <1>1, ReceivedFrom
<1>4. CASE Count(r)
  <2>1. counted' = counted \cup {r} /\ swallowed' = swallowed
    BY <1>4 DEF Count
  <2>2. Only(r, <<"counted", 0>>)'
    BY <1>1, <1>3, <2>1, ReceivedFrom DEF Only
  <2>3. ASSUME NEW k \in Jobs \ {r} PROVE Stays(k)
    BY <1>1, <2>1, <2>3, ReceivedFrom DEF Stays
  <2> QED
    BY <1>1, <1>2, <2>2, <2>3, ReceivedFrom, SitesAre, MoveKeepsPlaced
<1>5. CASE Swallow(r)
  <2>1. swallowed' = swallowed \cup {r} /\ counted' = counted
    BY <1>5 DEF Swallow
  <2>2. Only(r, <<"swallowed", 0>>)'
    BY <1>1, <1>3, <2>1, ReceivedFrom DEF Only
  <2>3. ASSUME NEW k \in Jobs \ {r} PROVE Stays(k)
    BY <1>1, <2>1, <2>3, ReceivedFrom DEF Stays
  <2> QED
    BY <1>1, <1>2, <2>2, <2>3, ReceivedFrom, SitesAre, MoveKeepsPlaced
<1> QED
  BY <1>4, <1>5

\* Submit puts a request that was nowhere into a job channel.
LEMMA SubmitPlaces ==
    ASSUME TypeInv, Placed, Submit
    PROVE  /\ Placed'
           /\ fired \in Jobs /\ fired \notin Issued /\ Issued' = Issued \cup {fired}
<1>0. PICK j \in Jobs, p \in Pools : j = fired /\ p = target
  BY DEF Submit, TypeInv, TypeOK, HandsFull, Jobs
<1> DEFINE to == <<"jobs", p>>
<1>1. /\ UNCHANGED <<fired, held, resCh, fwd, merged, counted, swallowed>>
      /\ schedPc = "submit" /\ schedPc' = "select"
      /\ jobsCh' = [jobsCh EXCEPT ![p] = @ \cup {j}]
      /\ jobsCh \in [Pools -> SUBSET Jobs]
  BY <1>0 DEF Submit, TypeInv, TypeOK, workVars, flowVars, tallyVars
<1>2. j \notin Issued /\ Issued' = Issued \cup {j}
  BY <1>0, <1>1 DEF Issued, Jobs
<1>3. Nowhere(j)
  BY <1>2 DEF Placed
<1>4. Only(j, to)' /\ to \in Sites
  BY <1>1, <1>3, SitesAre DEF Only, Nowhere
<1>5. ASSUME NEW k \in Jobs \ {j} PROVE Stays(k)
  BY <1>1, <1>5 DEF Stays
<1>6. ASSUME NEW k \in Jobs
      PROVE  /\ k \in Issued' => \E x \in Sites : Only(k, x)'
             /\ k \notin Issued' => Nowhere(k)'
  <2>1. CASE k = j
    BY <1>2, <1>4, <2>1
  <2>2. CASE k # j
    BY <1>2, <1>5, <2>2, StaysPut DEF Placed
  <2> QED
    BY <2>1, <2>2
<1>7. Placed'
  BY <1>6 DEF Placed, Sites
<1> QED
  BY <1>0, <1>2, <1>7

\* The steps that move no request.
LEMMA OtherStepsPlaces ==
    ASSUME TypeInv, Placed,
           \/ Build \/ SchedExit \/ Main \/ Cancel
           \/ \E w \in Workers : WorkerExit(w) \/ Fire(w)
           \/ UNCHANGED vars
    PROVE  Placed' /\ Issued' = Issued /\ UNCHANGED <<total, errors, counted, swallowed>>
<1> USE DEF schedVars, workVars, flowVars, tallyVars, mainVars
<1>1. UNCHANGED <<jobsCh, held, resCh, fwd, merged, total, errors, counted, swallowed>>
  BY VarsAreAll DEF allVars, Build, SchedExit, WorkerExit, Fire, Cancel, Main, Join,
                    ReadTotal, ReadErrors, ReadRate, Exit, MainStep
<1>2. Issued' = Issued
  <2>1. CASE Build
    BY <2>1 DEF Build, Issued, TypeInv, TypeOK, Jobs
  <2>2. CASE SchedExit
    BY <2>2 DEF SchedExit, Issued
  <2>3. CASE ~Build /\ ~SchedExit
    <3>1. UNCHANGED <<fired, schedPc>>
      BY <2>3, VarsAreAll DEF allVars, WorkerExit, Fire, Cancel, Main, Join,
                              ReadTotal, ReadErrors, ReadRate, Exit, MainStep
    <3> QED
      BY <3>1 DEF Issued
  <2> QED
    BY <2>1, <2>2, <2>3
<1>3. ASSUME NEW k PROVE Stays(k)
  BY <1>1 DEF Stays
<1>4. Placed'
  BY <1>2, <1>3, StaysPut DEF Placed, Sites
<1> QED
  BY <1>1, <1>2, <1>4

THEOREM PlacedInvariant == Spec => [](TypeInv /\ Placed)
<1>1. Init => Placed
  <2> SUFFICES ASSUME Init, NEW j \in Jobs PROVE j \notin Issued /\ Nowhere(j)
    BY DEF Placed
  <2> QED
    BY DEF Init, Issued, Jobs, Nowhere, NoJob
<1>2. TypeInv /\ Placed /\ [Next]_vars => Placed'
  BY OtherStepsPlaces, SubmitPlaces, TakeJobPlaces, SendResultPlaces, PickUpPlaces,
     ForwardPlaces, ConsumerPlaces
  DEF Next, Work, Worker, Consume
<1> QED
  BY <1>1, <1>2, TypeInvariant, PTL DEF Spec

(***************************************************************************)
(* OnePlace for every instance: whatever the interleaving, every submitted *)
(* request is in exactly one channel, goroutine or tally.                  *)
(***************************************************************************)
THEOREM NothingLostOrDoubled == Spec => []OnePlace
BY PlacedInvariant, PlacedIsOnePlace, PTL

-----------------------------------------------------------------------------
\* A consumer's request is one that nobody has consumed.
LEMMA ReceivedIsNew ==
    ASSUME TypeInv, Placed, NEW r \in Jobs, Receive(r)
    PROVE  r \in Issued /\ r \notin counted /\ r \notin swallowed
<1>1. PICK from \in Sites : Only(r, from) /\ from[1] \in {"merged", "results"}
  BY ReceivedFrom
<1>2. from # <<"counted", 0>> /\ from # <<"swallowed", 0>>
  BY <1>1
<1> QED
  BY <1>1, <1>2, ReceivedFrom DEF Only

\* A request that a worker holds has not been counted.
LEMMA HeldIsNotCounted ==
    ASSUME Placed, NEW w \in Workers, held[w] \in Jobs
    PROVE  held[w] \notin counted
<1>1. At(<<"worker", w>>, held[w]) /\ <<"worker", w>> \in Sites
  BY AtEach, SitesAre
<1>2. Only(held[w], <<"worker", w>>)
  BY <1>1, FoundOnly
<1> QED
  BY <1>2 DEF Only

\* Adding one element to the counted requests adds one to a counter.
LEMMA CountedOneMore ==
    ASSUME NEW S \in SUBSET Jobs, NEW r \in Jobs, r \notin S
    PROVE  Cardinality(S \cup {r}) = Cardinality(S) + 1
BY Sizes, FS_AddElement

\* What the counters count, step by step.
LEMMA CountersStep ==
    ASSUME TypeInv, Placed, CountersMatch, [Next]_vars
    PROVE  CountersMatch'
<1> USE DEF CountersMatch
<1>0. counted \in SUBSET Jobs /\ counted \cap failed \in SUBSET Jobs
  BY DEF TypeInv, TypeOK
<1>1. ASSUME NEW r \in Jobs, Count(r) PROVE CountersMatch'
  <2>1. /\ r \notin counted
        /\ total' = total + 1 /\ counted' = counted \cup {r} /\ failed' = failed
        /\ errors' = IF r \in failed THEN errors + 1 ELSE errors
    BY <1>1, ReceivedIsNew DEF Count, workVars
  <2>2. Cardinality(counted') = Cardinality(counted) + 1
    BY <1>0, <2>1, CountedOneMore
  <2>3. CASE r \in failed
    <3>1. counted' \cap failed' = (counted \cap failed) \cup {r}
      BY <2>1, <2>3
    <3>2. Cardinality(counted' \cap failed') = Cardinality(counted \cap failed) + 1
      BY <1>0, <2>1, <3>1, CountedOneMore
    <3> QED
      BY <2>1, <2>2, <2>3, <3>2
  <2>4. CASE r \notin failed
    <3>1. counted' \cap failed' = counted \cap failed
      BY <2>1, <2>4
    <3> QED
      BY <2>1, <2>2, <2>4, <3>1
  <2> QED
    BY <2>3, <2>4
<1>2. ASSUME NEW w \in Workers, Fire(w) PROVE CountersMatch'
  <2>1. /\ held[w] \in Jobs /\ failed' \in {failed, failed \cup {held[w]}}
        /\ UNCHANGED <<total, errors, counted>>
    BY <1>2 DEF Fire, TypeInv, TypeOK, HandsFull, tallyVars
  <2>2. counted' \cap failed' = counted \cap failed
    BY <2>1, HeldIsNotCounted
  <2> QED
    BY <2>1, <2>2
<1>3. ASSUME \A r \in Jobs : ~Count(r), \A w \in Workers : ~Fire(w) PROVE CountersMatch'
  <2>1. UNCHANGED <<total, errors, counted, failed>>
    BY <1>3, VarsAreAll
    DEF allVars, Next, Work, Build, Submit, SchedExit, Worker, TakeJob, WorkerExit, SendResult,
        PickUp, Forward, Consume, Swallow, Main, Join, ReadTotal, ReadErrors, ReadRate, Exit,
        MainStep, Cancel, workVars, tallyVars
  <2> QED
    BY <2>1
<1> QED
  BY <1>1, <1>2, <1>3

(***************************************************************************)
(* CountersMatch for every instance: the two counters behind every report  *)
(* are the numbers of results, and of failed ones, that were consumed.     *)
(***************************************************************************)
THEOREM CountersAreRight == Spec => []CountersMatch
<1>1. Init => CountersMatch
  <2> SUFFICES ASSUME Init PROVE CountersMatch
    OBVIOUS
  <2>1. counted = {} /\ counted \cap failed = {} /\ total = 0 /\ errors = 0
    BY DEF Init
  <2> QED
    BY <2>1, FS_EmptySet DEF CountersMatch
<1> QED
  BY <1>1, CountersStep, PlacedInvariant, PTL DEF Spec

-----------------------------------------------------------------------------
\* Every step of the run is a step of the ledger, or changes nothing in it.
LEMMA LedgerStep ==
    ASSUME TypeInv, Placed, [Next]_vars
    PROVE  [Ledger!LedgerNext]_(Ledger!ledgerVars)
<1> USE DEF Ledger!ledgerVars
<1>m. Scenario' = Scenario
  BY VarsAreAll
  DEF allVars, Next, Work, Build, Submit, SchedExit, Worker, TakeJob, WorkerExit, Fire,
      SendResult, PickUp, Forward, Consume, Count, Swallow, Main, Join, ReadTotal, ReadErrors,
      ReadRate, Exit, MainStep, Cancel, Alive, Scenario
<1>1. CASE Submit
  <2>1. /\ fired \in Jobs /\ fired \notin Issued /\ Issued' = Issued \cup {fired}
        /\ UNCHANGED <<total, errors, counted, swallowed>>
    BY <1>1, SubmitPlaces DEF Submit, tallyVars
  <2>2. Ledger!Issue(fired)
    BY <1>m, <2>1 DEF Ledger!Issue
  <2> QED
    BY <2>1, <2>2 DEF Ledger!LedgerNext
<1>2. ASSUME NEW r \in Jobs, Count(r) \/ Swallow(r)
      PROVE  Ledger!LedgerNext
  <2>1. r \in Issued \ (counted \cup swallowed)
    BY <1>2, ReceivedIsNew DEF Count, Swallow
  <2>2. Issued' = Issued
    BY <1>2 DEF Count, Swallow, Issued, schedVars
  <2>3. (counted \cup swallowed)' = (counted \cup swallowed) \cup {r}
    BY <1>2 DEF Count, Swallow
  <2>4. Ledger!Settle(r)
    BY <1>m, <2>1, <2>2, <2>3 DEF Ledger!Settle
  <2>5. CASE Count(r)
    BY <2>4, <2>5 DEF Count, Ledger!Count, Ledger!LedgerNext
  <2>6. CASE Swallow(r)
    BY <2>4, <2>6 DEF Swallow, Ledger!Swallow, Ledger!LedgerNext
  <2> QED
    BY <1>2, <2>5, <2>6
<1>3. ASSUME \/ Build \/ SchedExit \/ Main \/ Cancel
             \/ \E w \in Workers : WorkerExit(w) \/ Fire(w)
             \/ UNCHANGED vars
      PROVE  UNCHANGED Ledger!ledgerVars
  BY <1>m, <1>3, OtherStepsPlaces
<1>4. ASSUME NEW w \in Workers, TakeJob(w) \/ SendResult(w)
      PROVE  UNCHANGED Ledger!ledgerVars
  BY <1>m, <1>4 DEF TakeJob, SendResult, Issued, schedVars, tallyVars
<1>5. ASSUME NEW p \in Pools, PickUp(p) \/ Forward(p)
      PROVE  UNCHANGED Ledger!ledgerVars
  BY <1>m, <1>5 DEF PickUp, Forward, Issued, schedVars, tallyVars
<1> QED
  BY <1>1, <1>2, <1>3, <1>4, <1>5 DEF Next, Work, Worker, Consume

(***************************************************************************)
(* The pipeline implements the ledger for every instance: no response is   *)
(* counted twice, invented, or counted before its request was submitted.   *)
(***************************************************************************)
THEOREM PipelineKeepsLedger == Spec => ImplementsLedger
<1>1. Init => Ledger!LedgerInit
  BY LoadRunAssumption DEF Init, Ledger!LedgerInit, Scenario, Issued, Jobs
<1> QED
  BY <1>1, LedgerStep, PlacedInvariant, PTL DEF Spec, ImplementsLedger, Ledger!LedgerSpec
-----------------------------------------------------------------------------
(***************************************************************************)
(* What a goroutine waits for: a select with a case that is ready, a       *)
(* channel with room or with something in it, the end of the context.      *)
(***************************************************************************)
SchedulerReady ==
    \/ schedPc = "select" /\ ctxDone
    \/ schedPc = "submit" /\ Cardinality(jobsCh[target]) < JobBuf

WorkerReady(w) ==
    \/ wpc[w] = "idle" /\ (ctxDone \/ jobsCh[PoolOf[w]] # {})
    \/ wpc[w] = "fire"
    \/ wpc[w] = "send" /\ Cardinality(resCh[PoolOf[w]]) < ResBuf

ForwarderReady(p) ==
    \/ Scenario /\ fwd[p] = NoJob /\ resCh[p] # {}
    \/ fwd[p] # NoJob /\ Cardinality(merged) < MergedBuf

ConsumerReady == IF Scenario THEN merged # {} ELSE \E p \in Pools : resCh[p] # {}

MainReady ==
    \/ mainPc = "wait" /\ ctxDone /\ schedPc = "done"
    \/ mainPc \in {"total", "errors", "rate", "verdict"}

Ready ==
    \/ SchedulerReady
    \/ \E w \in Workers : WorkerReady(w)
    \/ \E p \in Pools : ForwarderReady(p)
    \/ ConsumerReady \/ MainReady

\* In URL mode nothing is ever forwarded.
NothingForwarded == ~Scenario => \A p \in Pools : fwd[p] = NoJob

\* A channel that is full is not empty.
LEMMA FullHasOne ==
    ASSUME NEW S \in SUBSET Jobs, NEW size \in Nat \ {0}, ~(Cardinality(S) < size)
    PROVE  S # {}
<1>1. SUFFICES ASSUME S = {} PROVE FALSE
  OBVIOUS
<1>2. Cardinality({}) = 0
  BY FS_EmptySet
<1> QED
  BY <1>1, <1>2

LEMMA OnlyWedge ==
    ASSUME TypeInv, NothingForwarded, ctxDone, mainPc # "exited", ~Ready
    PROVE  Wedged
<1>1. mainPc = "wait" /\ schedPc = "submit"
  BY DEF TypeInv, TypeOK, Ready, MainReady, SchedulerReady
<1>2. ~(Cardinality(jobsCh[target]) < JobBuf) /\ target \in Pools
  BY <1>1 DEF TypeInv, TypeOK, Ready, SchedulerReady
<1>3. \A p \in Pools : resCh[p] = {}
  <2> SUFFICES ASSUME NEW p \in Pools, resCh[p] # {} PROVE FALSE
    OBVIOUS
  <2>1. Scenario /\ merged = {}
    BY DEF Ready, ConsumerReady
  <2>2. fwd[p] # NoJob /\ ~(Cardinality(merged) < MergedBuf)
    BY <2>1 DEF Ready, ForwarderReady
  <2> QED
    BY <2>1, <2>2, FullHasOne, LoadRunAssumption
<1>4. ASSUME NEW w \in Workers PROVE wpc[w] = "exited"
  <2>1. resCh[PoolOf[w]] = {}
    BY <1>3, PoolOfWorker DEF TypeInv
  <2>2. Cardinality(resCh[PoolOf[w]]) < ResBuf
    BY <2>1, FullHasOne, LoadRunAssumption
  <2>3. wpc[w] \notin {"idle", "fire", "send"}
    BY <2>2 DEF Ready, WorkerReady
  <2> QED
    BY <2>3 DEF TypeInv, TypeOK
<1>5. Cardinality(jobsCh[target]) >= JobBuf
  <2>1. PICK c : c = Cardinality(jobsCh[target])
    OBVIOUS
  <2>2. jobsCh[target] \in SUBSET Jobs
    BY <1>2 DEF TypeInv, TypeOK
  <2>3. c \in Nat
    BY <2>1, <2>2, Sizes
  <2> QED
    BY <1>2, <2>1, <2>3, LoadRunAssumption
<1> QED
  BY <1>1, <1>4, <1>5 DEF Wedged

LEMMA ForwardedKept ==
    ASSUME NothingForwarded, TypeInv, [Next]_vars
    PROVE  NothingForwarded'
<1>1. mode' = mode
  BY VarsAreAll
  DEF allVars, Next, Work, Build, Submit, SchedExit, Worker, TakeJob, WorkerExit, Fire,
      SendResult, PickUp, Forward, Consume, Count, Swallow, Main, Join, ReadTotal, ReadErrors,
      ReadRate, Exit, MainStep, Cancel, Alive
<1>2. ASSUME NEW p \in Pools, PickUp(p) \/ Forward(p) PROVE NothingForwarded'
  BY <1>1, <1>2 DEF PickUp, Forward, NothingForwarded, Scenario, TypeInv, TypeOK
<1>3. ASSUME \A p \in Pools : ~PickUp(p) /\ ~Forward(p) PROVE fwd' = fwd
  BY <1>3, VarsAreAll
  DEF allVars, Next, Work, Build, Submit, SchedExit, Worker, TakeJob, WorkerExit, Fire,
      SendResult, Consume, Count, Swallow, Receive, Main, Join, ReadTotal, ReadErrors,
      ReadRate, Exit, MainStep, Cancel, flowVars
<1> QED
  BY <1>1, <1>2, <1>3 DEF NothingForwarded, Scenario

(***************************************************************************)
(* The safety half of ShutdownOrWedged, for every instance: when the       *)
(* context has ended and no goroutine can move, the process has exited or  *)
(* Submit waits on a full channel whose workers have all left.  Full       *)
(* channels between workers, forwarders and consumers never wait on each   *)
(* other in a circle.                                                      *)
(***************************************************************************)
THEOREM OneWayToWedge == Spec => [](ctxDone /\ ~Ready => mainPc = "exited" \/ Wedged)
<1>1. Init => NothingForwarded
  <2> SUFFICES ASSUME Init PROVE NothingForwarded
    OBVIOUS
  <2>1. fwd = [p \in Pools |-> NoJob]
    BY DEF Init
  <2> QED
    BY <2>1 DEF NothingForwarded
<1>2. Spec => []NothingForwarded
  BY <1>1, ForwardedKept, TypeInvariant, PTL DEF Spec
<1>3. TypeInv /\ NothingForwarded => (ctxDone /\ ~Ready => mainPc = "exited" \/ Wedged)
  BY OnlyWedge
<1> QED
  BY <1>2, <1>3, TypeInvariant, PTL
=============================================================================

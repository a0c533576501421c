------------------------ MODULE RampScheduler_proofs ------------------------
(***************************************************************************)
(* For every set of scenarios and both forms of the release: the types,    *)
(* and that the controller's share of the Semaphore tracks the number of   *)
(* users it was told to reach.                                             *)
(***************************************************************************)
EXTENDS RampScheduler, FiniteSetTheorems, TLAPS

\* No call of setVUs asks for more than the channel holds.  Without this the
\* sends dropped on a full channel could leave the controller far behind.
GoalWithinCap == goal <= Cap /\ currentVUs <= Cap

IInv == TypeOK /\ GoalWithinCap /\ SemaphoreTracksGoal

-----------------------------------------------------------------------------
\* A non-empty set of natural numbers has a least element: the finite sets of
\* numbers are well founded under inclusion, and 0..n lies below 0..m when n < m.
LEMMA Least ==
    ASSUME NEW S \in SUBSET Nat, S # {}
    PROVE  \E m \in S : \A n \in S : m <= n
<1> DEFINE Below == {0..n : n \in S}
<1>1. Below \subseteq FiniteSubsetsOf(Nat) /\ Below # {}
  <2>1. ASSUME NEW n \in S PROVE IsFiniteSet(0..n) /\ 0..n \subseteq Nat
    BY FS_Interval
  <2> QED
    BY <2>1 DEF FiniteSubsetsOf
<1>2. IsWellFoundedOn(StrictSubsetOrdering(Nat), FiniteSubsetsOf(Nat))
  BY FS_StrictSubsetOrderingWellFounded
<1>3. PICK x \in Below : \A y \in Below : <<y, x>> \notin StrictSubsetOrdering(Nat)
  <2> HIDE DEF Below
  <2> QED
    BY <1>1, <1>2, WFMin
<1>4. PICK m \in S : x = 0..m
  OBVIOUS
<1>5. ASSUME NEW n \in S, n < m PROVE FALSE
  <2>1. 0..n \in Below /\ 0..n \subseteq 0..m /\ 0..n # 0..m /\ 0..m \subseteq Nat
    BY <1>5
  <2> QED
    BY <1>3, <1>4, <2>1 DEF StrictSubsetOrdering
<1> QED
  BY <1>5

\* Induction, over a set instead of a predicate.
LEMMA Induction ==
    ASSUME NEW S, 0 \in S, \A n \in Nat : n \in S => n + 1 \in S
    PROVE  Nat \subseteq S
<1> SUFFICES ASSUME Nat \ S # {} PROVE FALSE
  OBVIOUS
<1>1. PICK m \in Nat \ S : \A n \in Nat \ S : m <= n
  BY Least
<1>2. m - 1 \in Nat /\ m - 1 \in S
  BY <1>1
<1> QED
  BY <1>1, <1>2

\* The largest target of the first n stages, or 1, exists.
Largest(s, n, m) ==
    /\ m \in {1} \cup {s[i].target : i \in 1..n}
    /\ m \in Int /\ m >= 1 /\ \A i \in 1..n : s[i].target <= m

LEMMA LargestTarget ==
    ASSUME NEW s \in Seq(Stage)
    PROVE  \E m : Largest(s, Len(s), m)
<1> DEFINE Good == {n \in Nat : n <= Len(s) => \E m : Largest(s, n, m)}
<1>1. \A i \in 1..Len(s) : s[i] \in Stage
  OBVIOUS
<1>2. \A i \in 1..Len(s) : s[i].target \in Int
  BY <1>1 DEF Stage
<1>3. 0 \in Good
  <2>1. Largest(s, 0, 1)
    BY DEF Largest
  <2> QED
    BY <2>1
<1>4. ASSUME NEW n \in Nat, n \in Good PROVE n + 1 \in Good
  <2> SUFFICES ASSUME n + 1 <= Len(s) PROVE \E m : Largest(s, n + 1, m)
    OBVIOUS
  <2>1. n <= Len(s) /\ n + 1 \in 1..Len(s)
    OBVIOUS
  <2>2. PICK m : Largest(s, n, m)
    BY <1>4, <2>1
  <2>3. CASE s[n + 1].target <= m
    <3>1. Largest(s, n + 1, m)
      BY <2>2, <2>3 DEF Largest
    <3> QED
      BY <3>1
  <2>4. CASE ~(s[n + 1].target <= m)
    <3>1. Largest(s, n + 1, s[n + 1].target)
      BY <1>2, <2>1, <2>2, <2>4 DEF Largest
    <3> QED
      BY <3>1
  <2> QED
    BY <2>3, <2>4
<1>5. Nat \subseteq Good
  <2> HIDE DEF Good
  <2> QED
    BY <1>3, <1>4, Induction
<1> QED
  BY <1>5

\* What the assumptions give for the scenario of the run.
LEMMA ScenarioFacts ==
    ASSUME NEW s \in Scenarios
    PROVE  /\ s \in Seq(Stage)
           /\ maxVUs(s) \in Nat \ {0}
           /\ \A i \in 1..Len(s) : /\ s[i].duration \in Int
                                   /\ s[i].target \in Int
                                   /\ s[i].target <= maxVUs(s)
<1>1. s \in Seq(Stage)
  BY ScenariosAssumption
<1>2. \A i \in 1..Len(s) : s[i] \in Stage
  BY <1>1
<1>3. maxVUs(s) \in Nat \ {0} /\ \A i \in DOMAIN s : s[i].target <= maxVUs(s)
  <2>1. PICK m : Largest(s, Len(s), m)
    BY <1>1, LargestTarget
  <2>2. DOMAIN s = 1..Len(s) /\ \A i \in DOMAIN s : s[i].target \in Int
    BY <1>1, <1>2 DEF Stage
  <2>3. /\ m \in {1} \cup {s[i].target : i \in DOMAIN s}
        /\ \A n \in {1} \cup {s[i].target : i \in DOMAIN s} : n <= m
    BY <2>1, <2>2 DEF Largest
  <2>4. maxVUs(s) = m
    <3> DEFINE Candidates == {1} \cup {s[i].target : i \in DOMAIN s}
    <3>1. Candidates \subseteq Int /\ maxVUs(s) = CHOOSE c \in Candidates : \A n \in Candidates : n <= c
      BY <2>2 DEF maxVUs
    <3> HIDE DEF Candidates
    <3>2. m \in Candidates /\ \A n \in Candidates : n <= m
      BY <2>3 DEF Candidates
    <3>3. maxVUs(s) \in Candidates /\ \A n \in Candidates : n <= maxVUs(s)
      BY <3>1, <3>2
    <3>4. maxVUs(s) <= m /\ m <= maxVUs(s) /\ maxVUs(s) \in Int /\ m \in Int
      BY <3>1, <3>2, <3>3
    <3> QED
      BY <3>4
  <2> QED
    BY <2>1, <2>2, <2>4 DEF Largest
<1>4. DOMAIN s = 1..Len(s)
  BY <1>1
<1> QED
  BY <1>1, <1>2, <1>3, <1>4 DEF Stage

\* Interpolation never leaves the interval between the two targets.
LEMMA InterpolatedBounds ==
    ASSUME NEW from \in Int, NEW to \in Int, NEW e, NEW d,
           NEW n \in Interpolated(from, to, e, d)
    PROVE  n \in Int /\ (n <= from \/ n <= to)
<1>1. CASE to >= from
  <2>1. PICK k \in 0..(to - from) : n = from + k
    BY <1>1 DEF Interpolated
  <2> QED
    BY <2>1
<1>2. CASE ~(to >= from)
  <2>1. PICK k \in 0..(from - to) : n = from - k
    BY <1>2 DEF Interpolated
  <2> QED
    BY <2>1
<1> QED
  BY <1>1, <1>2

-----------------------------------------------------------------------------
LEMMA InitIInv == Init => IInv
<1> SUFFICES ASSUME Init PROVE IInv
  OBVIOUS
<1>1. stages \in Scenarios /\ Cap \in Nat \ {0} /\ Len(stages) \in Nat
  BY ScenarioFacts DEF Init, RampInit, Cap
<1>2. TypeOK
  <2>0. ctxRelease \in BOOLEAN
    BY DEF Init
  <2>1. sem \in 0..Cap
    BY <1>1 DEF Init, RampInit
  <2>2. stage \in 1..(Len(stages) + 1)
    BY <1>1 DEF Init, RampInit
  <2>3. (rpc = "tick" \/ elapsed # 0) => stage <= Len(stages)
    BY DEF Init, RampInit
  <2>4. ctxDone \in BOOLEAN
    BY DEF Init, RampInit
  <2>5. rpc \in {"stage", "tick", "set", "done"}
    BY DEF Init, RampInit
  <2>6. currentVUs \in Int /\ elapsed \in Nat /\ goal \in Int /\ left \in Int
    BY DEF Init, RampInit
  <2>7. schedPc \in {"select", "submit", "release", "done", "doneHolding"}
    BY DEF Init, RampInit
  <2> QED
    BY <1>1, <2>0, <2>1, <2>2, <2>3, <2>4, <2>5, <2>6, <2>7
    DEF TypeOK, RampTypeOK
<1>3. GoalWithinCap
  BY <1>1 DEF Init, RampInit, GoalWithinCap
<1>4. SemaphoreTracksGoal
  BY DEF Init, RampInit, SemaphoreTracksGoal, Reserve, Users, Holding
<1> QED
  BY <1>2, <1>3, <1>4 DEF IInv

\* The effect of calling setVUs with an argument the channel can hold.
LEMMA CallKeepsTrack ==
    ASSUME IInv, NEW n \in Int, n <= Cap, CallSetVUs(n),
           UNCHANGED <<stages, sem, schedPc>>
    PROVE  /\ goal' \in Int /\ goal' <= Cap'
           /\ left' \in Int
           /\ SemaphoreTracksGoal'
<1>1. sem \in Int /\ Cap' = Cap
  BY DEF IInv, TypeOK, RampTypeOK, Cap
<1> QED
  BY <1>1 DEF CallSetVUs, SemaphoreTracksGoal, Reserve, Users, Holding

\* A step of the controller preserves the invariant.
LEMMA RampStepIInv ==
    ASSUME IInv, RampStep
    PROVE  IInv'
<1> USE DEF IInv, TypeOK, RampTypeOK, GoalWithinCap
<1>0. /\ stages \in Scenarios /\ Len(stages) \in Nat /\ Cap \in Nat \ {0}
      /\ \A i \in 1..Len(stages) : /\ stages[i].duration \in Int
                                   /\ stages[i].target \in Int
                                   /\ stages[i].target <= Cap
  BY ScenarioFacts DEF Cap
<1>s. UNCHANGED <<ctxRelease, schedPc>>
  BY DEF RampStep
<1>1. CASE InstantStage
  <2>1. stage \in 1..Len(stages)
    BY <1>0, <1>1 DEF InstantStage
  <2>2. CallSetVUs(stages[stage].target) /\ UNCHANGED <<stages, sem, ctxDone>>
    BY <1>1 DEF InstantStage, Complete
  <2>3. goal' \in Int /\ goal' <= Cap' /\ left' \in Int /\ SemaphoreTracksGoal'
    BY <1>0, <1>s, <2>1, <2>2, CallKeepsTrack
  <2> QED
    BY <1>0, <1>1, <1>s, <2>1, <2>2, <2>3
    DEF InstantStage, Complete, CallSetVUs, Cap
<1>2. CASE BeginStage
  BY <1>0, <1>2, <1>s
  DEF BeginStage, Cap, SemaphoreTracksGoal, Reserve, Users, Holding
<1>3. CASE RampTick
  <2>1. stage \in 1..Len(stages)
    BY <1>0, <1>3 DEF RampTick
  <2>2. PICK e \in (elapsed + 1)..(stages[stage].duration - 1) :
           /\ elapsed' = e
           /\ \E n \in Interpolated(currentVUs, stages[stage].target, e,
                                    stages[stage].duration) : CallSetVUs(n)
    BY <1>3 DEF RampTick
  <2>7. PICK n \in Interpolated(currentVUs, stages[stage].target, e,
                               stages[stage].duration) : CallSetVUs(n)
    BY <2>2
  <2>8. n \in Int /\ (n <= currentVUs \/ n <= stages[stage].target)
    <3>1. currentVUs \in Int /\ stages[stage].target \in Int
      BY <1>0, <2>1
    <3> HIDE DEF IInv
    <3> QED
      BY <3>1, InterpolatedBounds
  <2>3. n \in Int /\ n <= Cap
    BY <1>0, <2>1, <2>8
  <2>4. UNCHANGED <<stages, ctxDone, sem, stage, currentVUs>>
    BY <1>3 DEF RampTick
  <2>5. goal' \in Int /\ goal' <= Cap' /\ left' \in Int /\ SemaphoreTracksGoal'
    BY <1>s, <2>3, <2>4, <2>7, CallKeepsTrack
  <2>6. elapsed' \in Nat
    BY <1>0, <2>1, <2>2
  <2> QED
    BY <1>0, <1>s, <2>1, <2>4, <2>5, <2>6, <2>7 DEF CallSetVUs, Cap
<1>4. CASE LastTick
  <2>1. stage \in 1..Len(stages)
    BY <1>0, <1>4 DEF LastTick
  <2>2. CallSetVUs(stages[stage].target) /\ UNCHANGED <<stages, sem, ctxDone>>
    BY <1>4 DEF LastTick, Complete
  <2>3. goal' \in Int /\ goal' <= Cap' /\ left' \in Int /\ SemaphoreTracksGoal'
    BY <1>0, <1>s, <2>1, <2>2, CallKeepsTrack
  <2> QED
    BY <1>0, <1>4, <1>s, <2>1, <2>2, <2>3
    DEF LastTick, Complete, CallSetVUs, Cap
<1>5. CASE AddToken
  BY <1>0, <1>5, <1>s
  DEF AddToken, Cap, SemaphoreTracksGoal, Reserve, Users, Holding
<1>6. CASE DrainToken
  BY <1>0, <1>6, <1>s
  DEF DrainToken, Cap, SemaphoreTracksGoal, Reserve, Users, Holding
<1>7. CASE ReturnFromSetVUs
  BY <1>0, <1>7, <1>s
  DEF ReturnFromSetVUs, Cap, SemaphoreTracksGoal, Reserve, Users, Holding
<1>8. CASE RampExit
  BY <1>0, <1>8, <1>s
  DEF RampExit, Cap, SemaphoreTracksGoal, Reserve, Users, Holding
<1> QED
  BY <1>1, <1>2, <1>3, <1>4, <1>5, <1>6, <1>7, <1>8 DEF RampStep, RampNext

LEMMA NextIInv == IInv /\ [Next]_vars => IInv'
<1> SUFFICES ASSUME IInv, [Next]_vars PROVE IInv'
  OBVIOUS
<1> USE DEF IInv, TypeOK, RampTypeOK, GoalWithinCap, rampVars
<1>0. stages \in Scenarios /\ Len(stages) \in Nat /\ Cap \in Nat \ {0}
  BY ScenarioFacts DEF Cap
<1>1. CASE RampStep
  BY <1>1, RampStepIInv
<1>2. CASE Acquire
  BY <1>0, <1>2
  DEF Acquire, Cap, SemaphoreTracksGoal, Reserve, Users, Holding
<1>3. CASE Submit
  BY <1>0, <1>3
  DEF Submit, Cap, SemaphoreTracksGoal, Reserve, Users, Holding
<1>4. CASE Release
  BY <1>0, <1>4
  DEF Release, Cap, SemaphoreTracksGoal, Reserve, Users, Holding
<1>5. CASE SchedExit
  BY <1>0, <1>5
  DEF SchedExit, Cap, SemaphoreTracksGoal, Reserve, Users, Holding
<1>6. CASE SchedAbandon
  BY <1>0, <1>6
  DEF SchedAbandon, Cap, SemaphoreTracksGoal, Reserve, Users, Holding
<1>7. CASE Cancel
  BY <1>0, <1>7
  DEF Cancel, Cap, SemaphoreTracksGoal, Reserve, Users, Holding
<1>8. CASE UNCHANGED vars
  BY <1>0, <1>8 DEF vars, Cap, SemaphoreTracksGoal, Reserve, Users, Holding
<1> QED
  BY <1>1, <1>2, <1>3, <1>4, <1>5, <1>6, <1>7, <1>8 DEF Next, Scheduler

LEMMA Inductive == Spec => []IInv
<1> QED
  BY InitIInv, NextIInv, PTL DEF Spec

-----------------------------------------------------------------------------
(***************************************************************************)
(* Type correctness: in particular the semaphore is never over-filled and  *)
(* the controller's stage index stays in the scenario (ramp.go:24-87).     *)
(***************************************************************************)
THEOREM TypeCorrect == Spec => []TypeOK
<1>1. IInv => TypeOK
  BY DEF IInv
<1> QED
  BY Inductive, <1>1, PTL

(***************************************************************************)
(* Although setVUs and the scheduler interleave token by token, the        *)
(* controller's share of the channel is never off by more than one         *)
(* (ramp.go:65-87 with run.go:274 and 371).                                *)
(***************************************************************************)
THEOREM TracksGoal == Spec => []SemaphoreTracksGoal
<1>1. IInv => SemaphoreTracksGoal
  BY DEF IInv
<1> QED
  BY Inductive, <1>1, PTL

(***************************************************************************)
(* The release of run.go:371 finds an empty channel only after a call of   *)
(* setVUs with no users to keep.                                           *)
(***************************************************************************)
THEOREM BlocksOnlyAtZero == Spec => []ReleaseBlocksOnlyAtZero
<1>1. IInv => ReleaseBlocksOnlyAtZero
  BY DEF IInv, TypeOK, RampTypeOK, SemaphoreTracksGoal,
         ReleaseBlocksOnlyAtZero, Reserve, Users, Holding
<1> QED
  BY Inductive, <1>1, PTL
=============================================================================

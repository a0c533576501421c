-------------------------------- MODULE Ramp --------------------------------
(***************************************************************************)
(* The ramp controller of internal/ramp/ramp.go: a goroutine that walks    *)
(* through the stages of a scenario and, at every 100 ms tick, calls       *)
(* setVUs to bring the number of tokens in a buffered channel, the         *)
(* Semaphore, to the interpolated number of virtual users.                 *)
(*                                                                         *)
(* Time is counted in abstract units.  A tick may be late or dropped, as a *)
(* Go ticker's may, so it can find any later value of the elapsed time.    *)
(* setVUs is not atomic: it reads len(Semaphore) once and then performs    *)
(* that many non-blocking sends or receives, one per step, while the       *)
(* scheduler (module RampScheduler) uses the same channel.                 *)
(***************************************************************************)
EXTENDS Integers, Sequences

CONSTANT Scenarios   \* the sequences of [duration, target] records to run

(***************************************************************************)
(* Durations and targets come from the YAML file without a range check     *)
(* (scenario.go validates neither), so both may be negative.               *)
(***************************************************************************)
Stage == [duration : Int, target : Int]

(***************************************************************************)
(* The capacity of the semaphore: the largest target, or 1 when no target  *)
(* is positive.                                                            *)
(***************************************************************************)
maxVUs(s) ==
    LET candidates == {1} \cup {s[i].target : i \in DOMAIN s}
    IN  CHOOSE m \in candidates : \A n \in candidates : n <= m

ASSUME ScenariosAssumption == Scenarios \subseteq Seq(Stage)

VARIABLES
    stages,      \* the scenario of this run, never changed
    ctxDone,     \* the run's context is cancelled or timed out
    sem,         \* the number of tokens in the Semaphore channel
    rpc,         \* Run: "stage" | "tick" | "set" (inside setVUs) | "done"
    stage,       \* index of the stage Run works on
    currentVUs,  \* the target of the last completed stage
    elapsed,     \* time the last tick saw since the stage began
    goal,        \* argument n of the setVUs call in progress, or of the last
    left         \* sends (> 0) or receives (< 0) setVUs still has to try

rampVars == <<rpc, stage, currentVUs, elapsed, goal, left>>

Cap == maxVUs(stages)

(***************************************************************************)
(* Linear interpolation, int(float64(to - from) * progress) with progress  *)
(* = e / duration in float64.  int() truncates towards zero, and when the  *)
(* product is an exact integer k the rounding of e / duration may leave it *)
(* just below k, hence k - 1.  The set holds both outcomes.                *)
(***************************************************************************)
Interpolated(from, to, e, duration) ==
    LET span == IF to >= from THEN to - from ELSE from - to
        part == {k \in 0..span : /\ k * duration <= span * e
                                 /\ span * e <= (k + 1) * duration}
    IN  {IF to >= from THEN from + k ELSE from - k : k \in part}

\* Mutant of CallSetVUs: one token too few.
CallSetVUsOffByOne(n) ==
    /\ goal' = n
    /\ left' = n - sem - 1
    /\ rpc' = "set"

(***************************************************************************)
(* setVUs(n) reads the length of the channel and fixes how many tokens it  *)
(* will try to add or to take out.                                         *)
(***************************************************************************)
CallSetVUs(n) ==
    /\ goal' = n
    /\ left' = n - sem
    /\ rpc' = "set"

\* A stage completes: its target is applied and Run turns to the next one.
Complete(st) ==
    /\ CallSetVUs(st.target)
    /\ currentVUs' = st.target
    /\ stage' = stage + 1
    /\ elapsed' = 0

\* A stage of duration 0 is applied at once, without looking at the context.
InstantStage ==
    /\ rpc = "stage"
    /\ stage <= Len(stages)
    /\ stages[stage].duration = 0
    /\ Complete(stages[stage])
    /\ UNCHANGED <<stages, ctxDone, sem>>

\* Any other stage starts its ticker.
BeginStage ==
    /\ rpc = "stage"
    /\ stage <= Len(stages)
    /\ stages[stage].duration # 0
    /\ rpc' = "tick"
    /\ UNCHANGED <<stages, ctxDone, sem, stage, currentVUs, elapsed, goal, left>>

\* A tick inside the stage sets the interpolated number of users.
RampTick ==
    /\ rpc = "tick"
    /\ LET st == stages[stage] IN
       \E e \in (elapsed + 1)..(st.duration - 1) :
          /\ elapsed' = e
          /\ \E n \in Interpolated(currentVUs, st.target, e, st.duration) :
                CallSetVUs(n)
    /\ UNCHANGED <<stages, ctxDone, sem, stage, currentVUs>>

\* A tick at or after the end of the stage sets the target.
LastTick ==
    /\ rpc = "tick"
    /\ Complete(stages[stage])
    /\ UNCHANGED <<stages, ctxDone, sem>>

\* Mutant of AddToken: a channel without a capacity.
AddTokenUnbounded ==
    /\ rpc = "set"
    /\ left > 0
    /\ sem' = sem + 1
    /\ left' = left - 1
    /\ UNCHANGED <<stages, ctxDone, rpc, stage, currentVUs, elapsed, goal>>

\* One iteration of setVUs: a non-blocking send ...
AddToken ==
    /\ rpc = "set"
    /\ left > 0
    /\ sem' = IF sem < Cap THEN sem + 1 ELSE sem
    /\ left' = left - 1
    /\ UNCHANGED <<stages, ctxDone, rpc, stage, currentVUs, elapsed, goal>>

\* ... or a non-blocking receive.
DrainToken ==
    /\ rpc = "set"
    /\ left < 0
    /\ sem' = IF sem > 0 THEN sem - 1 ELSE sem
    /\ left' = left + 1
    /\ UNCHANGED <<stages, ctxDone, rpc, stage, currentVUs, elapsed, goal>>

\* setVUs returns: to the ticker, or to the loop over the stages.
ReturnFromSetVUs ==
    /\ rpc = "set"
    /\ left = 0
    /\ rpc' = IF elapsed = 0 THEN "stage" ELSE "tick"
    /\ UNCHANGED <<stages, ctxDone, sem, stage, currentVUs, elapsed, goal, left>>

\* Run returns: the context ended while it waited for a tick, or no stage is left.
RampExit ==
    /\ \/ rpc = "tick" /\ ctxDone
       \/ rpc = "stage" /\ stage > Len(stages)
    /\ rpc' = "done"
    /\ UNCHANGED <<stages, ctxDone, sem, stage, currentVUs, elapsed, goal, left>>

RampInit ==
    /\ stages \in Scenarios
    /\ ctxDone = FALSE
    /\ sem = 0
    /\ rpc = "stage"
    /\ stage = 1
    /\ currentVUs = 0
    /\ elapsed = 0
    /\ goal = 0
    /\ left = 0

RampNext ==
    \/ InstantStage \/ BeginStage \/ RampTick \/ LastTick
    \/ AddToken \/ DrainToken \/ ReturnFromSetVUs \/ RampExit

RampTypeOK ==
    /\ stages \in Scenarios
    /\ ctxDone \in BOOLEAN
    /\ sem \in 0..Cap
    /\ rpc \in {"stage", "tick", "set", "done"}
    /\ stage \in 1..(Len(stages) + 1)
    /\ (rpc = "tick" \/ elapsed # 0) => stage <= Len(stages)
    /\ currentVUs \in Int
    /\ elapsed \in Nat
    /\ goal \in Int
    /\ left \in Int
=============================================================================

---------------------------- MODULE RampScheduler ---------------------------
(***************************************************************************)
(* The ramp controller together with the scheduler goroutine that paces    *)
(* itself on the controller's Semaphore: the loop of cmd/run.go:268-374    *)
(* and its near copy in internal/agent/agent.go:105-130.                   *)
(*                                                                         *)
(* The channel is used in an unusual direction.  The controller fills it   *)
(* up to the wanted number of users, and the scheduler SENDS a token       *)
(* before a request and receives one back after handing the request to the *)
(* pool; so the scheduler runs in the slots the controller left free.      *)
(* What happens in the pool is the subject of LoadRun; here Submit is a    *)
(* step that returns.                                                      *)
(***************************************************************************)
EXTENDS Ramp

VARIABLES
    ctxRelease,   \* which of the two loops this is, never changed: TRUE when the
                  \* release also selects on ctx.Done (agent.go), FALSE when it
                  \* is a bare receive (run.go)
    schedPc       \* "select" | "submit" | "release" | "done" | "doneHolding"

vars == <<stages, ctxDone, sem, rampVars, ctxRelease, schedPc>>

-----------------------------------------------------------------------------
\* case ctrl.Semaphore <- struct{}{}: a free slot admits one request.
Acquire ==
    /\ schedPc = "select"
    /\ sem < Cap
    /\ sem' = sem + 1
    /\ schedPc' = "submit"
    /\ UNCHANGED <<stages, ctxDone, rampVars, ctxRelease>>

\* Mutant of Submit: the token goes back already here, and again in Release.
SubmitReleases ==
    /\ schedPc = "submit"
    /\ sem' = IF sem > 0 THEN sem - 1 ELSE sem
    /\ schedPc' = "release"
    /\ UNCHANGED <<stages, ctxDone, rampVars, ctxRelease>>

\* The request is built and handed to a pool, or, for a gRPC payload that
\* cannot be encoded, dropped.
Submit ==
    /\ schedPc = "submit"
    /\ schedPc' = "release"
    /\ UNCHANGED <<stages, ctxDone, sem, rampVars, ctxRelease>>

\* Mutant of Release: the token is forgotten in the channel.
ReleaseKeepsToken ==
    /\ schedPc = "release"
    /\ sem > 0
    /\ schedPc' = "select"
    /\ UNCHANGED <<stages, ctxDone, sem, rampVars, ctxRelease>>

\* <-ctrl.Semaphore: blocks while the channel is empty.
Release ==
    /\ schedPc = "release"
    /\ sem > 0
    /\ sem' = sem - 1
    /\ schedPc' = "select"
    /\ UNCHANGED <<stages, ctxDone, rampVars, ctxRelease>>


\* case <-ctx.Done() of the outer select.
SchedExit ==
    /\ schedPc = "select"
    /\ ctxDone
    /\ schedPc' = "done"
    /\ UNCHANGED <<stages, ctxDone, sem, rampVars, ctxRelease>>

\* Mutant of SchedAbandon: the context is looked at only when the token is there.
SchedAbandonWithToken ==
    /\ ctxRelease
    /\ schedPc = "release"
    /\ ctxDone
    /\ sem > 0
    /\ schedPc' = "doneHolding"
    /\ UNCHANGED <<stages, ctxDone, sem, rampVars, ctxRelease>>

\* case <-ctx.Done() of the agent's release: the token stays in the channel.
SchedAbandon ==
    /\ ctxRelease
    /\ schedPc = "release"
    /\ ctxDone
    /\ schedPc' = "doneHolding"
    /\ UNCHANGED <<stages, ctxDone, sem, rampVars, ctxRelease>>

\* The run's timeout, Ctrl+C, the dashboard's stop, or the end of the stream.
Cancel ==
    /\ ~ctxDone
    /\ ctxDone' = TRUE
    /\ UNCHANGED <<stages, sem, rampVars, ctxRelease, schedPc>>

RampStep == RampNext /\ UNCHANGED <<ctxRelease, schedPc>>

Scheduler == Acquire \/ Submit \/ Release \/ SchedExit \/ SchedAbandon

Init == RampInit /\ ctxRelease \in BOOLEAN /\ schedPc = "select"

Next == RampStep \/ Scheduler \/ Cancel

(***************************************************************************)
(* The context has a timeout, so it ends.  Ticks keep coming and both      *)
(* goroutines are scheduled.  Go's select picks at random among the ready  *)
(* cases, so a case that is ready again and again is taken: strong         *)
(* fairness for the exits.                                                 *)
(***************************************************************************)
Fairness ==
    /\ WF_vars(Cancel)
    /\ WF_vars(RampStep)
    /\ WF_vars(Acquire) /\ WF_vars(Submit) /\ WF_vars(Release)
    /\ SF_vars(SchedExit) /\ WF_vars(SchedAbandon)

Spec == Init /\ [][Next]_vars /\ Fairness

-----------------------------------------------------------------------------
TypeOK ==
    /\ RampTypeOK
    /\ ctxRelease \in BOOLEAN
    /\ schedPc \in {"select", "submit", "release", "done", "doneHolding"}

\* The scheduler's own token is among those counted by len(Semaphore).
Holding == schedPc \in {"submit", "release", "doneHolding"}

\* What is in the channel on the controller's account; -1 when the controller
\* has drained the token the scheduler sent.
Reserve == IF Holding THEN sem - 1 ELSE sem

Users == IF goal > 0 THEN goal ELSE 0

(***************************************************************************)
(* setVUs (ramp.go:65-87) counts the scheduler's token as its own and      *)
(* gives up on a send or receive that would block, both while the          *)
(* scheduler moves its token in and out.  In spite of that the controller  *)
(* is never off by more than one: between calls its share of the channel   *)
(* is the wanted number of users or one less, and during a call it is on   *)
(* the way there.                                                          *)
(***************************************************************************)
SemaphoreTracksGoal ==
    IF rpc = "set"
    THEN goal - 1 <= Reserve + left /\ Reserve + left <= Users
    ELSE Reserve \in {Users - 1, Users}

(***************************************************************************)
(* The bare receive of run.go:371 finds the channel empty only when the    *)
(* controller was told to go to zero users (or is on the way down): a      *)
(* ramp-down between positive targets never takes the scheduler's token.   *)
(***************************************************************************)
ReleaseBlocksOnlyAtZero ==
    schedPc = "release" /\ sem = 0 /\ rpc # "set" => goal <= 0

(***************************************************************************)
(* A scheduler that waits to give its token back gets on (agent.go:123).   *)
(***************************************************************************)
ReleaseReturns == (ctxRelease /\ schedPc = "release") ~> schedPc # "release"

(***************************************************************************)
(* The same for the bare receive of run.go:371, which can wait for ever,   *)
(* but only on a channel the controller has emptied before it finished.    *)
(***************************************************************************)
ReleaseReturnsUnlessDrained ==
    schedPc = "release"
        ~> (schedPc # "release" \/ (rpc = "done" /\ sem = 0 /\ Users = 0))


(***************************************************************************)
(* README.md:244 "Graceful shutdown - Ctrl+C prints full summary": the     *)
(* summary is printed after wg.Wait() (run.go:376-377), so when the        *)
(* context ends the scheduler must return.                                 *)
(***************************************************************************)
GracefulShutdown == ctxDone ~> schedPc \in {"done", "doneHolding"}

(***************************************************************************)
(* README.md:30 "Tell it how many virtual users and for how long. It       *)
(* hammers the target": in a stage that holds a positive number of users,  *)
(* a scheduler that waits at its select has a free slot to run in.         *)
(***************************************************************************)
HoldStageServes ==
    /\ rpc = "tick"
    /\ currentVUs = stages[stage].target
    /\ currentVUs > 0
    /\ schedPc = "select"
    => sem < Cap
=============================================================================

-------------------------- MODULE MCRampScheduler ---------------------------
(***************************************************************************)
(* Small scenarios for RampScheduler: up, hold, down to zero, a jump by    *)
(* stages of duration 0, a target that is never positive, and the negative *)
(* values the YAML loader lets through.                                    *)
(***************************************************************************)
EXTENDS RampScheduler

St(d, t) == [duration |-> d, target |-> t]

MCScenarios ==
    { <<St(2, 2), St(2, 0)>>,                \* up and down, as in the README
      <<St(4, 3), St(1, 3), St(2, 1)>>,      \* up, hold, partly down
      <<St(0, 3), St(2, 2), St(0, 0)>>,      \* jumps
      <<St(1, 0)>>,                          \* nobody
      <<St(0, 2), St(3, -2), St(-1, 1)>> }   \* not validated
=============================================================================

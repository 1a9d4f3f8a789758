---------------------------- MODULE SpindleRuns ----------------------------
(***************************************************************************)
(* SpindleSystem with a record of the run the sequencer is in, for what    *)
(* can be said of the drive although every pin is old: it is written by    *)
(* every cycle and read by nothing in the loop.                            *)
(*                                                                         *)
(* The sequencer knows rest only from feedback.  What it takes for rest    *)
(* after a run is rest if feedback has shown the rotation before; a run    *)
(* that is ended earlier, by whatever, is judged on feedback that may be   *)
(* older than the run.  Nothing is said of it here until the drive has     *)
(* come to rest and its feedback says so.                                  *)
(***************************************************************************)
EXTENDS SpindleSystem

VARIABLE run

(* "rest"   the drive is at rest, and its feedback has said so               *)
(* "begun"  a run word was published after that, no rotation sampled yet     *)
(* "seen"   rotation was sampled in this run                                 *)
(* "lost"   a run ended before, or the drive was found turning               *)
RunPhases == {"rest", "begun", "seen", "lost"}

runVars == <<systemVars, run>>

turning_feedback == is_running /\ pins.feedback.output_frequency # 0

RunWordStands == out'.main_control # CONTROL_STOP

Follow ==
    run' = CASE run = "rest" -> IF RunWordStands THEN "begun" ELSE "rest"
             [] run = "begun" -> IF turning_feedback THEN "seen"
                                 ELSE IF RunWordStands THEN "begun"
                                 ELSE "lost"
             [] run = "seen" -> IF ctx'.state \in {"Stopped", "Fault"} THEN "rest" ELSE "seen"
             [] run = "lost" -> IF AtRest /\ stopped_feedback /\ ~RunWordStands THEN "rest"
                                ELSE "lost"

RunsInit == SystemInit /\ run = IF AtRest THEN "rest" ELSE "lost"

Others ==
    \/ ReleaseBus \/ Transact \/ ResetBus
    \/ Ramp \/ LeaveOperation \/ Trip
    \/ RequestMotion \/ Operate

RunsNext == (Control /\ Follow) \/ (Others /\ UNCHANGED run)

RunsSpec == RunsInit /\ [][RunsNext]_runVars

FairRunsSpec == RunsSpec /\ Fairness

-----------------------------------------------------------------------------
(* Properties *)

\* The sequencer reports rest (types.rs, "has verified stopped feedback") only while
\* the drive neither turns nor has been told to.
RestIsReal == run # "lost" /\ ctx.state \in {"Stopped", "Fault"} => AtRest

\* The drive is told to turn the other way only when it is at rest (README.md, "refuses a
\* direction change while operating").
ReversalAfterRest ==
    [][run # "lost" /\ drive'.reverse # drive.reverse
         => drive.spin = 0 /\ ~drive.operating]_runVars

\* The frequency is cleared only in a drive that has been told STOP, or has tripped.
ClearAfterStop ==
    [][run # "lost" /\ drive'.given = 0 /\ drive.given # 0
         => drive.word = CONTROL_STOP \/ drive.fault # 0]_runVars

\* A cycle that reports a requested run at speed has a drive that turns the way requested,
\* or that has tripped since it was last asked for its fault. A tolerance of F011 or more
\* would take a standing spindle for one at speed.
TurnsAsTold == IF out'.main_control = CONTROL_REVERSE THEN drive.spin < 0 ELSE drive.spin > 0
AtSpeedTrue ==
    [][Control /\ run # "lost" /\ config.tolerance < pins.parameters.F011
         /\ request.run_request /\ out'.at_speed
         => \/ TurnsAsTold
            \/ drive.fault # 0 /\ pins.feedback.current_fault = 0]_runVars
=============================================================================

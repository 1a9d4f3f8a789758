-------------------------- MODULE SequencerHistory --------------------------
(***************************************************************************)
(* Sequencer with a record of what its cycles have done so far, for the    *)
(* properties that span a whole run: the record is written by every cycle  *)
(* and read by nothing in the sequencer.                                   *)
(***************************************************************************)
EXTENDS Sequencer

VARIABLE past

(* turned   the run word last published, STOP once a cycle has sampled rest  *)
(*          under STOP                                                       *)
(* standing TRUE from the cycle that latches a fault until one samples no    *)
(*          run request                                                      *)
(* spent    TRUE from the cycle that accepts a reset until one samples the   *)
(*          reset pin low                                                    *)
(* confirmed TRUE from the cycle that reaches Running until the run ends or  *)
(*          rotation is not sampled                                          *)
NoPast == [turned |-> CONTROL_STOP, standing |-> FALSE, spent |-> FALSE, confirmed |-> FALSE]

Remember ==
    past' = [turned |-> IF out'.main_control # CONTROL_STOP THEN out'.main_control
                        ELSE IF stopped_feedback THEN CONTROL_STOP
                        ELSE past.turned,
             standing |-> /\ request.run_request
                          /\ past.standing \/ (ctx'.fault_latched /\ ~ctx.fault_latched),
             spent |-> pins.reset /\ (past.spent \/ ResetAccepted),
             confirmed |-> /\ ctx'.state \in ActiveStates /\ is_running
                           /\ past.confirmed \/ ctx'.state = "Running"]

HistoryInit == Init /\ past = NoPast
HistoryNext == (Cycle /\ Remember) \/ (Environment /\ UNCHANGED past)
HistorySpec == HistoryInit /\ [][HistoryNext]_<<vars, past>>

-----------------------------------------------------------------------------
(* Properties *)

\* Between a run word and the opposite one lies a cycle that published STOP and
\* sampled rest: the sequencer never plugs a turning spindle, through faults, resets
\* and changed requests alike (README.md: it refuses a direction change while
\* operating).
NoReversalWithoutRest ==
    [][out'.main_control \in {past.turned, CONTROL_STOP} \/ past.turned = CONTROL_STOP]_<<vars, past>>

\* After a fault no run word is published before a cycle has sampled the run request
\* low: a request left standing through fault and reset never restarts the spindle.
NoRestartOnStandingRequest == past.standing => out.main_control = CONTROL_STOP

\* One press of reset is accepted once: a fault latched while the pin is still high
\* stays latched until the pin has been sampled low and high again.
OneResetPerPress ==
    [][past.spent /\ ctx.fault_latched => ctx'.fault_latched]_<<vars, past>>

\* Once a run has been confirmed as Running, a sample that shows rotation against the
\* held direction latches a fault (README.md, "if that direction status changes after a
\* running state was confirmed, the sequencer latches DIRECTION_FEEDBACK_MISMATCH").
\* The code looks only in Running itself, which a new speed leaves for Starting.
ConfirmedDirectionWatched ==
    [][CycleStep /\ past.confirmed /\ run_enabled /\ is_running /\ ~direction_feedback_matches
         => ctx'.fault_latched]_<<vars, past>>
=============================================================================

------------------------- MODULE SequencerContract -------------------------
(***************************************************************************)
(* The sequencer implements SpindleContract: the published control word    *)
(* and frequency are the commanded ones, and the phase and the direction   *)
(* of the contract are what the context holds.                             *)
(***************************************************************************)
EXTENDS Sequencer

contract_phase ==
    CASE ctx.state = "Arming" -> "selected"
      [] ctx.state \in {"Starting", "Running"} -> "turning"
      [] OTHER -> IF ctx.held_frequency = 0 THEN "idle" ELSE "halted"

contract_direction == IF contract_phase = "idle" THEN CONTROL_STOP ELSE RunWord(ctx)

Contract == INSTANCE SpindleContract WITH
    Directions <- {CONTROL_FORWARD, CONTROL_REVERSE},
    Stop <- CONTROL_STOP,
    MaxFrequency <- MaxRegister,
    phase <- contract_phase,
    direction <- contract_direction,
    command <- out.main_control,
    frequency <- out.given_frequency,
    tripped <- ctx.fault_latched,
    rest <- stopped_feedback

\* Every behaviour of the sequencer is one of the contract, whatever the pins do: in
\* particular a direction is chosen only for a spindle the sequencer saw at rest after
\* its last run, a halted spindle is never turned again before rest, and a trip can
\* only be acknowledged at rest.
ImplementsContract == Contract!Spec
=============================================================================

--------------------------- MODULE SpindleContract ---------------------------
(***************************************************************************)
(* What the sequencer promises the machine around it, without saying how:  *)
(* a direction is selected for an idle spindle together with a frequency,  *)
(* the spindle turns in the selected direction only, a halted spindle      *)
(* keeps its frequency until rest is sensed and cannot be turned again     *)
(* before, and a trip forbids any selection until it is acknowledged at    *)
(* rest.                                                                   *)
(***************************************************************************)
EXTENDS Naturals

CONSTANTS Directions, Stop, MaxFrequency

VARIABLES
    phase,      \* "idle", "selected", "turning" or "halted"
    direction,  \* the selected direction, Stop when idle
    command,    \* the commanded direction or Stop
    frequency,  \* the commanded frequency
    tripped,    \* a trip waits to be acknowledged
    rest        \* the sensor: the spindle is at rest

Frequencies == 1 .. MaxFrequency

Init ==
    /\ phase = "idle"
    /\ direction = Stop
    /\ command = Stop
    /\ frequency = 0
    /\ tripped = FALSE
    /\ rest \in BOOLEAN

\* The spindle comes to rest, or starts to move.
Sense == rest' = ~rest /\ UNCHANGED <<phase, direction, command, frequency, tripped>>

\* Stop the spindle, and make it idle if it is at rest already.
ToRest ==
    /\ command' = Stop
    /\ IF rest
       THEN phase' = "idle" /\ direction' = Stop /\ frequency' = 0
       ELSE phase' = "halted" /\ UNCHANGED <<direction, frequency>>
    /\ UNCHANGED rest

Select ==
    /\ phase = "idle" /\ ~tripped
    /\ direction' \in Directions
    /\ frequency' \in Frequencies
    /\ phase' = "selected"
    /\ UNCHANGED <<command, tripped, rest>>

Retarget ==
    /\ phase = "selected"
    /\ frequency' \in Frequencies
    /\ UNCHANGED <<phase, direction, command, tripped, rest>>

Turn ==
    /\ phase \in {"selected", "turning"}
    /\ phase' = "turning"
    /\ command' = direction
    /\ frequency' \in Frequencies
    /\ UNCHANGED <<direction, tripped, rest>>

\* The run ends, with or without a trip.
Halt ==
    /\ phase \in {"selected", "turning"}
    /\ ToRest
    /\ tripped' \in BOOLEAN

Settle == phase = "halted" /\ rest /\ ToRest /\ UNCHANGED tripped

Trip ==
    /\ phase \in {"idle", "halted"} /\ ~tripped
    /\ tripped' = TRUE
    /\ IF phase = "halted" THEN ToRest ELSE UNCHANGED <<phase, direction, command, frequency, rest>>

Acknowledge == tripped /\ rest /\ ToRest /\ tripped' = FALSE

Next == Sense \/ Select \/ Retarget \/ Turn \/ Halt \/ Settle \/ Trip \/ Acknowledge

contract_vars == <<phase, direction, command, frequency, tripped, rest>>

Spec == Init /\ [][Next]_contract_vars
=============================================================================

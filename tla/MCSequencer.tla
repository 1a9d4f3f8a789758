---------------------------- MODULE MCSequencer ----------------------------
(***************************************************************************)
(* Values for the model-checking runs of the sequencer and of its history. *)
(* They are the ones of the installed spindle: 24000 rpm at 400.0 Hz,      *)
(* 6000 rpm minimum, F004 = F005 = 4000.                                   *)
(***************************************************************************)
EXTENDS Sequencer

Idle == [machine_enabled |-> TRUE, run_request |-> FALSE,
         forward_request |-> FALSE, reverse_request |-> FALSE]
M3 == [Idle EXCEPT !.run_request = TRUE, !.forward_request = TRUE]
M4 == [Idle EXCEPT !.run_request = TRUE, !.reverse_request = TRUE]
MachineOff == [M3 EXCEPT !.machine_enabled = FALSE]

LinkUp == [link_fault |-> FALSE, any_command_disabled |-> FALSE]
LinkDown == [LinkUp EXCEPT !.link_fault = TRUE]

Good == [F001 |-> 2, F002 |-> 2, F004 |-> 4000, F005 |-> 4000, F011 |-> 1000, F024 |-> 1,
         F163 |-> 1, F164 |-> 2, F165 |-> 3, F169 |-> 0]
HundredthHz == [Good EXCEPT !.F169 = 1]

GoodConfig == [finite |-> TRUE, rated |-> 24000, minimum |-> 6000, maximum |-> 24000,
               tolerance |-> 10, F004 |-> 4000, F005 |-> 4000]

Rest == [output_frequency |-> 0, current_fault |-> 0, main_status |-> {}]
Tripped == [Rest EXCEPT !.current_fault = 64]
\* M3 turns the drive in its Reverse direction, M4 in its Forward direction.
Turning(decihz) ==
    [Rest EXCEPT !.output_frequency = decihz, !.main_status = {"InOperation", "Reverse"}]
TurningForward(decihz) ==
    [Rest EXCEPT !.output_frequency = decihz, !.main_status = {"InOperation"}]
Coasting == [Rest EXCEPT !.output_frequency = 1]

\* The interlock runs: every request, links up and down, a drive that trips, turns
\* either way, coasts or rests, at one speed.
InterlockRequests == {Idle, M3, M4, MachineOff}
InterlockSpeeds == {12000}
InterlockResets == BOOLEAN
InterlockLinks == {LinkUp, LinkDown}
InterlockParameters == {Good}
InterlockFeedbacks == {Rest, Turning(2000), TurningForward(2000), Coasting}
InterlockReadbacks == {0, 2000}
InterlockConfigs == {GoodConfig}

\* The direction run: the interlock values with a speed to change to.
DirectionSpeeds == {6000, 12000}
OneLink == {LinkUp}

\* The speed run: a slow spindle (numbers small enough for TLC at 700.0 Hz), speeds on
\* both sides of every limit, both register scales, F011 just above a frequency that
\* rounds up to it, F005 below F004, a frequency past the register at the finer scale,
\* feedback inside and outside the tolerance, a selector out of its range and a drive fault.
SpeedRequests == {Idle, M3}
SpeedSpeeds == {NotFinite, 0, 59, 60, 121, 240, 241}
SpeedResets == {FALSE}
SpeedLinks == {LinkUp}
At(p, f004, f005) == [p EXCEPT !.F004 = f004, !.F005 = f005]
SpeedParameters ==
    {[Good EXCEPT !.F011 = 2017], At(HundredthHz, 7000, 7000), At(HundredthHz, 7000, 4000),
     [Good EXCEPT !.F169 = 2]}
SpeedFeedbacks == {Rest, Tripped, Turning(2006), Turning(3530)}
SpeedReadbacks == {17500, 35292}
Slow == [GoodConfig EXCEPT !.rated = 240, !.minimum = 60, !.maximum = 240]
SpeedConfigs ==
    {Slow, At(Slow, 7000, 7000), At(Slow, 7000, 4000)}
=============================================================================

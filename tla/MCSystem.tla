------------------------------ MODULE MCSystem ------------------------------
(***************************************************************************)
(* Values for the runs of SpindleSystem: the installed spindle, M3 and M4  *)
(* at its lowest speed, or at one on the way to which the drive shows a    *)
(* frequency between.                                                      *)
(***************************************************************************)
EXTENDS SpindleSystem

Idle == [machine_enabled |-> TRUE, run_request |-> FALSE,
         forward_request |-> FALSE, reverse_request |-> FALSE]
M3 == [Idle EXCEPT !.run_request = TRUE, !.forward_request = TRUE]
M4 == [Idle EXCEPT !.run_request = TRUE, !.reverse_request = TRUE]

Good == [F001 |-> 2, F002 |-> 2, F004 |-> 4000, F005 |-> 4000, F011 |-> 1000, F024 |-> 1,
         F163 |-> 1, F164 |-> 2, F165 |-> 3, F169 |-> 0]
GoodConfig == [finite |-> TRUE, rated |-> 24000, minimum |-> 6000, maximum |-> 24000,
               tolerance |-> 10, F004 |-> 4000, F005 |-> 4000]

\* What the pins may hold, for the sequencer's own constants.
Links_ == [link_fault : BOOLEAN, any_command_disabled : BOOLEAN]
Feedbacks_ == [output_frequency : Frequencies, current_fault : DriveFaults \cup {0},
               main_status : SUBSET {"InOperation", "Reverse"}]

BothWays == {Idle, M3, M4}
OneWay == {Idle, M3}
OneSpeed == {6000}
HighSpeed == {12000}
NoResets == {FALSE}
Readbacks_ == Frequencies
Parameters_ == {Good}
Configs_ == {GoodConfig}

OneFrequency == {0, 1000}
TwoFrequencies == {0, 1000, 2000}

AtRestDrive == [word |-> CONTROL_STOP, given |-> 0, reverse |-> FALSE, operating |-> FALSE,
                spin |-> 0, fault |-> 0]
\* The drive at rest, and as a session that ended during M3 leaves it.
LeftTurning == [AtRestDrive EXCEPT !.word = CONTROL_REVERSE, !.given = 1000, !.reverse = TRUE,
                                   !.operating = TRUE, !.spin = -1000]
FoundAtRest == {AtRestDrive}
FoundAnyhow == {AtRestDrive, LeftTurning}

NoFaults == {}
OneFault == {3}
NoCommands == {}
OneRead == {"MainStatus"}
=============================================================================

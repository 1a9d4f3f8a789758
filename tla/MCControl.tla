----------------------------- MODULE MCControl -----------------------------
(***************************************************************************)
(* Values for the runs of SpindleControl: 50 ms a turn on the live map and *)
(* 100 ms on the others, as their interval attributes say, so that the     *)
(* sleeps of 0.5 s and 0.2 s are 10 or 5, and 4 turns.                     *)
(***************************************************************************)
EXTENDS SpindleControl

FiniteTest(requested, maximum) ==
    [command |-> "finite-test", requested |-> requested, maximum |-> maximum]

\* 100.0 Hz; a frequency only the fine unit expresses, one that neither does, and an
\* explicit maximum above F005.
AllInvocations ==
    {FiniteTest(100000, 400000), FiniteTest(100050, 400000), FiniteTest(100001, 400000),
     FiniteTest(100000, 400100), [FiniteTest(1, 1) EXCEPT !.command = "configure-400hz"],
     [FiniteTest(1, 1) EXCEPT !.command = "status"]}
OneInvocation == {FiniteTest(100000, 400000)}

Good == [F001 |-> 2, F002 |-> 2, F004 |-> 4000, F005 |-> 4000, F024 |-> 1, F163 |-> 1,
         F164 |-> 2, F165 |-> 3, F169 |-> 0]
Factory == [Good EXCEPT !.F004 = 500, !.F005 = 500]
Fine == [Good EXCEPT !.F169 = 1]
Panel == [Good EXCEPT !.F001 = 0]

AtRest == [word |-> CONTROL_STOP, given |-> 0, turning |-> FALSE, fault |-> 0,
           parameters |-> Good, locked |-> {}]
\* As a session that was cut off leaves it.
LeftTurning == [AtRest EXCEPT !.word = CONTROL_FORWARD, !.given = 1000, !.turning = TRUE]

AllDrives ==
    {[AtRest EXCEPT !.parameters = p] : p \in {Good, Factory, Fine, Panel}}
        \cup {[AtRest EXCEPT !.parameters = Factory, !.locked = l] :
                 l \in {{"F004"}, {"F004", "F005"}}}
        \cup {LeftTurning, [LeftTurning EXCEPT !.parameters = Factory]}
OneDrive == {AtRest}

OneFault == {64}
NoFaults == {}
\* Reads of what the script acts on, and both writes.
SomeEntries == {"F004", "OutputFrequency", "Readback", "MainControl", "GivenFrequency"}
NoEntries == {}

Sleeps == [live |-> 10, readonly |-> 5, configure |-> 5]
=============================================================================

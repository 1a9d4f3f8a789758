--------------------------- MODULE SpindleControl ---------------------------
(***************************************************************************)
(* tools/spindle_control.py --live: the script that reads the status, runs *)
(* one finite forward test, or writes F004 and F005 once, over a HAL       *)
(* session of its own without the realtime sequencer.  The script polls    *)
(* and sets the pins of hm2_modbus; hm2_modbus works through the command   *)
(* list of the loaded map; the drive turns.                                *)
(*                                                                         *)
(* Time is counted in turns: a turn is one transaction of the bus.  A      *)
(* timeout may expire, and the operator may interrupt, at any moment.      *)
(* hm2_modbus and the drive are external.                                  *)
(***************************************************************************)
EXTENDS Integers, Sequences, SequencesExt, FiniteSets

CONSTANTS
    Invocations,   \* what the operator may ask for
    InitialDrives, \* states the drive may be found in
    DriveFaults,   \* codes the drive may trip with
    Unreliable,    \* transactions that may fail
    SettleTurns,   \* turns of the loaded map in the sleep after communication is seen
    RunTurns,      \* turns in --duration-seconds
    CloseTurns     \* turns in the sleep after the STOP of close

\* A frequency asked for is in mHz; it need not be one a register can express.
Invocation == [command : {"status", "finite-test", "configure-400hz"}, requested : Nat, maximum : Nat]

Parameters == {"F001", "F002", "F004", "F005", "F024", "F163", "F164", "F165", "F169"}

CONTROL_STOP == "Stop"
CONTROL_FORWARD == "Forward"
Words == {CONTROL_STOP, CONTROL_FORWARD}

\* A drive answers the write of a locked parameter and does not take it, the case the
\* readback of configure-400hz is for.
Drives == [word : Words, given : Nat, turning : BOOLEAN, fault : Nat,
           parameters : [Parameters -> Nat], locked : SUBSET {"F004", "F005"}]

Maps == {"live", "readonly", "configure"}

ASSUME InvocationsAssumption ==
    /\ Invocations \subseteq Invocation
    /\ \A i \in Invocations : i.requested > 0 /\ i.maximum > 0
ASSUME InitialDrivesAssumption == InitialDrives \subseteq Drives
ASSUME DriveFaultsAssumption == DriveFaults \subseteq Nat \ {0}
\* On the live map, 0.5 s at 50 ms a turn.
ASSUME TurnsAssumption ==
    /\ SettleTurns \in [Maps -> Nat] /\ RunTurns \in Nat /\ CloseTurns \in Nat
    /\ SettleTurns["live"] >= 10

VARIABLES
    script, \* the process: where it is, what it was asked, what it decided and saw
    pins,   \* the pins of hm2_modbus
    bus,    \* the loaded map, "none" outside a session, and the entry whose turn it is
    drive   \* the H100

controlVars == <<script, pins, bus, drive>>

-----------------------------------------------------------------------------
(* The maps: an initialisation list sent once, and a list of commands sent over and *)
(* over. F014, F011 and F140 are read and looked at by nothing here.                *)

InitList(map) ==
    IF map = "configure" THEN <<"WriteStop", "WriteZero", "WriteF005", "WriteF004">> ELSE <<>>

LiveCommands ==
    <<"F001", "F004", "F014", "F011", "F024", "F163", "F169", "OutputFrequency",
      "CurrentFault", "MainStatus", "Readback", "MainControl", "GivenFrequency">>

ReadonlyCommands ==
    <<"OutputFrequency", "CurrentFault", "F001", "F004", "F014", "F011", "F024",
      "F163", "F169", "MainStatus">>

ConfigureCommands ==
    <<"OutputFrequency", "CurrentFault", "F001", "F004", "F014", "F011", "F024",
      "F140", "F163", "F169", "MainStatus">>

CommandList(map) ==
    CASE map = "live" -> LiveCommands
      [] map = "readonly" -> ReadonlyCommands
      [] map = "configure" -> ConfigureCommands

Entries(map) == InitList(map) \o CommandList(map)

\* The parameters one read command brings.
Group(command) ==
    CASE command = "F001" -> {"F001", "F002"}
      [] command = "F004" -> {"F004", "F005"}
      [] command = "F163" -> {"F163", "F164", "F165"}
      [] OTHER -> {command}

Target == 4000  \* 400.0 Hz, what configure-400hz writes to F005 and F004

-----------------------------------------------------------------------------
(* decide_forward_command *)

\* The value of 0201H for a frequency, in the units F169 selects.
UnitsOf(f169) == IF f169 = 0 THEN 100 ELSE 10

\* encode_frequency_hz raises nothing.
Encodable(frequency, f169) ==
    /\ f169 \in {0, 1}
    /\ frequency % UnitsOf(f169) = 0
    /\ frequency \div UnitsOf(f169) <= 65535

encode_frequency_hz(frequency, f169) == frequency \div UnitsOf(f169)

\* Mutant of run_permitted: the explicit maximum is not compared with F005.
run_permitted_mutant(asked) ==
    LET p == pins.parameters
    IN  /\ ~pins.link_fault /\ pins.current_fault = 0
        /\ p["F001"] = 2 /\ p["F002"] = 2 /\ p["F024"] = 1
        /\ p["F005"] > 0
        /\ asked.requested > 0 /\ asked.requested <= asked.maximum

run_permitted(asked) ==
    LET p == pins.parameters
    IN  /\ ~pins.link_fault /\ pins.current_fault = 0
        /\ p["F001"] = 2 /\ p["F002"] = 2 /\ p["F024"] = 1
        /\ p["F005"] > 0 /\ asked.maximum <= 100 * p["F005"]
        /\ asked.requested > 0 /\ asked.requested <= asked.maximum

\* Both status pins show a drive at rest.
ReportsStopped == pins.output_frequency = 0 /\ ~pins.in_operation

-----------------------------------------------------------------------------
(* The script *)

At(place) == script.at = place
Goto(place) == script' = [script EXCEPT !.at = place, !.turns = 0]
Rested(turns) == script.turns >= turns
Quiet == UNCHANGED <<bus, drive>>

\* Leave the try block, to close the session: with STOP on the pin if the map can write it.
Leave(outcome) ==
    /\ script' = [script EXCEPT !.at = "closing", !.turns = 0, !.outcome = outcome]
    /\ pins' = IF bus.map = "live" THEN [pins EXCEPT !.control = CONTROL_STOP] ELSE pins
    /\ Quiet

\* The pins of a freshly loaded hm2_modbus.
NewPins == [control |-> CONTROL_STOP, given |-> 0, link_fault |-> FALSE, readback |-> 0,
            output_frequency |-> 0, in_operation |-> FALSE, current_fault |-> 0,
            parameters |-> [f \in Parameters |-> 0]]

\* configure: load the map, put STOP and zero on the write pins, release the bus.
Configure ==
    /\ At("load")
    /\ Goto("await-communication")
    /\ pins' = NewPins
    /\ bus' = [map |-> script.map, next |-> 1]
    /\ UNCHANGED drive

\* configure fails before the bus is released.
ConfigureFails ==
    /\ At("load")
    /\ script' = [script EXCEPT !.at = "closed", !.outcome = "refused"]
    /\ UNCHANGED <<pins, bus, drive>>

Waiting == script.at \in {"await-communication", "await-zero", "await-frequency", "await-rest"}

\* A wait loop finds the fault pin raised, or its time is up.
WaitFails == Waiting /\ Leave("refused")

CommunicationSeen ==
    /\ At("await-communication") /\ ~pins.link_fault
    /\ [f \in {"F163", "F164", "F165"} |-> pins.parameters[f]] =
         [F163 |-> 1, F164 |-> 2, F165 |-> 3]
    /\ Goto("settle")
    /\ UNCHANGED pins /\ Quiet

Settled ==
    /\ At("settle") /\ Rested(SettleTurns[bus.map])
    /\ IF pins.link_fault THEN Leave("refused")
       ELSE /\ Goto(IF bus.map = "live" THEN "await-zero" ELSE "check")
            /\ UNCHANGED pins /\ Quiet

\* The frequency register still reads zero; decide on what the pins report.
Decide ==
    /\ At("await-zero") /\ ~pins.link_fault /\ pins.readback = 0
    /\ LET f169 == pins.parameters["F169"]
       IN  IF /\ run_permitted(script.asked)
              /\ Encodable(script.asked.requested, f169)
              /\ ReportsStopped
           THEN LET register == encode_frequency_hz(script.asked.requested, f169)
                IN  /\ script' = [script EXCEPT !.at = "await-frequency", !.turns = 0,
                                                !.register = register]
                    /\ pins' = [pins EXCEPT !.given = register]
                    /\ Quiet
           ELSE Leave("refused")

\* Mutant of SendRun: the readback is not awaited.
SendRun_mutant ==
    /\ At("await-frequency") /\ ~pins.link_fault
    /\ Goto("run")
    /\ pins' = [pins EXCEPT !.control = CONTROL_FORWARD]
    /\ Quiet

SendRun ==
    /\ At("await-frequency") /\ ~pins.link_fault /\ pins.readback = script.register
    /\ Goto("run")
    /\ pins' = [pins EXCEPT !.control = CONTROL_FORWARD]
    /\ Quiet

PollFails == At("run") /\ (pins.link_fault \/ pins.current_fault # 0) /\ Leave("refused")

PollSees ==
    /\ At("run") /\ ~pins.link_fault /\ pins.current_fault = 0
    /\ ~ReportsStopped /\ ~script.saw_running
    /\ script' = [script EXCEPT !.saw_running = TRUE]
    /\ UNCHANGED pins /\ Quiet

\* Mutant of RunEnds: the frequency is cleared and STOP left to close.
RunEnds_mutant ==
    /\ At("run") /\ Rested(RunTurns)
    /\ Goto("await-rest")
    /\ pins' = [pins EXCEPT !.given = 0]
    /\ Quiet

RunEnds ==
    /\ At("run") /\ Rested(RunTurns)
    /\ Goto("await-rest")
    /\ pins' = [pins EXCEPT !.control = CONTROL_STOP]
    /\ Quiet

StopConfirmed ==
    /\ At("await-rest") /\ ~pins.link_fault /\ pins.output_frequency = 0
    /\ script' = [script EXCEPT !.at = "closing", !.turns = 0,
                                !.outcome = IF script.saw_running THEN "done" ELSE "refused"]
    /\ pins' = [pins EXCEPT !.given = 0, !.control = CONTROL_STOP]
    /\ Quiet

Configured == pins.parameters["F004"] = Target /\ pins.parameters["F005"] = Target

\* run_status: the pins are printed.
Report ==
    /\ At("check") /\ script.asked.command = "status"
    /\ Leave("done")

\* Mutant of Preflight: the drive is not asked whether it turns.
Preflight_mutant ==
    /\ At("check") /\ bus.map = "readonly" /\ script.asked.command = "configure-400hz"
    /\ IF pins.current_fault # 0 THEN Leave("refused")
       ELSE IF Configured THEN Leave("done")
       ELSE /\ script' = [script EXCEPT !.at = "closing", !.turns = 0, !.map = "configure"]
            /\ UNCHANGED pins /\ Quiet

\* configure-400hz reads first, and loads the writing map only for a stopped drive that
\* needs it.
Preflight ==
    /\ At("check") /\ bus.map = "readonly" /\ script.asked.command = "configure-400hz"
    /\ IF ~ReportsStopped \/ pins.current_fault # 0 THEN Leave("refused")
       ELSE IF Configured THEN Leave("done")
       ELSE /\ script' = [script EXCEPT !.at = "closing", !.turns = 0, !.map = "configure"]
            /\ UNCHANGED pins /\ Quiet

\* Mutant of Verify: the parameters are not read back.
Verify_mutant ==
    /\ At("check") /\ bus.map = "configure"
    /\ Leave(IF ReportsStopped /\ pins.current_fault = 0 THEN "done" ELSE "refused")

Verify ==
    /\ At("check") /\ bus.map = "configure"
    /\ Leave(IF ReportsStopped /\ pins.current_fault = 0 /\ Configured
             THEN "done" ELSE "refused")

\* close: only the map that can write waits for its STOP to go out.
Close ==
    /\ At("closing")
    /\ bus.map = "live" => Rested(CloseTurns)
    /\ Goto(IF script.outcome = "pending" THEN "load" ELSE "closed")
    /\ bus' = [map |-> "none", next |-> 1]
    /\ UNCHANGED <<pins, drive>>

\* KeyboardInterrupt between two steps of the session.
Interrupt ==
    /\ bus.map # "none" /\ script.at \notin {"closing", "abandoned"}
    /\ Leave("interrupted")

\* A second one, before close has set STOP or in its sleep, is no Exception that close
\* would catch: the script ends, and the session is not closed. It ends with the script or
\* works on with what is on its pins. (hal_session.py is not in the repository.)
InterruptClose ==
    /\ bus.map # "none" /\ script.at # "abandoned"
    /\ script' = [script EXCEPT !.at = "abandoned", !.turns = 0, !.outcome = "interrupted"]
    /\ bus' \in {bus, [map |-> "none", next |-> 1]}
    /\ UNCHANGED <<pins, drive>>

Script ==
    \/ Configure \/ ConfigureFails \/ WaitFails \/ CommunicationSeen \/ Settled
    \/ Decide \/ SendRun \/ PollFails \/ PollSees \/ RunEnds \/ StopConfirmed
    \/ Report \/ Preflight \/ Verify \/ Close \/ Interrupt \/ InterruptClose

-----------------------------------------------------------------------------
(* hm2_modbus *)

MostTurns == Max({RunTurns, CloseTurns} \cup Range(SettleTurns))

\* Mutant of Advance: the list is not started again.
Advance_mutant ==
    /\ bus' = [bus EXCEPT !.next = @ + 1]
    /\ script' = [script EXCEPT !.turns =
                     IF script.at \in {"settle", "run", "closing"} /\ @ < MostTurns
                     THEN @ + 1 ELSE @]

\* The turn passes on, past the initialisation list once it is done, and time passes
\* for a script that sleeps.
Advance ==
    /\ bus' = [bus EXCEPT !.next =
                  IF @ = Len(Entries(bus.map)) THEN Len(InitList(bus.map)) + 1 ELSE @ + 1]
    /\ script' = [script EXCEPT !.turns =
                     IF script.at \in {"settle", "run", "closing"} /\ @ < MostTurns
                     THEN @ + 1 ELSE @]

\* Where the spindle heads with what the registers hold.
Driven(d) == [d EXCEPT !.turning = @ \/ (d.word = CONTROL_FORWARD /\ d.given > 0 /\ d.fault = 0)]

Fetched(entry) ==
    CASE entry = "OutputFrequency" ->
            [pins EXCEPT !.output_frequency = IF drive.turning THEN 1 ELSE 0]
      [] entry = "CurrentFault" -> [pins EXCEPT !.current_fault = drive.fault]
      [] entry = "MainStatus" -> [pins EXCEPT !.in_operation = drive.turning]
      [] entry = "Readback" -> [pins EXCEPT !.readback = drive.given]
      [] OTHER -> [pins EXCEPT !.parameters =
                      [f \in Parameters |-> IF f \in Group(entry) THEN drive.parameters[f]
                                            ELSE @[f]]]

Taken(f) == IF f \in drive.locked THEN drive.parameters[f] ELSE Target

Delivered(entry) ==
    CASE entry = "MainControl" -> Driven([drive EXCEPT !.word = pins.control])
      [] entry = "GivenFrequency" -> Driven([drive EXCEPT !.given = pins.given])
      [] entry = "WriteStop" -> [drive EXCEPT !.word = CONTROL_STOP]
      [] entry = "WriteZero" -> [drive EXCEPT !.given = 0]
      [] entry = "WriteF005" -> [drive EXCEPT !.parameters["F005"] = Taken("F005")]
      [] entry = "WriteF004" -> [drive EXCEPT !.parameters["F004"] = Taken("F004")]
      [] OTHER -> drive

Turn(entry) == bus.map # "none" /\ Entries(bus.map)[bus.next] = entry

Succeed(entry) == Turn(entry) /\ Advance /\ pins' = Fetched(entry) /\ drive' = Delivered(entry)

\* A failed transaction leaves the last values on its pins and raises the fault pin,
\* which is all the script looks at.
Fail(entry) ==
    /\ Turn(entry) /\ entry \in Unreliable
    /\ Advance
    /\ pins' = [pins EXCEPT !.link_fault = TRUE]
    /\ UNCHANGED drive

Transact ==
    \E entry \in UNION {ToSet(Entries(map)) : map \in Maps} : Succeed(entry) \/ Fail(entry)

-----------------------------------------------------------------------------
(* The drive *)

ComeToRest ==
    /\ drive.turning
    /\ drive.word = CONTROL_STOP \/ drive.given = 0 \/ drive.fault # 0
    /\ drive' = [drive EXCEPT !.turning = FALSE]
    /\ UNCHANGED <<script, pins, bus>>

Trip ==
    /\ drive.fault = 0
    /\ drive' \in {[drive EXCEPT !.fault = f] : f \in DriveFaults}
    /\ UNCHANGED <<script, pins, bus>>

-----------------------------------------------------------------------------
(* The specification *)

\* run_finite_test refuses a request above the explicit maximum before it opens anything.
Init ==
    /\ \E asked \in Invocations :
         /\ asked.command = "finite-test" => asked.requested <= asked.maximum
         /\ script = [at |-> "load",
                      map |-> IF asked.command = "finite-test" THEN "live" ELSE "readonly",
                      asked |-> asked, turns |-> 0, register |-> 0, saw_running |-> FALSE,
                      outcome |-> "pending"]
    /\ pins = NewPins
    /\ bus = [map |-> "none", next |-> 1]
    /\ drive \in InitialDrives

Next == Script \/ Transact \/ ComeToRest \/ Trip

Spec == Init /\ [][Next]_controlVars

-----------------------------------------------------------------------------
(* Properties *)

Places == {"load", "await-communication", "settle", "await-zero", "await-frequency", "run",
           "await-rest", "check", "closing", "closed", "abandoned"}

Outcomes == {"pending", "done", "refused", "interrupted"}
Turns == 0 .. MostTurns
Registers == 0 .. 65535

Scripts == [at : Places, map : Maps, asked : Invocations, turns : Turns, register : Registers,
            saw_running : BOOLEAN, outcome : Outcomes]
PinValues == [control : Words, given : Nat, link_fault : BOOLEAN, readback : Nat,
              output_frequency : {0, 1}, in_operation : BOOLEAN, current_fault : Nat,
              parameters : [Parameters -> Nat]]
Buses == [map : Maps \cup {"none"}, next : Nat]

TypeOK ==
    /\ script \in Scripts /\ pins \in PinValues /\ bus \in Buses /\ drive \in Drives
    /\ bus.map # "none" => bus.next \in DOMAIN Entries(bus.map)

\* The drive is told to run only from rest, with communication control selected, and with
\* the register already holding exactly the frequency asked for, in the unit F169 selects,
\* within the explicit maximum and F005 (README.md, "hold STOP, write 0201H, wait until
\* 0201H reads back exactly, then apply"; "match explicit frequency ... limits").
RunDelivered ==
    LET p == drive.parameters
    IN  /\ ~drive.turning
        /\ p["F001"] = 2 /\ p["F002"] = 2 /\ p["F024"] = 1 /\ p["F169"] \in {0, 1}
        /\ drive.given * UnitsOf(p["F169"]) = script.asked.requested
        /\ script.asked.requested <= script.asked.maximum
        /\ script.asked.maximum <= 100 * p["F005"]
RunOnlyVerified ==
    [][drive.word = CONTROL_STOP /\ drive'.word = CONTROL_FORWARD => RunDelivered]_controlVars

\* "STOP CONFIRMED" is true of the drive, not only of the pin, once the run has lasted a
\* round of the list: it rests, and nothing but a trip keeps it from turning again unless
\* it holds STOP.
StopConfirmedTrue ==
    [][StopConfirmed => ~drive.turning /\ (drive.word = CONTROL_STOP \/ drive.fault # 0)]_controlVars

\* F004 and F005 are written only to a drive that has been told STOP and is at rest, and
\* F004 never exceeds F005 on the way (h100-configure-400hz.mbccs: "Raise the limiting
\* value first so F004 cannot exceed F005").
ConfiguredAtRest ==
    [][drive'.parameters # drive.parameters =>
         /\ drive.word = CONTROL_STOP /\ ~drive.turning
         /\ drive'.parameters["F004"] <= drive'.parameters["F005"]]_controlVars

\* configure-400hz succeeds only if the drive holds both values.
ConfigurationVerified ==
    script.asked.command = "configure-400hz" /\ script.outcome = "done" =>
        drive.parameters["F004"] = Target /\ drive.parameters["F005"] = Target

\* Once the finite test is over the drive has been told STOP, however it ended (the help
\* text: "run one explicit forward-frequency test then stop"). The sleep of close is
\* shorter than a round of the list, so that a STOP set only there may never be sent.
FiniteTestEndsStopped == At("closed") => drive.word = CONTROL_STOP
=============================================================================

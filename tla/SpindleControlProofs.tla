------------------------- MODULE SpindleControlProofs -------------------------
(***************************************************************************)
(* Proofs about spindle_control.py --live: the three command lists, the    *)
(* type invariant, and what each step does to the fields of the script,    *)
(* the pins, the bus and the drive. SpindleControlSafetyProofs rests on    *)
(* the lemmas of the last part.                                            *)
(***************************************************************************)
EXTENDS SpindleControl, TLAPS

\* The list of the live map: no initialisation, thirteen commands.
LEMMA LiveList ==
    /\ DOMAIN Entries("live") = 1 .. 13 /\ Len(Entries("live")) = 13
    /\ InitList("live") = <<>> /\ Len(InitList("live")) = 0
    /\ Entries("live") =
         <<"F001", "F004", "F014", "F011", "F024", "F163", "F169", "OutputFrequency",
           "CurrentFault", "MainStatus", "Readback", "MainControl", "GivenFrequency">>
<1>1. InitList("live") = <<>> BY DEF InitList
<1>2. CommandList("live") =
         <<"F001", "F004", "F014", "F011", "F024", "F163", "F169", "OutputFrequency",
           "CurrentFault", "MainStatus", "Readback", "MainControl", "GivenFrequency">>
    BY DEF CommandList, LiveCommands, ReadonlyCommands, ConfigureCommands
<1>3. Entries("live") = CommandList("live") BY <1>1, <1>2 DEF Entries
<1>. QED BY <1>1, <1>2, <1>3

\* As LiveList, for the map that only reads.
LEMMA ReadonlyList ==
    /\ DOMAIN Entries("readonly") = 1 .. 10 /\ Len(Entries("readonly")) = 10
    /\ Len(InitList("readonly")) = 0
    /\ Entries("readonly") =
            <<"OutputFrequency", "CurrentFault", "F001", "F004", "F014", "F011", "F024",
              "F163", "F169", "MainStatus">>
<1>1. InitList("readonly") = <<>> BY DEF InitList
<1>2. CommandList("readonly") =
            <<"OutputFrequency", "CurrentFault", "F001", "F004", "F014", "F011", "F024",
              "F163", "F169", "MainStatus">>
    BY DEF CommandList, LiveCommands, ReadonlyCommands, ConfigureCommands
<1>3. Entries("readonly") = CommandList("readonly") BY <1>1, <1>2 DEF Entries
<1>. QED BY <1>1, <1>2, <1>3

\* The writing map sends its initialisation list once and then reads.
LEMMA Joined ==
    ASSUME NEW list,
           list = <<"WriteStop", "WriteZero", "WriteF005", "WriteF004">> \o
                  <<"OutputFrequency", "CurrentFault", "F001", "F004", "F014", "F011", "F024",
                    "F140", "F163", "F169", "MainStatus">>
    PROVE  /\ DOMAIN list = 1 .. 15 /\ Len(list) = 15
           /\ list[1] = "WriteStop" /\ list[2] = "WriteZero" /\ list[3] = "WriteF005"
           /\ list[4] = "WriteF004" /\ list[5] = "OutputFrequency" /\ list[6] = "CurrentFault"
           /\ list[7] = "F001" /\ list[8] = "F004" /\ list[9] = "F014" /\ list[10] = "F011"
           /\ list[11] = "F024" /\ list[12] = "F140" /\ list[13] = "F163" /\ list[14] = "F169"
           /\ list[15] = "MainStatus"
OBVIOUS

\* As LiveList, for the map that writes: the round begins at the fifth entry.
LEMMA ConfigureList ==
    LET list == Entries("configure")
    IN  /\ DOMAIN list = 1 .. 15 /\ Len(list) = 15
        /\ Len(InitList("configure")) = 4
        /\ list[1] = "WriteStop" /\ list[2] = "WriteZero" /\ list[3] = "WriteF005"
        /\ list[4] = "WriteF004" /\ list[5] = "OutputFrequency" /\ list[6] = "CurrentFault"
        /\ list[7] = "F001" /\ list[8] = "F004" /\ list[9] = "F014" /\ list[10] = "F011"
        /\ list[11] = "F024" /\ list[12] = "F140" /\ list[13] = "F163" /\ list[14] = "F169"
        /\ list[15] = "MainStatus"
<1>1. InitList("configure") = <<"WriteStop", "WriteZero", "WriteF005", "WriteF004">>
    BY DEF InitList
<1>2. CommandList("configure") =
        <<"OutputFrequency", "CurrentFault", "F001", "F004", "F014", "F011", "F024",
          "F140", "F163", "F169", "MainStatus">>
    BY DEF CommandList, LiveCommands, ReadonlyCommands, ConfigureCommands
<1>3. Len(InitList("configure")) = 4 BY <1>1
<1>4. Entries("configure") =
        <<"WriteStop", "WriteZero", "WriteF005", "WriteF004">> \o
        <<"OutputFrequency", "CurrentFault", "F001", "F004", "F014", "F011", "F024",
          "F140", "F163", "F169", "MainStatus">>
    BY <1>1, <1>2, Zenon DEF Entries
<1>. QED BY <1>3, <1>4, Joined, Zenon

\* A greatest of two, and of one more.
LEMMA Greater ==
    ASSUME NEW S, S \subseteq Nat, NEW m \in S, \A n \in S : m >= n, NEW a \in Nat
    PROVE  \E k \in S \cup {a} : \A n \in S \cup {a} : k >= n
<1>1. CASE m >= a BY <1>1
<1>2. CASE a >= m
  <2>1. \A n \in S : a >= n BY <1>2
  <2>. QED BY <2>1
<1>. QED BY <1>1, <1>2

\* The longest sleep, at which the count of turns stops, is a number.
LEMMA MostTurnsNat == MostTurns \in Nat
<1>. DEFINE S == {RunTurns, CloseTurns} \cup Range(SettleTurns)
<1>1. Range(SettleTurns) =
         {SettleTurns["live"], SettleTurns["readonly"], SettleTurns["configure"]}
    BY TurnsAssumption DEF Range, Maps
<1>2. S \subseteq Nat BY <1>1, TurnsAssumption DEF Maps
<1>3. \E m \in S : \A n \in S : m >= n
  <2>. DEFINE Most(T) == \E m \in T : \A n \in T : m >= n
  <2>. DEFINE One == {RunTurns} \cup {CloseTurns}
  <2>. DEFINE Two == One \cup {SettleTurns["live"]}
  <2>. DEFINE Three == Two \cup {SettleTurns["readonly"]}
  <2>0. /\ RunTurns \in Nat /\ CloseTurns \in Nat /\ SettleTurns["live"] \in Nat
        /\ SettleTurns["readonly"] \in Nat /\ SettleTurns["configure"] \in Nat
      BY TurnsAssumption DEF Maps
  <2>1. Most(One)
    <3>1. Most({RunTurns}) BY <2>0
    <3>. QED BY <2>0, <3>1, Greater
  <2>2. Most(Two)
    <3>. HIDE DEF One
    <3>1. One \subseteq Nat BY <2>0 DEF One
    <3>. QED BY <2>0, <2>1, <3>1, Greater
  <2>3. Most(Three)
    <3>. HIDE DEF Two
    <3>1. Two \subseteq Nat BY <2>0 DEF Two
    <3>. QED BY <2>0, <2>2, <3>1, Greater
  <2>4. Most(Three \cup {SettleTurns["configure"]})
    <3>. HIDE DEF Three
    <3>1. Three \subseteq Nat BY <2>0 DEF Three
    <3>. QED BY <2>0, <2>3, <3>1, Greater
  <2>5. Three \cup {SettleTurns["configure"]} = S BY <1>1
  <2>. HIDE DEF S, Three
  <2>. QED BY <2>4, <2>5
<1>. HIDE DEF S
<1>4. Max(S) \in S BY <1>3 DEF Max
<1>5. MostTurns = Max(S) BY DEF MostTurns, S
<1>. QED BY <1>2, <1>4, <1>5

-----------------------------------------------------------------------------

\* What the record sets of TypeOK come to.
LEMMA ScriptFields ==
    \A s : s \in Scripts <=>
             /\ s = [at |-> s.at, map |-> s.map, asked |-> s.asked, turns |-> s.turns,
                     register |-> s.register, saw_running |-> s.saw_running,
                     outcome |-> s.outcome]
             /\ s.at \in Places /\ s.map \in Maps /\ s.asked \in Invocations
             /\ s.turns \in Turns /\ s.register \in Registers
             /\ s.saw_running \in BOOLEAN /\ s.outcome \in Outcomes
BY DEF Scripts

\* As ScriptFields, for the pins.
LEMMA PinFields ==
    \A p : p \in PinValues <=>
             /\ p = [control |-> p.control, given |-> p.given, link_fault |-> p.link_fault,
                     readback |-> p.readback, output_frequency |-> p.output_frequency,
                     in_operation |-> p.in_operation, current_fault |-> p.current_fault,
                     parameters |-> p.parameters]
             /\ p.control \in Words /\ p.given \in Nat /\ p.link_fault \in BOOLEAN
             /\ p.readback \in Nat /\ p.output_frequency \in {0, 1}
             /\ p.in_operation \in BOOLEAN /\ p.current_fault \in Nat
             /\ p.parameters \in [Parameters -> Nat]
BY DEF PinValues

\* As ScriptFields, for the drive.
LEMMA DriveFields ==
    \A d : d \in Drives <=>
             /\ d = [word |-> d.word, given |-> d.given, turning |-> d.turning,
                     fault |-> d.fault, parameters |-> d.parameters, locked |-> d.locked]
             /\ d.word \in Words /\ d.given \in Nat /\ d.turning \in BOOLEAN /\ d.fault \in Nat
             /\ d.parameters \in [Parameters -> Nat] /\ d.locked \subseteq {"F004", "F005"}
BY DEF Drives

\* Configure and Close leave the bus at the head of its list.
LEMMA Heads == \A map \in Maps : 1 \in DOMAIN Entries(map)
BY LiveList, ReadonlyList, ConfigureList DEF Maps

\* What a turn does to the bus, map by map.
NextOf(map, n) ==
    CASE map = "live" -> IF n = 13 THEN 1 ELSE n + 1
      [] map = "readonly" -> IF n = 10 THEN 1 ELSE n + 1
      [] map = "configure" -> IF n = 15 THEN 5 ELSE n + 1

\* A turn keeps its place within the list, and the count of turns within MostTurns.
LEMMA Advanced ==
    ASSUME TypeOK, bus.map # "none", Advance
    PROVE  /\ bus' = [map |-> bus.map, next |-> NextOf(bus.map, bus.next)]
           /\ bus'.next \in DOMAIN Entries(bus.map)
           /\ script' \in Scripts
           /\ \E t \in {script.turns, script.turns + 1} : script' = [script EXCEPT !.turns = t]
<1>1. /\ bus \in Buses /\ bus.map \in Maps /\ bus.next \in DOMAIN Entries(bus.map)
      /\ script \in Scripts
    BY DEF TypeOK, Buses
<1>2. bus = [map |-> bus.map, next |-> bus.next] /\ bus.next \in Nat BY <1>1 DEF Buses
<1>. DEFINE following == IF bus.next = Len(Entries(bus.map)) THEN Len(InitList(bus.map)) + 1
                         ELSE bus.next + 1
<1>3. bus' = [bus EXCEPT !.next = following] BY DEF Advance
<1>4. following = NextOf(bus.map, bus.next) /\ following \in DOMAIN Entries(bus.map)
  <2>0. bus.next \in DOMAIN Entries(bus.map) BY <1>1
  <2>1. CASE bus.map = "live"
    <3>1. /\ DOMAIN Entries(bus.map) = 1 .. 13 /\ Len(Entries(bus.map)) = 13
          /\ Len(InitList(bus.map)) = 0
        BY <2>1, LiveList, Zenon
    <3>2. NextOf(bus.map, bus.next) = IF bus.next = 13 THEN 1 ELSE bus.next + 1
        BY <2>1 DEF NextOf
    <3>3. bus.next \in 1 .. 13 BY <2>0, <3>1, Zenon
    <3>4. following = IF bus.next = 13 THEN 1 ELSE bus.next + 1 BY <3>1
    <3>. HIDE DEF following
    <3>5. following \in 1 .. 13 BY <3>3, <3>4
    <3>6. following = NextOf(bus.map, bus.next) BY <3>2, <3>4, Zenon
    <3>. QED BY <3>1, <3>5, <3>6, Zenon
  <2>2. CASE bus.map = "readonly"
    <3>1. /\ DOMAIN Entries(bus.map) = 1 .. 10 /\ Len(Entries(bus.map)) = 10
          /\ Len(InitList(bus.map)) = 0
        BY <2>2, ReadonlyList, Zenon
    <3>2. NextOf(bus.map, bus.next) = IF bus.next = 10 THEN 1 ELSE bus.next + 1
        BY <2>2 DEF NextOf
    <3>3. bus.next \in 1 .. 10 BY <2>0, <3>1, Zenon
    <3>4. following = IF bus.next = 10 THEN 1 ELSE bus.next + 1 BY <3>1
    <3>. HIDE DEF following
    <3>5. following \in 1 .. 10 BY <3>3, <3>4
    <3>6. following = NextOf(bus.map, bus.next) BY <3>2, <3>4, Zenon
    <3>. QED BY <3>1, <3>5, <3>6, Zenon
  <2>3. CASE bus.map = "configure"
    <3>1. /\ DOMAIN Entries(bus.map) = 1 .. 15 /\ Len(Entries(bus.map)) = 15
          /\ Len(InitList(bus.map)) = 4
        BY <2>3, ConfigureList, Zenon
    <3>2. NextOf(bus.map, bus.next) = IF bus.next = 15 THEN 5 ELSE bus.next + 1
        BY <2>3 DEF NextOf
    <3>3. bus.next \in 1 .. 15 BY <2>0, <3>1, Zenon
    <3>4. following = IF bus.next = 15 THEN 5 ELSE bus.next + 1 BY <3>1
    <3>. HIDE DEF following
    <3>5. following \in 1 .. 15 BY <3>3, <3>4
    <3>6. following = NextOf(bus.map, bus.next) BY <3>2, <3>4, Zenon
    <3>. QED BY <3>1, <3>5, <3>6, Zenon
  <2>. QED BY <1>1, <2>1, <2>2, <2>3 DEF Maps
<1>. HIDE DEF following
<1>5. bus' = [map |-> bus.map, next |-> following]
    BY <1>2, <1>3
<1>6. script' = [script EXCEPT !.turns =
                   IF script.at \in {"settle", "run", "closing"} /\ script.turns < MostTurns
                   THEN script.turns + 1 ELSE script.turns]
    BY DEF Advance
<1>7. PICK t \in {script.turns, script.turns + 1} :
        script' = [script EXCEPT !.turns = t] /\ t \in Turns
  <2>1. script.turns \in Turns BY <1>1, ScriptFields
  <2>2. CASE script.at \in {"settle", "run", "closing"} /\ script.turns < MostTurns
    <3>1. script.turns + 1 \in Turns BY <2>1, <2>2, MostTurnsNat DEF Turns
    <3>. QED BY <1>6, <2>2, <3>1
  <2>3. CASE ~(script.at \in {"settle", "run", "closing"} /\ script.turns < MostTurns)
      BY <1>6, <2>1, <2>3, Zenon
  <2>. QED BY <2>2, <2>3
<1>8. script' \in Scripts BY <1>1, <1>7, ScriptFields
<1>. QED BY <1>4, <1>5, <1>7, <1>8

\* What a transaction brings, and what it delivers, field by field.
LEMMA FetchedFields ==
    ASSUME TypeOK, NEW entry, pins' = Fetched(entry)
    PROVE  /\ pins' \in PinValues
           /\ pins'.control = pins.control /\ pins'.given = pins.given
           /\ pins'.link_fault = pins.link_fault
           /\ pins'.readback = IF entry = "Readback" THEN drive.given ELSE pins.readback
           /\ pins'.output_frequency = IF entry = "OutputFrequency"
                                       THEN IF drive.turning THEN 1 ELSE 0
                                       ELSE pins.output_frequency
           /\ \A f \in Parameters : pins'.parameters[f] \in {pins.parameters[f], drive.parameters[f]}
           /\ entry \notin {"F163", "F169"} =>
                /\ pins'.parameters["F163"] = pins.parameters["F163"]
                /\ pins'.parameters["F169"] = pins.parameters["F169"]
           /\ entry = "F163" => pins'.parameters["F169"] = pins.parameters["F169"]
           /\ entry = "F169" => pins'.parameters["F169"] = drive.parameters["F169"]
           /\ entry \in {"WriteF005", "WriteF004", "WriteStop", "WriteZero"} =>
                pins'.parameters = pins.parameters
<1>1. pins \in PinValues /\ drive \in Drives BY DEF TypeOK
<1>2. CASE entry = "OutputFrequency" BY <1>1, <1>2 DEF Fetched, PinValues, Drives
<1>3. CASE entry = "CurrentFault" BY <1>1, <1>3 DEF Fetched, PinValues, Drives
<1>4. CASE entry = "MainStatus" BY <1>1, <1>4 DEF Fetched, PinValues, Drives
<1>5. CASE entry = "Readback" BY <1>1, <1>5 DEF Fetched, PinValues, Drives
<1>6. CASE entry \notin {"OutputFrequency", "CurrentFault", "MainStatus", "Readback"}
  <2>1. pins' = [pins EXCEPT !.parameters =
                   [f \in Parameters |-> IF f \in Group(entry) THEN drive.parameters[f] ELSE @[f]]]
      BY <1>6 DEF Fetched
  <2>2. /\ pins' \in PinValues
        /\ pins'.control = pins.control /\ pins'.given = pins.given
        /\ pins'.link_fault = pins.link_fault /\ pins'.readback = pins.readback
        /\ pins'.output_frequency = pins.output_frequency
        /\ pins'.parameters = [f \in Parameters |-> IF f \in Group(entry) THEN drive.parameters[f]
                                                    ELSE pins.parameters[f]]
      BY <1>1, <2>1 DEF PinValues, Drives
  <2>3. "F163" \in Parameters /\ "F169" \in Parameters BY DEF Parameters
  <2>4. /\ "F163" \in Group(entry) => entry = "F163"
        /\ "F169" \in Group(entry) => entry = "F169"
        /\ "F169" \in Group("F169")
      BY DEF Group
  <2>5. ASSUME entry \in {"WriteF005", "WriteF004", "WriteStop", "WriteZero"}
        PROVE  pins'.parameters = pins.parameters
    <3>1. Group(entry) \cap Parameters = {} BY <2>5 DEF Group, Parameters
    <3>. QED BY <1>1, <2>2, <3>1 DEF PinValues
  <2>. QED BY <1>6, <2>2, <2>3, <2>4, <2>5
<1>. QED BY <1>2, <1>3, <1>4, <1>5, <1>6

\* What a transaction delivers: one register or one parameter of the drive, at most.
LEMMA DeliveredFields ==
    ASSUME TypeOK, NEW entry, drive' = Delivered(entry)
    PROVE  /\ drive' \in Drives
           /\ drive'.fault = drive.fault /\ drive'.locked = drive.locked
           /\ drive'.word = IF entry = "MainControl" THEN pins.control
                            ELSE IF entry = "WriteStop" THEN CONTROL_STOP ELSE drive.word
           /\ drive'.given = IF entry = "GivenFrequency" THEN pins.given
                             ELSE IF entry = "WriteZero" THEN 0 ELSE drive.given
           /\ drive'.turning <=>
                \/ drive.turning
                \/ /\ entry \in {"MainControl", "GivenFrequency"}
                   /\ drive'.word = CONTROL_FORWARD /\ drive'.given > 0 /\ drive'.fault = 0
           /\ drive'.parameters =
                [drive.parameters EXCEPT
                    !["F005"] = IF entry = "WriteF005" /\ "F005" \notin drive.locked THEN Target ELSE @,
                    !["F004"] = IF entry = "WriteF004" /\ "F004" \notin drive.locked THEN Target ELSE @]
<1>1. pins \in PinValues /\ drive \in Drives BY DEF TypeOK
<1>. DEFINE written == [drive.parameters EXCEPT
                    !["F005"] = IF entry = "WriteF005" /\ "F005" \notin drive.locked THEN Target ELSE @,
                    !["F004"] = IF entry = "WriteF004" /\ "F004" \notin drive.locked THEN Target ELSE @]
<1>2. entry \notin {"WriteF005", "WriteF004"} => written = drive.parameters
    BY <1>1 DEF Drives
<1>. HIDE DEF written
<1>3. CASE entry = "MainControl"
    BY <1>1, <1>2, <1>3 DEF Delivered, Driven, PinValues, Drives, Words, CONTROL_STOP, CONTROL_FORWARD
<1>4. CASE entry = "GivenFrequency"
    BY <1>1, <1>2, <1>4 DEF Delivered, Driven, PinValues, Drives, Words, CONTROL_STOP, CONTROL_FORWARD
<1>5. CASE entry = "WriteStop"
    BY <1>1, <1>2, <1>5 DEF Delivered, PinValues, Drives, Words, CONTROL_STOP, CONTROL_FORWARD
<1>6. CASE entry = "WriteZero" BY <1>1, <1>2, <1>6 DEF Delivered, Drives
<1>7. CASE entry \in {"WriteF005", "WriteF004"}
  <2>1. drive' = [drive EXCEPT !.parameters = written]
    <3>1. drive.parameters \in [Parameters -> Nat] BY <1>1 DEF Drives
    <3>2. CASE entry = "WriteF005"
      <4>1. [drive.parameters EXCEPT !["F005"] = Taken("F005")] = written
          BY <3>1, <3>2 DEF written, Taken, Parameters, Target
      <4>2. drive' = [drive EXCEPT !.parameters =
                        [drive.parameters EXCEPT !["F005"] = Taken("F005")]]
          BY <1>1, <3>1, <3>2 DEF Delivered, Drives, Parameters
      <4>. QED BY <4>1, <4>2
    <3>3. CASE entry = "WriteF004"
      <4>1. [drive.parameters EXCEPT !["F004"] = Taken("F004")] = written
          BY <3>1, <3>3 DEF written, Taken, Parameters, Target
      <4>2. drive' = [drive EXCEPT !.parameters =
                        [drive.parameters EXCEPT !["F004"] = Taken("F004")]]
          BY <1>1, <3>1, <3>3 DEF Delivered, Drives, Parameters
      <4>. QED BY <4>1, <4>2
    <3>. QED BY <1>7, <3>2, <3>3
  <2>2. written \in [Parameters -> Nat]
    <3>1. drive.parameters \in [Parameters -> Nat] BY <1>1 DEF Drives
    <3>2. Target \in Nat BY DEF Target
    <3>. QED BY <3>1, <3>2 DEF written
  <2>3. drive = [word |-> drive.word, given |-> drive.given, turning |-> drive.turning,
                 fault |-> drive.fault, parameters |-> drive.parameters, locked |-> drive.locked]
      BY <1>1 DEF Drives
  <2>4. drive' = [word |-> drive.word, given |-> drive.given, turning |-> drive.turning,
                 fault |-> drive.fault, parameters |-> written, locked |-> drive.locked]
      BY <2>1, <2>3
  <2>5. drive' \in Drives BY <1>1, <2>2, <2>4 DEF Drives
  <2>6. /\ drive'.word = drive.word /\ drive'.given = drive.given
        /\ drive'.turning = drive.turning /\ drive'.fault = drive.fault
        /\ drive'.parameters = written /\ drive'.locked = drive.locked
      BY <2>4
  <2>7. /\ entry # "MainControl" /\ entry # "GivenFrequency" /\ entry # "WriteStop"
        /\ entry # "WriteZero"
      BY <1>7
  <2>. QED BY <2>5, <2>6, <2>7 DEF written
<1>8. CASE entry \notin {"MainControl", "GivenFrequency", "WriteStop", "WriteZero", "WriteF005",
                         "WriteF004"}
    BY <1>1, <1>2, <1>8 DEF Delivered, Drives
<1>. QED BY <1>3, <1>4, <1>5, <1>6, <1>7, <1>8, Zenon DEF written

-----------------------------------------------------------------------------
(* The type invariant *)

\* A sleep begins at a count that is one of its turns.
LEMMA ZeroTurn == 0 \in Turns
BY MostTurnsNat DEF Turns

\* The pins of a freshly loaded hm2_modbus are well typed.
LEMMA NewPinsType == NewPins \in PinValues
<1>. DEFINE zeros == [f \in Parameters |-> 0]
<1>1. zeros \in [Parameters -> Nat] OBVIOUS
<1>. HIDE DEF zeros
<1>2. NewPins = [control |-> CONTROL_STOP, given |-> 0, link_fault |-> FALSE, readback |-> 0,
                 output_frequency |-> 0, in_operation |-> FALSE, current_fault |-> 0,
                 parameters |-> zeros]
    BY DEF NewPins, zeros
<1>3. CONTROL_STOP \in Words BY DEF Words
<1>. QED BY <1>1, <1>2, <1>3 DEF PinValues

\* A step of the script that leaves the bus and the drive alone has its record and the pins to keep.
LEMMA Unmoved ==
    ASSUME TypeOK, script' \in Scripts, pins' \in PinValues, UNCHANGED <<bus, drive>>
    PROVE  TypeOK'
BY DEF TypeOK

\* Goto keeps the type of the script.
LEMMA GotoType ==
    ASSUME TypeOK, NEW place \in Places, Goto(place)
    PROVE  script' \in Scripts
BY ZeroTurn DEF TypeOK, Goto, Scripts

\* Leave keeps the types, whatever the outcome.
LEMMA LeaveType ==
    ASSUME TypeOK, NEW outcome \in Outcomes, Leave(outcome)
    PROVE  TypeOK'
<1>1. script' \in Scripts
  <2>1. script' = [script EXCEPT !.at = "closing", !.turns = 0, !.outcome = outcome]
      BY DEF Leave
  <2>2. "closing" \in Places BY DEF Places
  <2>. QED BY <2>1, <2>2, ZeroTurn DEF TypeOK, Scripts
<1>2. pins' \in PinValues
  <2>1. pins' \in {pins, [pins EXCEPT !.control = CONTROL_STOP]} BY DEF Leave
  <2>2. CONTROL_STOP \in Words BY DEF Words
  <2>. QED BY <2>1, <2>2 DEF TypeOK, PinValues
<1>. QED BY <1>1, <1>2, Unmoved DEF Leave, Quiet

\* The script begins well typed.
LEMMA TypeInit == Init => TypeOK
<1>. SUFFICES ASSUME Init PROVE TypeOK OBVIOUS
<1>1. script \in Scripts
  <2>1. PICK asked \in Invocations :
          script = [at |-> "load",
                    map |-> IF asked.command = "finite-test" THEN "live" ELSE "readonly",
                    asked |-> asked, turns |-> 0, register |-> 0, saw_running |-> FALSE,
                    outcome |-> "pending"]
      BY DEF Init
  <2>2. "load" \in Places /\ "live" \in Maps /\ "readonly" \in Maps /\ "pending" \in Outcomes
        /\ 0 \in Registers
      BY DEF Places, Maps, Outcomes, Registers
  <2>. QED BY <2>1, <2>2, ZeroTurn DEF Scripts
<1>2. pins \in PinValues BY NewPinsType DEF Init
<1>3. bus \in Buses /\ bus.map = "none" BY DEF Init, Buses
<1>. QED BY <1>1, <1>2, <1>3, InitialDrivesAssumption DEF Init, TypeOK

\* encode_frequency_hz of what it raises nothing for is a register, and nothing is lost.
LEMMA EncodedExactly ==
    ASSUME NEW frequency \in Nat, NEW f169, Encodable(frequency, f169)
    PROVE  LET register == encode_frequency_hz(frequency, f169)
           IN  /\ register \in Nat /\ register \in Registers
               /\ register * UnitsOf(f169) = frequency
               /\ frequency > 0 => register > 0
<1>1. CASE f169 = 0
  <2>1. UnitsOf(f169) = 100 BY <1>1 DEF UnitsOf
  <2>2. frequency % 100 = 0 /\ frequency \div 100 <= 65535 BY <2>1 DEF Encodable
  <2>3. encode_frequency_hz(frequency, f169) = frequency \div 100
      BY <2>1 DEF encode_frequency_hz
  <2>4. frequency \div 100 \in Nat /\ (frequency \div 100) * 100 = frequency BY <2>2
  <2>. QED BY <2>1, <2>2, <2>3, <2>4 DEF Registers
<1>2. CASE f169 = 1
  <2>1. UnitsOf(f169) = 10 BY <1>2 DEF UnitsOf
  <2>2. frequency % 10 = 0 /\ frequency \div 10 <= 65535 BY <2>1 DEF Encodable
  <2>3. encode_frequency_hz(frequency, f169) = frequency \div 10
      BY <2>1 DEF encode_frequency_hz
  <2>4. frequency \div 10 \in Nat /\ (frequency \div 10) * 10 = frequency BY <2>2
  <2>. QED BY <2>1, <2>2, <2>3, <2>4 DEF Registers
<1>. QED BY <1>1, <1>2 DEF Encodable

\* The steps of the script keep the types.
LEMMA TypeScript ==
    ASSUME TypeOK, Script
    PROVE  TypeOK'
<1>0. /\ script \in Scripts /\ pins \in PinValues /\ bus \in Buses /\ drive \in Drives
    BY DEF TypeOK
<1>1. Places = {"load", "await-communication", "settle", "await-zero", "await-frequency", "run",
                "await-rest", "check", "closing", "closed", "abandoned"}
      /\ Outcomes = {"pending", "done", "refused", "interrupted"}
    BY DEF Places, Outcomes
<1>2. CASE Configure
  <2>1. script' \in Scripts BY <1>1, <1>2, GotoType DEF Configure
  <2>2. pins' \in PinValues BY <1>2, NewPinsType DEF Configure
  <2>3. bus' = [map |-> script.map, next |-> 1] /\ drive' = drive BY <1>2 DEF Configure
  <2>4. script.map \in Maps BY <1>0 DEF Scripts
  <2>5. bus' \in Buses BY <2>3, <2>4 DEF Buses
  <2>. QED BY <1>0, <2>1, <2>2, <2>3, <2>4, <2>5, Heads DEF TypeOK
<1>3. CASE ConfigureFails
  <2>1. script' = [script EXCEPT !.at = "closed", !.outcome = "refused"]
      BY <1>3 DEF ConfigureFails
  <2>2. script' \in Scripts BY <1>0, <1>1, <2>1 DEF Scripts
  <2>. QED BY <1>0, <1>3, <2>2, Unmoved DEF ConfigureFails
<1>4. CASE WaitFails BY <1>1, <1>4, LeaveType DEF WaitFails
<1>5. CASE CommunicationSeen
  <2>1. script' \in Scripts BY <1>1, <1>5, GotoType DEF CommunicationSeen
  <2>. QED BY <1>0, <1>5, <2>1, Unmoved DEF CommunicationSeen, Quiet
<1>6. CASE Settled
  <2>1. CASE Leave("refused") BY <1>1, <2>1, LeaveType
  <2>2. CASE Goto("await-zero") /\ UNCHANGED pins /\ Quiet
    <3>1. script' \in Scripts BY <1>1, <2>2, GotoType
    <3>. QED BY <1>0, <2>2, <3>1, Unmoved DEF Quiet
  <2>3. CASE Goto("check") /\ UNCHANGED pins /\ Quiet
    <3>1. script' \in Scripts BY <1>1, <2>3, GotoType
    <3>. QED BY <1>0, <2>3, <3>1, Unmoved DEF Quiet
  <2>. QED BY <1>6, <2>1, <2>2, <2>3 DEF Settled
<1>7. CASE Decide
  <2>1. CASE Leave("refused") BY <1>1, <2>1, LeaveType
  <2>. DEFINE register == encode_frequency_hz(script.asked.requested, pins.parameters["F169"])
  <2>2. CASE /\ Encodable(script.asked.requested, pins.parameters["F169"])
             /\ script' = [script EXCEPT !.at = "await-frequency", !.turns = 0,
                                         !.register = register]
             /\ pins' = [pins EXCEPT !.given = register]
             /\ Quiet
    <3>1. script.asked.requested \in Nat
      <4>1. script.asked \in Invocation BY <1>0, InvocationsAssumption DEF Scripts
      <4>. QED BY <4>1 DEF Invocation
    <3>2. register \in Registers BY <2>2, <3>1, EncodedExactly
    <3>3. register \in Nat BY <2>2, <3>1, EncodedExactly
    <3>. HIDE DEF register
    <3>4. script' \in Scripts BY <1>0, <1>1, <2>2, <3>2, ZeroTurn DEF Scripts
    <3>5. pins' \in PinValues BY <1>0, <2>2, <3>3 DEF PinValues
    <3>. QED BY <2>2, <3>4, <3>5, Unmoved DEF Quiet
  <2>. QED BY <1>7, <2>1, <2>2 DEF Decide
<1>8. CASE SendRun
  <2>1. script' \in Scripts BY <1>1, <1>8, GotoType DEF SendRun
  <2>2. pins' = [pins EXCEPT !.control = CONTROL_FORWARD] BY <1>8 DEF SendRun
  <2>3. CONTROL_FORWARD \in Words BY DEF Words
  <2>4. pins' \in PinValues BY <1>0, <2>2, <2>3 DEF PinValues
  <2>. QED BY <1>8, <2>1, <2>4, Unmoved DEF SendRun, Quiet
<1>9. CASE PollFails BY <1>1, <1>9, LeaveType DEF PollFails
<1>10. CASE PollSees
  <2>1. script' = [script EXCEPT !.saw_running = TRUE] BY <1>10 DEF PollSees
  <2>2. script' \in Scripts BY <1>0, <2>1 DEF Scripts
  <2>. QED BY <1>0, <1>10, <2>2, Unmoved DEF PollSees, Quiet
<1>11. CASE RunEnds
  <2>1. script' \in Scripts BY <1>1, <1>11, GotoType DEF RunEnds
  <2>2. pins' = [pins EXCEPT !.control = CONTROL_STOP] BY <1>11 DEF RunEnds
  <2>3. CONTROL_STOP \in Words BY DEF Words
  <2>4. pins' \in PinValues BY <1>0, <2>2, <2>3 DEF PinValues
  <2>. QED BY <1>11, <2>1, <2>4, Unmoved DEF RunEnds, Quiet
<1>12. CASE StopConfirmed
  <2>1. script' \in Scripts
    <3>1. PICK outcome \in Outcomes :
            script' = [script EXCEPT !.at = "closing", !.turns = 0, !.outcome = outcome]
        BY <1>1, <1>12 DEF StopConfirmed
    <3>. QED BY <1>0, <1>1, <3>1, ZeroTurn DEF Scripts
  <2>2. pins' = [pins EXCEPT !.given = 0, !.control = CONTROL_STOP] BY <1>12 DEF StopConfirmed
  <2>3. CONTROL_STOP \in Words BY DEF Words
  <2>4. pins' \in PinValues BY <1>0, <2>2, <2>3 DEF PinValues
  <2>. QED BY <1>12, <2>1, <2>4, Unmoved DEF StopConfirmed, Quiet
<1>13. CASE Report BY <1>1, <1>13, LeaveType DEF Report
<1>14. CASE Preflight
  <2>1. CASE \E outcome \in Outcomes : Leave(outcome) BY <2>1, LeaveType
  <2>2. CASE /\ script' = [script EXCEPT !.at = "closing", !.turns = 0, !.map = "configure"]
             /\ UNCHANGED pins /\ Quiet
    <3>1. "configure" \in Maps BY DEF Maps
    <3>2. script' \in Scripts BY <1>0, <1>1, <2>2, <3>1, ZeroTurn DEF Scripts
    <3>. QED BY <1>0, <2>2, <3>2, Unmoved DEF Quiet
  <2>. QED BY <1>1, <1>14, <2>1, <2>2 DEF Preflight
<1>15. CASE Verify
  <2>1. \E outcome \in Outcomes : Leave(outcome) BY <1>1, <1>15 DEF Verify
  <2>. QED BY <2>1, LeaveType
<1>16. CASE Close
  <2>1. "load" \in Places /\ "closed" \in Places BY <1>1
  <2>2. script' \in Scripts BY <1>16, <2>1, GotoType DEF Close
  <2>3. bus' = [map |-> "none", next |-> 1] /\ pins' = pins /\ drive' = drive
      BY <1>16 DEF Close
  <2>4. bus' \in Buses /\ bus'.map = "none" BY <2>3 DEF Buses
  <2>. QED BY <1>0, <2>2, <2>3, <2>4 DEF TypeOK
<1>17. CASE Interrupt BY <1>1, <1>17, LeaveType DEF Interrupt
<1>18. CASE InterruptClose
  <2>1. script' = [script EXCEPT !.at = "abandoned", !.turns = 0, !.outcome = "interrupted"]
      BY <1>18 DEF InterruptClose
  <2>2. script' \in Scripts BY <1>0, <1>1, <2>1, ZeroTurn DEF Scripts
  <2>3. bus' \in {bus, [map |-> "none", next |-> 1]} /\ pins' = pins /\ drive' = drive
      BY <1>18 DEF InterruptClose
  <2>4. CASE bus' = bus BY <1>0, <2>2, <2>3, <2>4, Unmoved
  <2>5. CASE bus' = [map |-> "none", next |-> 1]
    <3>1. bus' \in Buses /\ bus'.map = "none" BY <2>5 DEF Buses
    <3>. QED BY <1>0, <2>2, <2>3, <3>1 DEF TypeOK
  <2>. QED BY <2>3, <2>4, <2>5
<1>. QED BY <1>2, <1>3, <1>4, <1>5, <1>6, <1>7, <1>8, <1>9, <1>10, <1>11, <1>12, <1>13, <1>14,
            <1>15, <1>16, <1>17, <1>18 DEF Script

\* So do all the others.
LEMMA TypeNext ==
    ASSUME TypeOK, [Next]_controlVars
    PROVE  TypeOK'
<1>0. /\ script \in Scripts /\ pins \in PinValues /\ bus \in Buses /\ drive \in Drives
    BY DEF TypeOK
<1>1. CASE Script BY <1>1, TypeScript
<1>2. ASSUME NEW entry, Succeed(entry) PROVE TypeOK'
  <2>1. bus.map # "none" /\ Advance /\ pins' = Fetched(entry) /\ drive' = Delivered(entry)
      BY <1>2 DEF Succeed, Turn
  <2>2. pins' \in PinValues BY <2>1, FetchedFields
  <2>3. drive' \in Drives BY <2>1, DeliveredFields
  <2>4. script' \in Scripts /\ bus'.next \in DOMAIN Entries(bus.map)
        /\ bus' = [map |-> bus.map, next |-> NextOf(bus.map, bus.next)]
      BY <2>1, Advanced
  <2>5. bus' \in Buses /\ bus'.map = bus.map
    <3>1. bus'.next \in Nat
        BY SMTT(40), <1>0, <2>1, <2>4, LiveList, ReadonlyList, ConfigureList DEF Buses, Maps
    <3>. QED BY <1>0, <2>4, <3>1 DEF Buses
  <2>. QED BY <2>2, <2>3, <2>4, <2>5 DEF TypeOK
<1>3. ASSUME NEW entry, Fail(entry) PROVE TypeOK'
  <2>1. bus.map # "none" /\ Advance /\ pins' = [pins EXCEPT !.link_fault = TRUE]
        /\ drive' = drive
      BY <1>3 DEF Fail, Turn
  <2>2. pins' \in PinValues BY <1>0, <2>1 DEF PinValues
  <2>4. script' \in Scripts /\ bus'.next \in DOMAIN Entries(bus.map)
        /\ bus' = [map |-> bus.map, next |-> NextOf(bus.map, bus.next)]
      BY <2>1, Advanced
  <2>5. bus' \in Buses /\ bus'.map = bus.map
    <3>1. bus'.next \in Nat
        BY <1>0, <2>1, <2>4, LiveList, ReadonlyList, ConfigureList DEF Buses, Maps
    <3>. QED BY <1>0, <2>4, <3>1 DEF Buses
  <2>. QED BY <1>0, <2>1, <2>2, <2>4, <2>5 DEF TypeOK
<1>4. CASE ComeToRest
  <2>1. drive' = [drive EXCEPT !.turning = FALSE] /\ UNCHANGED <<script, pins, bus>>
      BY <1>4 DEF ComeToRest
  <2>2. drive' \in Drives BY <1>0, <2>1 DEF Drives
  <2>. QED BY <2>1, <2>2 DEF TypeOK
<1>5. CASE Trip
  <2>1. PICK f \in DriveFaults : drive' = [drive EXCEPT !.fault = f]
      BY <1>5 DEF Trip
  <2>2. f \in Nat BY DriveFaultsAssumption
  <2>3. drive' \in Drives BY <1>0, <2>1, <2>2 DEF Drives
  <2>. QED BY <1>5, <2>3 DEF TypeOK, Trip
<1>6. CASE UNCHANGED controlVars BY <1>6 DEF controlVars, TypeOK
<1>. QED BY <1>1, <1>2, <1>3, <1>4, <1>5, <1>6 DEF Next, Transact

\* Every state is well typed: no list is worked past its end, no count of turns grows past
\* the longest sleep, whatever is asked, however long the sleeps are and whatever fails.
THEOREM SpecTypeOK == Spec => []TypeOK
<1>. QED BY TypeInit, TypeNext, PTL DEF Spec

-----------------------------------------------------------------------------
(* What a step does, field by field: the records above are opened here and nowhere else *)

\* saw_running and in_operation decide nothing below.
ScriptIs(at, turns, map, register, outcome) ==
    /\ script'.at = at /\ script'.turns = turns /\ script'.map = map
    /\ script'.register = register /\ script'.outcome = outcome
    /\ script'.asked = script.asked

PinsAre(control, given) ==
    /\ pins'.control = control /\ pins'.given = given
    /\ pins'.link_fault = pins.link_fault /\ pins'.readback = pins.readback
    /\ pins'.output_frequency = pins.output_frequency /\ pins'.parameters = pins.parameters

\* Goto moves the script and starts its count of turns again.
LEMMA GotoFields ==
    ASSUME TypeOK, NEW place, Goto(place)
    PROVE  ScriptIs(place, 0, script.map, script.register, script.outcome)
BY DEF TypeOK, Scripts, Goto, ScriptIs

\* Leave puts STOP on the pin of the live map and of no other.
LEMMA LeaveFields ==
    ASSUME TypeOK, NEW outcome, Leave(outcome)
    PROVE  /\ ScriptIs("closing", 0, script.map, script.register, outcome)
           /\ PinsAre(IF bus.map = "live" THEN CONTROL_STOP ELSE pins.control, pins.given)
           /\ bus' = bus /\ drive' = drive
<1>1. ScriptIs("closing", 0, script.map, script.register, outcome)
    BY DEF TypeOK, Scripts, Leave, ScriptIs
<1>2. CASE bus.map = "live"
  <2>1. pins' = [pins EXCEPT !.control = CONTROL_STOP] BY <1>2 DEF Leave
  <2>2. PinsAre(CONTROL_STOP, pins.given) BY <2>1 DEF TypeOK, PinValues, PinsAre
  <2>. QED BY <1>1, <1>2, <2>2 DEF Leave, Quiet
<1>3. CASE bus.map # "live" BY <1>1, <1>3 DEF Leave, Quiet, PinsAre
<1>. QED BY <1>2, <1>3

\* Configure starts the list of the map the script is to load, with every parameter unread.
LEMMA ConfigureFields ==
    ASSUME TypeOK, Configure
    PROVE  /\ script.at = "load"
           /\ ScriptIs("await-communication", 0, script.map, script.register, script.outcome)
           /\ pins'.control = CONTROL_STOP /\ pins'.given = 0 /\ ~pins'.link_fault
           /\ \A f \in Parameters : pins'.parameters[f] = 0
           /\ bus'.map = script.map /\ bus'.next = 1 /\ drive' = drive
<1>1. pins' = NewPins /\ bus' = [map |-> script.map, next |-> 1] BY DEF Configure
<1>2. pins'.control = CONTROL_STOP /\ pins'.given = 0 /\ ~pins'.link_fault
      /\ pins'.parameters = [f \in Parameters |-> 0]
    BY <1>1 DEF NewPins
<1>3. \A f \in Parameters : pins'.parameters[f] = 0 BY <1>2
<1>4. bus'.map = script.map /\ bus'.next = 1 BY <1>1
<1>5. ScriptIs("await-communication", 0, script.map, script.register, script.outcome)
    BY GotoFields DEF Configure
<1>. QED BY <1>2, <1>3, <1>4, <1>5, Zenon DEF Configure, At

\* A session that cannot be configured is refused and touches nothing.
LEMMA ConfigureFailsFields ==
    ASSUME TypeOK, ConfigureFails
    PROVE  /\ script.at = "load"
           /\ ScriptIs("closed", script.turns, script.map, script.register, "refused")
           /\ pins' = pins /\ bus' = bus /\ drive' = drive
BY DEF TypeOK, Scripts, ConfigureFails, At, ScriptIs

\* Decide refuses, or puts the register of a permitted frequency on the pin.
LEMMA DecideFields ==
    ASSUME TypeOK, Decide
    PROVE  \/ Leave("refused")
           \/ LET f169 == pins.parameters["F169"]
                  register == encode_frequency_hz(script.asked.requested, f169)
              IN  /\ script.at = "await-zero" /\ ~pins.link_fault /\ pins.readback = 0
                  /\ run_permitted(script.asked) /\ Encodable(script.asked.requested, f169)
                  /\ pins.output_frequency = 0
                  /\ ScriptIs("await-frequency", 0, script.map, register, script.outcome)
                  /\ PinsAre(pins.control, register)
                  /\ bus' = bus /\ drive' = drive
<1>. DEFINE register == encode_frequency_hz(script.asked.requested, pins.parameters["F169"])
<1>1. CASE /\ script' = [script EXCEPT !.at = "await-frequency", !.turns = 0,
                                       !.register = register]
           /\ pins' = [pins EXCEPT !.given = register]
  <2>. HIDE DEF register
  <2>1. ScriptIs("await-frequency", 0, script.map, register, script.outcome)
      BY <1>1 DEF TypeOK, Scripts, ScriptIs
  <2>2. PinsAre(pins.control, register) BY <1>1 DEF TypeOK, PinValues, PinsAre
  <2>3. \/ Leave("refused")
        \/ /\ run_permitted(script.asked)
           /\ Encodable(script.asked.requested, pins.parameters["F169"])
           /\ ReportsStopped /\ Quiet
      BY Zenon DEF Decide
  <2>. QED BY <2>1, <2>2, <2>3 DEF Decide, At, Quiet, ReportsStopped, register
<1>. QED BY <1>1, Zenon DEF Decide

\* SendRun puts RUN on the pin and leaves the frequency there.
LEMMA SendRunFields ==
    ASSUME TypeOK, SendRun
    PROVE  /\ script.at = "await-frequency" /\ ~pins.link_fault
           /\ pins.readback = script.register
           /\ ScriptIs("run", 0, script.map, script.register, script.outcome)
           /\ PinsAre(CONTROL_FORWARD, pins.given) /\ bus' = bus /\ drive' = drive
<1>1. pins' = [pins EXCEPT !.control = CONTROL_FORWARD] BY DEF SendRun
<1>2. PinsAre(CONTROL_FORWARD, pins.given) BY <1>1 DEF TypeOK, PinValues, PinsAre
<1>. QED BY <1>2, GotoFields DEF SendRun, At, Quiet

\* PollSees moves nothing but saw_running.
LEMMA PollSeesFields ==
    ASSUME TypeOK, PollSees
    PROVE  /\ ScriptIs(script.at, script.turns, script.map, script.register, script.outcome)
           /\ pins' = pins /\ bus' = bus /\ drive' = drive
BY DEF TypeOK, Scripts, PollSees, ScriptIs, Quiet

\* RunEnds puts STOP on the pin once RunTurns have gone by.
LEMMA RunEndsFields ==
    ASSUME TypeOK, RunEnds
    PROVE  /\ script.at = "run" /\ script.turns >= RunTurns
           /\ ScriptIs("await-rest", 0, script.map, script.register, script.outcome)
           /\ PinsAre(CONTROL_STOP, pins.given) /\ bus' = bus /\ drive' = drive
<1>1. pins' = [pins EXCEPT !.control = CONTROL_STOP] BY DEF RunEnds
<1>2. PinsAre(CONTROL_STOP, pins.given) BY <1>1 DEF TypeOK, PinValues, PinsAre
<1>. QED BY <1>2, GotoFields DEF RunEnds, At, Rested, Quiet

\* StopConfirmed clears both pins.
LEMMA StopConfirmedFields ==
    ASSUME TypeOK, StopConfirmed
    PROVE  /\ script.at = "await-rest" /\ ~pins.link_fault /\ pins.output_frequency = 0
           /\ \E outcome \in {"done", "refused"} :
                ScriptIs("closing", 0, script.map, script.register, outcome)
           /\ PinsAre(CONTROL_STOP, 0) /\ bus' = bus /\ drive' = drive
<1>1. pins' = [pins EXCEPT !.given = 0, !.control = CONTROL_STOP] BY DEF StopConfirmed
<1>2. PinsAre(CONTROL_STOP, 0) BY <1>1 DEF TypeOK, PinValues, PinsAre
<1>3. PICK outcome \in {"done", "refused"} :
        script' = [script EXCEPT !.at = "closing", !.turns = 0, !.outcome = outcome]
    BY DEF StopConfirmed
<1>4. ScriptIs("closing", 0, script.map, script.register, outcome)
    BY <1>3 DEF TypeOK, Scripts, ScriptIs
<1>. QED BY <1>2, <1>4 DEF StopConfirmed, At, Quiet

\* Preflight refuses, finds the drive configured, or goes on to the writing map.
LEMMA PreflightFields ==
    ASSUME TypeOK, Preflight
    PROVE  /\ script.at = "check" /\ bus.map = "readonly"
           /\ script.asked.command = "configure-400hz"
           /\ \/ Leave("refused")
              \/ Leave("done") /\ Configured
              \/ /\ pins.output_frequency = 0
                 /\ ScriptIs("closing", 0, "configure", script.register, script.outcome)
                 /\ pins' = pins /\ bus' = bus /\ drive' = drive
<1>1. CASE script' = [script EXCEPT !.at = "closing", !.turns = 0, !.map = "configure"]
  <2>1. ScriptIs("closing", 0, "configure", script.register, script.outcome)
      BY <1>1 DEF TypeOK, Scripts, ScriptIs
  <2>. QED BY <2>1 DEF Preflight, At, Quiet, ReportsStopped
<1>. QED BY <1>1 DEF Preflight, At

\* Close unloads the map; a session that decided nothing yet loads another.
LEMMA CloseFields ==
    ASSUME TypeOK, Close
    PROVE  /\ script.at = "closing"
           /\ ScriptIs(IF script.outcome = "pending" THEN "load" ELSE "closed", 0, script.map,
                       script.register, script.outcome)
           /\ bus'.map = "none" /\ bus'.next = 1 /\ pins' = pins /\ drive' = drive
<1>1. bus' = [map |-> "none", next |-> 1] BY DEF Close
<1>. QED BY <1>1, GotoFields DEF Close, At

\* A second interrupt leaves the session as it is, or lets it end.
LEMMA InterruptCloseFields ==
    ASSUME TypeOK, InterruptClose
    PROVE  /\ bus.map # "none" /\ script.at # "abandoned"
           /\ ScriptIs("abandoned", 0, script.map, script.register, "interrupted")
           /\ bus' = bus \/ (bus'.map = "none" /\ bus'.next = 1)
           /\ pins' = pins /\ drive' = drive
<1>1. bus' = bus \/ bus' = [map |-> "none", next |-> 1] BY DEF InterruptClose
<1>2. ScriptIs("abandoned", 0, script.map, script.register, "interrupted")
    BY DEF TypeOK, Scripts, InterruptClose, ScriptIs
<1>. QED BY <1>1, <1>2 DEF InterruptClose

\* A turn of hm2_modbus, whether its transaction succeeds or not.
LEMMA AdvanceFields ==
    ASSUME TypeOK, bus.map # "none", Advance
    PROVE  /\ \E t \in {script.turns, script.turns + 1} :
                 ScriptIs(script.at, t, script.map, script.register, script.outcome)
           /\ bus'.map = bus.map /\ bus'.next = NextOf(bus.map, bus.next)
<1>1. PICK t \in {script.turns, script.turns + 1} : script' = [script EXCEPT !.turns = t]
    BY Advanced
<1>2. ScriptIs(script.at, t, script.map, script.register, script.outcome)
    BY <1>1 DEF TypeOK, Scripts, ScriptIs
<1>. QED BY <1>2, Advanced

\* A transaction that fails raises the fault pin and changes nothing else.
LEMMA FailFields ==
    ASSUME TypeOK, NEW entry, Fail(entry)
    PROVE  /\ pins'.control = pins.control /\ pins'.given = pins.given /\ pins'.link_fault
           /\ pins'.readback = pins.readback /\ pins'.parameters = pins.parameters
           /\ pins'.output_frequency = pins.output_frequency
           /\ drive' = drive
<1>1. pins' = [pins EXCEPT !.link_fault = TRUE] BY DEF Fail
<1>. QED BY <1>1 DEF TypeOK, PinValues, Fail

\* Coming to rest changes only turning, under a condition that lets go of the spindle.
LEMMA ComeToRestFields ==
    ASSUME TypeOK, ComeToRest
    PROVE  /\ ~drive'.turning /\ drive'.word = drive.word /\ drive'.given = drive.given
           /\ drive'.fault = drive.fault /\ drive'.locked = drive.locked
           /\ drive'.parameters = drive.parameters
           /\ drive.word = CONTROL_STOP \/ drive.given = 0 \/ drive.fault # 0
           /\ script' = script /\ pins' = pins /\ bus' = bus
<1>1. drive' = [drive EXCEPT !.turning = FALSE] BY DEF ComeToRest
<1>. QED BY <1>1 DEF TypeOK, Drives, ComeToRest

\* A trip changes only the fault.
LEMMA TripFields ==
    ASSUME TypeOK, Trip
    PROVE  /\ drive'.fault # 0 /\ drive'.word = drive.word /\ drive'.given = drive.given
           /\ drive'.turning = drive.turning /\ drive'.locked = drive.locked
           /\ drive'.parameters = drive.parameters
           /\ script' = script /\ pins' = pins /\ bus' = bus
<1>1. PICK f \in DriveFaults : drive' = [drive EXCEPT !.fault = f] BY DEF Trip
<1>2. f # 0 BY DriveFaultsAssumption
<1>. QED BY <1>1, <1>2 DEF TypeOK, Drives, Trip

\* Whose turn it is on each of the maps.
LEMMA LiveTurn ==
    ASSUME TypeOK, bus.map = "live", NEW entry, Turn(entry)
    PROVE  /\ bus.next \in 1 .. 13
           /\ NextOf(bus.map, bus.next) = IF bus.next = 13 THEN 1 ELSE bus.next + 1
           /\ entry = "F163" <=> bus.next = 6
           /\ entry = "F169" <=> bus.next = 7
           /\ entry = "OutputFrequency" <=> bus.next = 8
           /\ entry = "MainControl" <=> bus.next = 12
           /\ entry = "GivenFrequency" <=> bus.next = 13
           /\ entry \notin {"WriteStop", "WriteZero", "WriteF005", "WriteF004"}
<1>1. bus.next \in 1 .. 13 BY LiveList, Zenon DEF TypeOK
<1>2. NextOf(bus.map, bus.next) = IF bus.next = 13 THEN 1 ELSE bus.next + 1 BY DEF NextOf
<1>3. entry = <<"F001", "F004", "F014", "F011", "F024", "F163", "F169", "OutputFrequency",
                "CurrentFault", "MainStatus", "Readback", "MainControl",
                "GivenFrequency">>[bus.next]
    BY LiveList DEF Turn
<1>. QED BY <1>1, <1>2, <1>3

\* As LiveTurn: the map that only reads neither writes nor commands.
LEMMA ReadonlyTurn ==
    ASSUME TypeOK, bus.map = "readonly", NEW entry, Turn(entry)
    PROVE  /\ bus.next \in 1 .. 10
           /\ NextOf(bus.map, bus.next) = IF bus.next = 10 THEN 1 ELSE bus.next + 1
           /\ entry = "OutputFrequency" <=> bus.next = 1
           /\ entry \notin {"WriteStop", "WriteZero", "WriteF005", "WriteF004", "MainControl",
                            "GivenFrequency"}
<1>1. bus.next \in 1 .. 10 BY ReadonlyList, Zenon DEF TypeOK
<1>2. NextOf(bus.map, bus.next) = IF bus.next = 10 THEN 1 ELSE bus.next + 1 BY DEF NextOf
<1>3. entry = <<"OutputFrequency", "CurrentFault", "F001", "F004", "F014", "F011", "F024",
                "F163", "F169", "MainStatus">>[bus.next]
    BY ReadonlyList DEF Turn
<1>. QED BY <1>1, <1>2, <1>3

\* As LiveTurn: the writing map writes at its first four entries only.
LEMMA ConfigureTurn ==
    ASSUME TypeOK, bus.map = "configure", NEW entry, Turn(entry)
    PROVE  /\ bus.next \in 1 .. 15
           /\ NextOf(bus.map, bus.next) = IF bus.next = 15 THEN 5 ELSE bus.next + 1
           /\ entry = "WriteStop" <=> bus.next = 1
           /\ entry = "WriteZero" <=> bus.next = 2
           /\ entry = "WriteF005" <=> bus.next = 3
           /\ entry = "WriteF004" <=> bus.next = 4
           /\ entry \notin {"MainControl", "GivenFrequency"}
<1>1. bus.next \in 1 .. 15 BY ConfigureList, Zenon DEF TypeOK
<1>2. NextOf(bus.map, bus.next) = IF bus.next = 15 THEN 5 ELSE bus.next + 1 BY DEF NextOf
<1>3. entry = Entries("configure")[bus.next] BY DEF Turn
<1>4. CASE bus.next \in 1 .. 8 BY <1>2, <1>3, <1>4, ConfigureList
<1>5. CASE bus.next \in 9 .. 15 BY <1>2, <1>3, <1>5, ConfigureList
<1>. QED BY <1>1, <1>4, <1>5
===============================================================================

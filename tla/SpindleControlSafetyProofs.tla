---------------------- MODULE SpindleControlSafetyProofs ----------------------
(***************************************************************************)
(* Proofs of what spindle_control.py --live promises of the drive: what it *)
(* reports of a written parameter, what is known before RUN is delivered,  *)
(* what STOP CONFIRMED means, and in which state F004 and F005 are         *)
(* written.                                                                *)
(***************************************************************************)
EXTENDS SpindleControlProofs

InSession == {"await-communication", "settle", "check", "await-zero", "await-frequency", "run",
              "await-rest"}

\* Which map is loaded, or will be, follows from where the script is and what it was asked.
Session ==
    /\ script.map = "live" <=> script.asked.command = "finite-test"
    /\ script.at \in InSession => bus.map = script.map
    /\ script.at \in {"await-zero", "await-frequency", "run", "await-rest"} => bus.map = "live"
    /\ script.at = "check" => bus.map # "live"
    /\ script.at \in {"load", "closed"} => bus.map = "none"
    /\ bus.map = "live" => script.map = "live"
    /\ bus.map = "configure" => script.map = "configure"
    /\ script.outcome # "pending" => script.at \in {"closing", "closed", "abandoned"}
    /\ script.outcome = "done" => script.at \in {"closing", "closed"}

\* A parameter pin holds what the drive holds, or has not been read in this session; and
\* nothing has been read while the initialisation list is being sent.
ReadBack ==
    /\ bus.map # "none" =>
         \A f \in Parameters : pins.parameters[f] = 0 \/ pins.parameters[f] = drive.parameters[f]
    /\ bus.map = "configure" /\ bus.next <= 4 => \A f \in Parameters : pins.parameters[f] = 0

\* What the writing found when it read back stays: the list of writes is behind it.
Done ==
    script.asked.command = "configure-400hz" /\ script.outcome = "done" =>
        /\ drive.parameters["F004"] = Target /\ drive.parameters["F005"] = Target
        /\ bus.map = "configure" => bus.next > 4

\* A turn writes parameters on the configuring map only, from its initialisation list.
LEMMA TurnParameters ==
    ASSUME TypeOK, NEW entry, Succeed(entry)
    PROVE  /\ bus.map # "configure" \/ bus.next > 4 => drive'.parameters = drive.parameters
           /\ bus.map = "configure" /\ bus.next <= 4 => pins'.parameters = pins.parameters
           /\ \A f \in Parameters :
                pins'.parameters[f] \in {pins.parameters[f], drive.parameters[f]}
           /\ bus'.map = bus.map
           /\ bus.map = "configure" /\ bus'.next <= 4 => bus.next <= 4
           /\ bus.map = "configure" => bus.next \in Nat /\ bus'.next \in Nat
<1>1. /\ bus.map # "none" /\ Advance /\ Turn(entry)
      /\ pins' = Fetched(entry) /\ drive' = Delivered(entry)
    BY DEF Succeed, Turn
<1>2. bus.map \in Maps BY <1>1 DEF TypeOK, Buses
<1>3. entry \notin {"WriteF005", "WriteF004"} => drive'.parameters = drive.parameters
  <2>1. drive'.parameters =
          [drive.parameters EXCEPT
              !["F005"] = IF entry = "WriteF005" /\ "F005" \notin drive.locked THEN Target ELSE @,
              !["F004"] = IF entry = "WriteF004" /\ "F004" \notin drive.locked THEN Target ELSE @]
      BY <1>1, DeliveredFields
  <2>2. drive.parameters \in [Parameters -> Nat] BY DEF TypeOK, Drives
  <2>. QED BY <2>1, <2>2
<1>4. /\ \A f \in Parameters : pins'.parameters[f] \in {pins.parameters[f], drive.parameters[f]}
      /\ entry \in {"WriteF005", "WriteF004", "WriteStop", "WriteZero"} =>
           pins'.parameters = pins.parameters
    BY <1>1, FetchedFields
<1>5. bus'.map = bus.map /\ bus'.next = NextOf(bus.map, bus.next) BY <1>1, AdvanceFields
<1>6. CASE bus.map = "live" BY <1>1, <1>3, <1>4, <1>5, <1>6, LiveTurn
<1>7. CASE bus.map = "readonly" BY <1>1, <1>3, <1>4, <1>5, <1>7, ReadonlyTurn
<1>8. CASE bus.map = "configure"
  <2>1. /\ bus.next \in 1 .. 15 /\ bus'.next = IF bus.next = 15 THEN 5 ELSE bus.next + 1
        /\ entry = "WriteStop" <=> bus.next = 1
        /\ entry = "WriteZero" <=> bus.next = 2
        /\ entry = "WriteF005" <=> bus.next = 3
        /\ entry = "WriteF004" <=> bus.next = 4
      BY <1>1, <1>5, <1>8, ConfigureTurn
  <2>. QED BY <1>3, <1>4, <1>5, <1>8, <2>1
<1>. QED BY <1>2, <1>6, <1>7, <1>8 DEF Maps

\* A turn that fails passes on as one that succeeds.
LEMMA FailTurn ==
    ASSUME TypeOK, NEW entry, Fail(entry)
    PROVE  /\ bus'.map = bus.map
           /\ bus.map = "configure" /\ bus'.next <= 4 => bus.next <= 4
           /\ bus.map = "configure" => bus.next \in Nat /\ bus'.next \in Nat
<1>1. bus.map # "none" /\ Advance /\ Turn(entry) BY DEF Fail, Turn
<1>2. bus'.map = bus.map /\ bus'.next = NextOf(bus.map, bus.next) BY <1>1, AdvanceFields
<1>3. CASE bus.map = "configure"
  <2>1. bus.next \in 1 .. 15 /\ bus'.next = IF bus.next = 15 THEN 5 ELSE bus.next + 1
      BY <1>1, <1>2, <1>3, ConfigureTurn
  <2>. QED BY <1>2, <2>1
<1>. QED BY <1>2, <1>3

SessionInv == TypeOK /\ Session /\ ReadBack /\ Done

\* SessionInv holds before the first session.
LEMMA SessionInit == Init => SessionInv
<1>. SUFFICES ASSUME Init PROVE SessionInv OBVIOUS
<1>1. TypeOK BY TypeInit
<1>2. PICK asked \in Invocations :
        script = [at |-> "load",
                  map |-> IF asked.command = "finite-test" THEN "live" ELSE "readonly",
                  asked |-> asked, turns |-> 0, register |-> 0, saw_running |-> FALSE,
                  outcome |-> "pending"]
    BY DEF Init
<1>3. bus.map = "none" BY DEF Init
<1>4. /\ script.at = "load" /\ script.outcome = "pending"
      /\ script.map = "live" <=> script.asked.command = "finite-test"
    BY <1>2
<1>. QED BY <1>1, <1>3, <1>4 DEF SessionInv, Session, ReadBack, Done, InSession

\* The steps of the script keep Session.
LEMMA SessionScript ==
    ASSUME TypeOK, Session, Script
    PROVE  Session'
<1>1. CASE Configure BY <1>1, ConfigureFields DEF Session, InSession, ScriptIs
<1>2. CASE ConfigureFails BY <1>2, ConfigureFailsFields DEF Session, InSession, ScriptIs
<1>3. ASSUME NEW outcome, Leave(outcome), bus.map # "none" \/ script.at # "load" PROVE Session'
    BY <1>3, LeaveFields DEF Session, InSession, ScriptIs
<1>4. CASE WaitFails BY <1>3, <1>4 DEF WaitFails, Waiting
<1>5. CASE CommunicationSeen
  <2>1. ScriptIs("settle", 0, script.map, script.register, script.outcome)
      BY <1>5, GotoFields DEF CommunicationSeen
  <2>. QED BY <1>5, <2>1 DEF CommunicationSeen, At, Quiet, Session, InSession, ScriptIs
<1>6. CASE Settled
  <2>1. CASE Leave("refused") BY <1>3, <1>6, <2>1 DEF Settled, At
  <2>2. CASE Goto(IF bus.map = "live" THEN "await-zero" ELSE "check") /\ Quiet
    <3>1. ScriptIs(IF bus.map = "live" THEN "await-zero" ELSE "check", 0, script.map,
                   script.register, script.outcome)
        BY <2>2, GotoFields
    <3>. QED BY <1>6, <2>2, <3>1 DEF Settled, At, Quiet, Session, InSession, ScriptIs
  <2>. QED BY <1>6, <2>1, <2>2 DEF Settled
<1>7. CASE Decide
  <2>1. CASE Leave("refused") BY <1>3, <1>7, <2>1 DEF Decide, At
  <2>2. CASE ~Leave("refused")
      BY <1>7, <2>2, DecideFields DEF Session, InSession, ScriptIs
  <2>. QED BY <2>1, <2>2
<1>8. CASE SendRun BY <1>8, SendRunFields DEF Session, InSession, ScriptIs
<1>9. CASE PollFails BY <1>3, <1>9 DEF PollFails, At
<1>10. CASE PollSees BY <1>10, PollSeesFields DEF Session, InSession, ScriptIs
<1>11. CASE RunEnds BY <1>11, RunEndsFields DEF Session, InSession, ScriptIs
<1>12. CASE StopConfirmed BY <1>12, StopConfirmedFields DEF Session, InSession, ScriptIs
<1>13. CASE Report BY <1>3, <1>13 DEF Report, At
<1>14. CASE Preflight
  <2>1. ASSUME NEW outcome, Leave(outcome) PROVE Session'
      BY <1>3, <1>14, <2>1 DEF Preflight, At
  <2>2. CASE ~\E outcome : Leave(outcome)
      BY <1>14, <2>2, PreflightFields DEF Session, InSession, ScriptIs
  <2>. QED BY <2>1, <2>2
<1>15. CASE Verify BY <1>3, <1>15 DEF Verify, At
<1>16. CASE Close BY <1>16, CloseFields DEF Session, InSession, ScriptIs
<1>17. CASE Interrupt BY <1>3, <1>17 DEF Interrupt
<1>18. CASE InterruptClose BY <1>18, InterruptCloseFields DEF Session, InSession, ScriptIs
<1>. QED BY <1>1, <1>2, <1>4, <1>5, <1>6, <1>7, <1>8, <1>9, <1>10, <1>11, <1>12, <1>13, <1>14,
            <1>15, <1>16, <1>17, <1>18 DEF Script

\* So do all the others.
LEMMA SessionNext ==
    ASSUME TypeOK, Session, [Next]_controlVars
    PROVE  Session'
<1>1. CASE Script BY <1>1, SessionScript
<1>2. ASSUME bus.map # "none", Advance PROVE Session'
    BY <1>2, AdvanceFields DEF Session, InSession, ScriptIs
<1>3. CASE Transact BY <1>2, <1>3 DEF Transact, Succeed, Fail, Turn
<1>4. CASE ComeToRest BY <1>4, ComeToRestFields DEF Session
<1>5. CASE Trip BY <1>5, TripFields DEF Session
<1>6. CASE UNCHANGED controlVars BY <1>6 DEF controlVars, Session
<1>. QED BY <1>1, <1>3, <1>4, <1>5, <1>6 DEF Next

\* What a step of the script does to what has been read: nothing, or it begins or ends a session.
LEMMA ScriptReads ==
    ASSUME TypeOK, Session, Script
    PROVE  /\ drive' = drive
           /\ \/ bus' = bus /\ pins'.parameters = pins.parameters
              \/ bus'.map = "none"
              \/ /\ script.at = "load" /\ bus.map = "none"
                 /\ bus'.map = script.map /\ bus'.next = 1
                 /\ \A f \in Parameters : pins'.parameters[f] = 0
<1>1. CASE Configure BY <1>1, ConfigureFields DEF Session
<1>2. CASE ConfigureFails BY <1>2, ConfigureFailsFields
<1>3. ASSUME NEW outcome, Leave(outcome)
      PROVE  bus' = bus /\ pins'.parameters = pins.parameters /\ drive' = drive
    BY <1>3, LeaveFields DEF PinsAre
<1>4. CASE WaitFails BY <1>3, <1>4 DEF WaitFails
<1>5. CASE CommunicationSeen BY <1>5 DEF CommunicationSeen, Quiet
<1>6. CASE Settled BY <1>3, <1>6 DEF Settled, Quiet
<1>7. CASE Decide BY <1>3, <1>7, DecideFields DEF PinsAre
<1>8. CASE SendRun BY <1>8, SendRunFields DEF PinsAre
<1>9. CASE PollFails BY <1>3, <1>9 DEF PollFails
<1>10. CASE PollSees BY <1>10, PollSeesFields
<1>11. CASE RunEnds BY <1>11, RunEndsFields DEF PinsAre
<1>12. CASE StopConfirmed BY <1>12, StopConfirmedFields DEF PinsAre
<1>13. CASE Report BY <1>3, <1>13 DEF Report
<1>14. CASE Preflight BY <1>3, <1>14, PreflightFields
<1>15. CASE Verify BY <1>3, <1>15 DEF Verify
<1>16. CASE Close BY <1>16, CloseFields
<1>17. CASE Interrupt BY <1>3, <1>17 DEF Interrupt
<1>18. CASE InterruptClose BY <1>18, InterruptCloseFields
<1>. QED BY <1>1, <1>2, <1>4, <1>5, <1>6, <1>7, <1>8, <1>9, <1>10, <1>11, <1>12, <1>13, <1>14,
            <1>15, <1>16, <1>17, <1>18 DEF Script

\* A parameter pin goes on showing the drive: the writing map reads only after its writes.
LEMMA ReadBackNext ==
    ASSUME TypeOK, Session, ReadBack, [Next]_controlVars
    PROVE  ReadBack'
<1>1. CASE Script BY <1>1, ScriptReads DEF ReadBack
<1>2. ASSUME NEW entry, Succeed(entry) PROVE ReadBack'
  <2>1. bus.map # "none" BY <1>2 DEF Succeed, Turn
  <2>2. CASE bus.map # "configure" BY <1>2, <2>1, <2>2, TurnParameters DEF ReadBack
  <2>3. CASE bus.map = "configure" /\ bus.next <= 4
      BY <1>2, <2>1, <2>3, TurnParameters DEF ReadBack
  <2>4. CASE bus.map = "configure" /\ bus.next > 4
      BY <1>2, <2>1, <2>4, TurnParameters DEF ReadBack
  <2>5. bus.next \in Nat BY DEF TypeOK, Buses
  <2>. QED BY <2>2, <2>3, <2>4, <2>5
<1>3. ASSUME NEW entry, Fail(entry) PROVE ReadBack'
  <2>1. pins'.parameters = pins.parameters /\ drive' = drive BY <1>3, FailFields
  <2>2. bus.next \in Nat BY DEF TypeOK, Buses
  <2>. QED BY <1>3, <2>1, <2>2, FailTurn DEF ReadBack
<1>4. CASE ComeToRest BY <1>4, ComeToRestFields DEF ReadBack
<1>5. CASE Trip BY <1>5, TripFields DEF ReadBack
<1>6. CASE UNCHANGED controlVars BY <1>6 DEF controlVars, ReadBack
<1>. QED BY <1>1, <1>2, <1>3, <1>4, <1>5, <1>6 DEF Next, Transact

\* The outcomes of configure-400hz: done is what the pins of a loaded map confirm.
LEMMA ScriptOutcome ==
    ASSUME TypeOK, Session, Script
    PROVE  /\ script'.asked = script.asked
           /\ /\ script.asked.command = "configure-400hz"
              /\ script'.outcome = "done" /\ script.outcome # "done"
              => Configured /\ bus.map # "none" /\ bus' = bus
<1>1. CASE Configure BY <1>1, ConfigureFields DEF ScriptIs
<1>2. CASE ConfigureFails BY <1>2, ConfigureFailsFields DEF ScriptIs
<1>3. ASSUME NEW outcome, Leave(outcome)
      PROVE  script'.asked = script.asked /\ script'.outcome = outcome /\ bus' = bus
    BY <1>3, LeaveFields DEF ScriptIs
<1>4. CASE WaitFails BY <1>3, <1>4 DEF WaitFails
<1>5. CASE CommunicationSeen
  <2>1. ScriptIs("settle", 0, script.map, script.register, script.outcome)
      BY <1>5, GotoFields DEF CommunicationSeen
  <2>. QED BY <2>1 DEF ScriptIs
<1>6. CASE Settled
  <2>1. CASE Leave("refused") BY <1>3, <2>1
  <2>2. CASE Goto(IF bus.map = "live" THEN "await-zero" ELSE "check")
    <3>1. ScriptIs(IF bus.map = "live" THEN "await-zero" ELSE "check", 0, script.map,
                   script.register, script.outcome)
        BY <2>2, GotoFields
    <3>. QED BY <3>1 DEF ScriptIs
  <2>. QED BY <1>6, <2>1, <2>2 DEF Settled
<1>7. CASE Decide BY <1>3, <1>7, DecideFields DEF ScriptIs
<1>8. CASE SendRun BY <1>8, SendRunFields DEF ScriptIs
<1>9. CASE PollFails BY <1>3, <1>9 DEF PollFails
<1>10. CASE PollSees BY <1>10, PollSeesFields DEF ScriptIs
<1>11. CASE RunEnds BY <1>11, RunEndsFields DEF ScriptIs
<1>12. CASE StopConfirmed
  <2>1. script.asked.command = "finite-test"
      BY <1>12, StopConfirmedFields DEF Session, InSession
  <2>. QED BY <1>12, <2>1, StopConfirmedFields DEF ScriptIs
<1>13. CASE Report BY <1>3, <1>13 DEF Report
<1>14. CASE Preflight
  <2>1. bus.map # "none" BY <1>14, PreflightFields
  <2>2. CASE Leave("refused") BY <1>3, <2>2
  <2>3. CASE Leave("done") /\ Configured BY <1>3, <2>1, <2>3
  <2>4. CASE ScriptIs("closing", 0, "configure", script.register, script.outcome)
      BY <2>4 DEF ScriptIs
  <2>. QED BY <1>14, <2>2, <2>3, <2>4, PreflightFields
<1>15. CASE Verify
  <2>1. bus.map # "none" BY <1>15 DEF Verify
  <2>2. CASE Leave("refused") BY <1>3, <2>2
  <2>3. CASE Leave("done") /\ Configured BY <1>3, <2>1, <2>3
  <2>. QED BY <1>15, <2>2, <2>3 DEF Verify
<1>16. CASE Close BY <1>16, CloseFields DEF ScriptIs
<1>17. CASE Interrupt BY <1>3, <1>17 DEF Interrupt
<1>18. CASE InterruptClose BY <1>18, InterruptCloseFields DEF ScriptIs
<1>. QED BY <1>1, <1>2, <1>4, <1>5, <1>6, <1>7, <1>8, <1>9, <1>10, <1>11, <1>12, <1>13, <1>14,
            <1>15, <1>16, <1>17, <1>18 DEF Script

\* What is done stays done.
LEMMA DoneNext ==
    ASSUME TypeOK, Session, ReadBack, Done, [Next]_controlVars
    PROVE  Done'
<1>0. "F004" \in Parameters /\ "F005" \in Parameters /\ Target # 0 BY DEF Parameters, Target
<1>1. CASE Script
  <2>. SUFFICES ASSUME script.asked.command = "configure-400hz", script'.outcome = "done"
                PROVE  /\ drive.parameters["F004"] = Target /\ drive.parameters["F005"] = Target
                       /\ bus'.map = "configure" => bus'.next > 4
      BY <1>1, ScriptReads, ScriptOutcome DEF Done
  <2>1. CASE script.outcome = "done"
      BY <1>1, <2>1, ScriptReads DEF Done, Session
  <2>2. CASE script.outcome # "done"
    <3>1. Configured /\ bus.map # "none" /\ bus' = bus BY <1>1, <2>2, ScriptOutcome
    <3>2. bus.next \in Nat BY DEF TypeOK, Buses
    <3>. QED BY <1>0, <3>1, <3>2 DEF Configured, ReadBack
  <2>. QED BY <2>1, <2>2
<1>2. ASSUME NEW entry, Succeed(entry) PROVE Done'
  <2>1. bus.map # "none" /\ Advance BY <1>2 DEF Succeed, Turn
  <2>2. script'.asked = script.asked /\ script'.outcome = script.outcome
      BY <2>1, AdvanceFields DEF ScriptIs
  <2>. QED BY <1>2, <2>2, TurnParameters DEF Done
<1>3. ASSUME NEW entry, Fail(entry) PROVE Done'
  <2>1. bus.map # "none" /\ Advance BY <1>3 DEF Fail, Turn
  <2>2. script'.asked = script.asked /\ script'.outcome = script.outcome
      BY <2>1, AdvanceFields DEF ScriptIs
  <2>. QED BY <1>3, <2>2, FailTurn, FailFields DEF Done
<1>4. CASE ComeToRest BY <1>4, ComeToRestFields DEF Done
<1>5. CASE Trip BY <1>5, TripFields DEF Done
<1>6. CASE UNCHANGED controlVars BY <1>6 DEF controlVars, Done
<1>. QED BY <1>1, <1>2, <1>3, <1>4, <1>5, <1>6 DEF Next, Transact

\* SessionInv is inductive.
LEMMA SessionInvariant == Spec => []SessionInv
<1>1. SessionInv /\ [Next]_controlVars => SessionInv'
    BY TypeNext, SessionNext, ReadBackNext, DoneNext DEF SessionInv
<1>. QED BY <1>1, SessionInit, PTL DEF Spec

\* configure-400hz reports success only for a drive that holds both values: a pin shows what
\* the drive holds or still nothing, and what it holds is not written again.
THEOREM SpecConfigurationVerified == Spec => []ConfigurationVerified
<1>1. SessionInv => ConfigurationVerified BY DEF SessionInv, Done, ConfigurationVerified
<1>. QED BY <1>1, SessionInvariant, PTL

-----------------------------------------------------------------------------
(* The run: what has been heard of the drive before it is told to turn *)

\* Something of the drive that its pin does not show yet, or a RUN it still holds.
Unheard ==
    \/ pins.parameters["F169"] # drive.parameters["F169"]
    \/ pins.output_frequency = 0 /\ drive.turning
    \/ drive.word # CONTROL_STOP

\* While the script awaits communication and sleeps, what it has not heard bounds how far the
\* list has been worked; and F163, which it waits for, is read after seven of the thirteen, so
\* that the sleep of ten turns outlasts the rest of the list.
Hearing ==
    bus.map = "live" /\ script.at \in {"await-communication", "settle"} /\ ~pins.link_fault =>
        /\ pins.parameters["F169"] # drive.parameters["F169"] => bus.next <= 7
        /\ pins.output_frequency = 0 /\ drive.turning => bus.next <= 8
        /\ drive.word # CONTROL_STOP => bus.next <= 12
        /\ Unheard /\ pins.parameters["F163"] # 0 => bus.next >= 7
        /\ Unheard /\ script.at = "settle" => script.turns + 7 <= bus.next

\* What decide_forward_command allowed, true of the drive.
Permitted ==
    LET p == drive.parameters
    IN  /\ p["F001"] = 2 /\ p["F002"] = 2 /\ p["F024"] = 1 /\ p["F169"] \in {0, 1}
        /\ script.register > 0
        /\ script.register * UnitsOf(p["F169"]) = script.asked.requested
        /\ script.asked.requested <= script.asked.maximum
        /\ script.asked.maximum <= 100 * p["F005"]

\* At the two waits before RUN the drive holds STOP, and from its pin on it is at rest.
Deciding ==
    /\ script.at \in {"await-zero", "await-frequency"} /\ ~pins.link_fault =>
         drive.word = CONTROL_STOP
    /\ script.at = "await-zero" /\ ~pins.link_fault =>
         /\ pins.parameters["F169"] = drive.parameters["F169"]
         /\ pins.output_frequency = 0 => ~drive.turning
    /\ script.at = "await-frequency" /\ ~pins.link_fault =>
         /\ Permitted /\ ~drive.turning /\ pins.given = script.register
         /\ pins.readback = script.register => drive.given = script.register

\* RUN is on the pin in the run only, and until the drive takes it, at rest, the register
\* holds what was asked for.
Running ==
    /\ pins.control = CONTROL_FORWARD =>
         /\ script.at \in {"run", "abandoned"} /\ bus.map \in {"live", "none"}
         /\ bus.map = "live" =>
              /\ Permitted /\ pins.given = script.register /\ drive.given = script.register
              /\ drive.word = CONTROL_STOP => ~drive.turning
    /\ script.at = "run" => pins.control = CONTROL_FORWARD

\* The steps that lead to a place.
LEMMA ScriptPlaces ==
    ASSUME TypeOK, Session, Script
    PROVE  /\ script'.at = "await-communication" => Configure
           /\ script'.at = "settle" => CommunicationSeen
           /\ script'.at = "await-zero" =>
                /\ script.at = "settle" /\ script.turns >= SettleTurns[bus.map]
                /\ ~pins.link_fault /\ bus.map = "live"
                /\ pins' = pins /\ bus' = bus /\ drive' = drive
           /\ script'.at = "check" =>
                /\ script.at = "settle" /\ script.turns >= SettleTurns[bus.map]
                /\ ~pins.link_fault
                /\ pins' = pins /\ bus' = bus /\ drive' = drive
           /\ script'.at = "await-frequency" => Decide /\ ~Leave("refused")
           /\ script'.at = "run" => SendRun \/ (script.at = "run" /\ PollSees)
           /\ script'.at = "await-rest" => RunEnds
           /\ script.at \in {"run", "abandoned"} =>
                \/ PollSees \/ RunEnds \/ InterruptClose
                \/ script.at = "run" /\ \E outcome : Leave(outcome)
<1>1. CASE Configure BY <1>1, ConfigureFields DEF ScriptIs
<1>2. CASE ConfigureFails BY <1>2, ConfigureFailsFields DEF ScriptIs
<1>3. ASSUME NEW outcome, Leave(outcome) PROVE script'.at = "closing"
    BY <1>3, LeaveFields DEF ScriptIs
<1>4. CASE WaitFails BY <1>3, <1>4 DEF WaitFails, Waiting
<1>5. CASE CommunicationSeen
  <2>1. ScriptIs("settle", 0, script.map, script.register, script.outcome)
      BY <1>5, GotoFields DEF CommunicationSeen
  <2>. QED BY <1>5, <2>1 DEF CommunicationSeen, At, ScriptIs
<1>6. CASE Settled
  <2>1. CASE Leave("refused") BY <1>3, <1>6, <2>1 DEF Settled, At
  <2>2. CASE /\ ~pins.link_fault
             /\ Goto(IF bus.map = "live" THEN "await-zero" ELSE "check")
             /\ UNCHANGED pins /\ Quiet
    <3>1. ScriptIs(IF bus.map = "live" THEN "await-zero" ELSE "check", 0, script.map,
                   script.register, script.outcome)
        BY <2>2, GotoFields
    <3>. QED BY <1>6, <2>2, <3>1 DEF Settled, At, Rested, Quiet, ScriptIs
  <2>. QED BY <1>6, <2>1, <2>2 DEF Settled
<1>7. CASE Decide
  <2>1. CASE Leave("refused") BY <1>3, <1>7, <2>1 DEF Decide, At
  <2>2. CASE ~Leave("refused") BY <1>7, <2>2, DecideFields DEF ScriptIs
  <2>. QED BY <2>1, <2>2
<1>8. CASE SendRun BY <1>8, SendRunFields DEF ScriptIs
<1>9. CASE PollFails BY <1>3, <1>9 DEF PollFails, At
<1>10. CASE PollSees BY <1>10, PollSeesFields DEF ScriptIs, PollSees, At
<1>11. CASE RunEnds BY <1>11, RunEndsFields DEF ScriptIs
<1>12. CASE StopConfirmed BY <1>12, StopConfirmedFields DEF ScriptIs
<1>13. CASE Report BY <1>3, <1>13 DEF Report, At
<1>14. CASE Preflight
  <2>1. script.at = "check" BY <1>14, PreflightFields
  <2>2. script'.at = "closing" BY <1>3, <1>14, PreflightFields DEF ScriptIs
  <2>. QED BY <2>1, <2>2
<1>15. CASE Verify BY <1>3, <1>15 DEF Verify, At
<1>16. CASE Close BY <1>16, CloseFields DEF ScriptIs
<1>17. CASE Interrupt BY <1>3, <1>17 DEF Interrupt
<1>18. CASE InterruptClose BY <1>18, InterruptCloseFields DEF ScriptIs
<1>. QED BY <1>1, <1>2, <1>4, <1>5, <1>6, <1>7, <1>8, <1>9, <1>10, <1>11, <1>12, <1>13, <1>14,
            <1>15, <1>16, <1>17, <1>18 DEF Script

\* The steps that leave RUN on the pin.
LEMMA ScriptForward ==
    ASSUME TypeOK, Session, Script, pins'.control = CONTROL_FORWARD,
           pins.control = CONTROL_FORWARD => script.at \in {"run", "abandoned"}
    PROVE  SendRun \/ (script.at = "run" /\ PollSees) \/ InterruptClose
<1>0. CONTROL_FORWARD # CONTROL_STOP BY DEF CONTROL_FORWARD, CONTROL_STOP
<1>1. CASE pins.control = CONTROL_FORWARD
  <2>1. CASE RunEnds BY <1>0, <2>1, RunEndsFields DEF PinsAre
  <2>2. CASE script.at = "run" /\ \E outcome : Leave(outcome)
      BY <1>0, <2>2, LeaveFields DEF PinsAre, Session
  <2>3. CASE PollSees BY <2>3 DEF PollSees, At
  <2>. QED BY <1>1, <2>1, <2>2, <2>3, ScriptPlaces
<1>2. CASE pins.control # CONTROL_FORWARD
  <2>1. CASE Configure BY <1>0, <2>1, ConfigureFields
  <2>2. CASE ConfigureFails BY <1>2, <2>2, ConfigureFailsFields
  <2>3. ASSUME NEW outcome, Leave(outcome) PROVE FALSE
      BY <1>0, <1>2, <2>3, LeaveFields DEF PinsAre
  <2>4. CASE WaitFails BY <2>3, <2>4 DEF WaitFails
  <2>5. CASE CommunicationSeen BY <1>2, <2>5 DEF CommunicationSeen
  <2>6. CASE Settled BY <1>2, <2>3, <2>6 DEF Settled
  <2>7. CASE Decide BY <1>2, <2>3, <2>7, DecideFields DEF PinsAre
  <2>9. CASE PollFails BY <2>3, <2>9 DEF PollFails
  <2>10. CASE PollSees BY <1>2, <2>10, PollSeesFields
  <2>11. CASE RunEnds BY <1>0, <2>11, RunEndsFields DEF PinsAre
  <2>12. CASE StopConfirmed BY <1>0, <2>12, StopConfirmedFields DEF PinsAre
  <2>13. CASE Report BY <2>3, <2>13 DEF Report
  <2>14. CASE Preflight BY <1>2, <2>3, <2>14, PreflightFields
  <2>15. CASE Verify BY <2>3, <2>15 DEF Verify
  <2>16. CASE Close BY <1>2, <2>16, CloseFields
  <2>17. CASE Interrupt BY <2>3, <2>17 DEF Interrupt
  <2>. QED BY <2>1, <2>2, <2>4, <2>5, <2>6, <2>7, <2>9, <2>10, <2>11, <2>12, <2>13, <2>14, <2>15,
              <2>16, <2>17 DEF Script
<1>. QED BY <1>1, <1>2

\* A transaction on the live map, in the fields the properties speak of.
LEMMA LiveSucceeds ==
    ASSUME TypeOK, bus.map = "live", NEW entry, Succeed(entry)
    PROVE  /\ bus.next \in 1 .. 13
           /\ bus'.map = "live" /\ bus'.next = IF bus.next = 13 THEN 1 ELSE bus.next + 1
           /\ \E t \in {script.turns, script.turns + 1} :
                ScriptIs(script.at, t, script.map, script.register, script.outcome)
           /\ pins'.control = pins.control /\ pins'.given = pins.given
           /\ pins'.link_fault = pins.link_fault
           /\ pins'.readback \in {pins.readback, drive.given}
           /\ pins'.output_frequency = IF bus.next = 8 THEN IF drive.turning THEN 1 ELSE 0
                                       ELSE pins.output_frequency
           /\ pins'.parameters["F169"] = IF bus.next = 7 THEN drive.parameters["F169"]
                                         ELSE pins.parameters["F169"]
           /\ bus.next \notin {6, 7} => pins'.parameters["F163"] = pins.parameters["F163"]
           /\ drive'.fault = drive.fault /\ drive'.parameters = drive.parameters
           /\ drive'.word = IF bus.next = 12 THEN pins.control ELSE drive.word
           /\ drive'.given = IF bus.next = 13 THEN pins.given ELSE drive.given
           /\ drive'.turning <=>
                \/ drive.turning
                \/ /\ bus.next \in {12, 13}
                   /\ drive'.word = CONTROL_FORWARD /\ drive'.given > 0 /\ drive.fault = 0
<1>1. /\ bus.map # "none" /\ Advance /\ Turn(entry)
      /\ pins' = Fetched(entry) /\ drive' = Delivered(entry)
    BY DEF Succeed, Turn
<1>2. /\ bus.next \in 1 .. 13
      /\ NextOf(bus.map, bus.next) = IF bus.next = 13 THEN 1 ELSE bus.next + 1
      /\ entry = "F163" <=> bus.next = 6
      /\ entry = "F169" <=> bus.next = 7
      /\ entry = "OutputFrequency" <=> bus.next = 8
      /\ entry = "MainControl" <=> bus.next = 12
      /\ entry = "GivenFrequency" <=> bus.next = 13
      /\ entry \notin {"WriteStop", "WriteZero", "WriteF005", "WriteF004"}
    BY <1>1, LiveTurn
<1>3. /\ \E t \in {script.turns, script.turns + 1} :
            ScriptIs(script.at, t, script.map, script.register, script.outcome)
      /\ bus'.map = "live" /\ bus'.next = IF bus.next = 13 THEN 1 ELSE bus.next + 1
    BY <1>1, <1>2, AdvanceFields
<1>4. /\ pins'.control = pins.control /\ pins'.given = pins.given
      /\ pins'.link_fault = pins.link_fault
      /\ pins'.readback \in {pins.readback, drive.given}
      /\ pins'.output_frequency = IF bus.next = 8 THEN IF drive.turning THEN 1 ELSE 0
                                  ELSE pins.output_frequency
      /\ pins'.parameters["F169"] = IF bus.next = 7 THEN drive.parameters["F169"]
                                    ELSE pins.parameters["F169"]
      /\ bus.next \notin {6, 7} => pins'.parameters["F163"] = pins.parameters["F163"]
    BY <1>1, <1>2, FetchedFields
<1>5. drive'.parameters = drive.parameters
    BY <1>1, <1>2, TurnParameters
<1>6. /\ drive'.fault = drive.fault
      /\ drive'.word = IF bus.next = 12 THEN pins.control ELSE drive.word
      /\ drive'.given = IF bus.next = 13 THEN pins.given ELSE drive.given
    BY <1>1, <1>2, DeliveredFields
<1>7. drive'.turning <=>
        \/ drive.turning
        \/ /\ bus.next \in {12, 13}
           /\ drive'.word = CONTROL_FORWARD /\ drive'.given > 0 /\ drive.fault = 0
    BY <1>1, <1>2, DeliveredFields
<1>. QED BY <1>2, <1>3, <1>4, <1>5, <1>6, <1>7

\* As LiveSucceeds, for a transaction that fails.
LEMMA LiveFails ==
    ASSUME TypeOK, bus.map = "live", NEW entry, Fail(entry)
    PROVE  /\ bus'.map = "live" /\ drive' = drive
           /\ \E t \in {script.turns, script.turns + 1} :
                ScriptIs(script.at, t, script.map, script.register, script.outcome)
           /\ pins'.control = pins.control /\ pins'.given = pins.given /\ pins'.link_fault
BY AdvanceFields, FailFields DEF Fail, Turn

\* Each turn hears one entry of what was unheard, and the sleep begins no earlier than the seventh.
LEMMA HearingNext ==
    ASSUME TypeOK, Session, Running, Hearing, [Next]_controlVars
    PROVE  Hearing'
<1>0. bus.next \in Nat /\ script.turns \in Nat
  <2>1. script.turns \in Turns BY DEF TypeOK, Scripts
  <2>. QED BY <2>1, MostTurnsNat DEF TypeOK, Buses, Turns
<1>1. CASE Script
  <2>1. CASE Configure
    <3>1. "F163" \in Parameters BY DEF Parameters
    <3>2. /\ script'.at = "await-communication" /\ bus'.next = 1
          /\ pins'.parameters["F163"] = 0
        BY <2>1, <3>1, ConfigureFields DEF ScriptIs
    <3>. QED BY <3>2 DEF Hearing
  <2>2. CASE CommunicationSeen
    <3>1. ScriptIs("settle", 0, script.map, script.register, script.outcome)
        BY <2>2, GotoFields DEF CommunicationSeen
    <3>2. /\ script.at = "await-communication" /\ ~pins.link_fault
          /\ pins' = pins /\ bus' = bus /\ drive' = drive
        BY <2>2 DEF CommunicationSeen, At, Quiet
    <3>3. pins.parameters["F163"] = 1
      <4>1. [f \in {"F163", "F164", "F165"} |-> pins.parameters[f]]["F163"] = 1
          BY <2>2 DEF CommunicationSeen
      <4>. QED BY <4>1
    <3>4. script'.at = "settle" /\ script'.turns = 0 BY <3>1 DEF ScriptIs
    <3>5. Unheard' <=> Unheard BY <3>2, Zenon DEF Unheard
    <3>6. pins'.parameters = pins.parameters /\ pins'.output_frequency = pins.output_frequency
          /\ pins'.link_fault = pins.link_fault
          /\ bus'.next = bus.next /\ bus'.map = bus.map
          /\ drive'.parameters = drive.parameters /\ drive'.turning = drive.turning
          /\ drive'.word = drive.word
        BY <3>2
    <3>7. Unheard /\ bus.map = "live" => bus.next >= 7 BY <3>2, <3>3 DEF Hearing
    <3>8. Unheard' /\ bus'.map = "live" /\ script'.at = "settle" => script'.turns + 7 <= bus'.next
        BY <1>0, <3>4, <3>5, <3>6, <3>7
    <3>. HIDE DEF Unheard
    <3>. QED BY <3>2, <3>4, <3>5, <3>6, <3>7, <3>8 DEF Hearing
  <2>. QED BY <1>1, <2>1, <2>2, ScriptPlaces DEF Hearing
<1>2. ASSUME NEW entry, Succeed(entry) PROVE Hearing'
  <2>. SUFFICES ASSUME bus'.map = "live", script'.at \in {"await-communication", "settle"},
                       ~pins'.link_fault
                PROVE  Hearing'
      BY DEF Hearing
  <2>1. bus.map = "live" BY <1>2, TurnParameters
  <2>2. PICK t \in {script.turns, script.turns + 1} :
          ScriptIs(script.at, t, script.map, script.register, script.outcome)
      BY <1>2, <2>1, LiveSucceeds
  <2>3. script.at \in {"await-communication", "settle"} /\ ~pins.link_fault
      BY <1>2, <2>1, <2>2, LiveSucceeds DEF ScriptIs
  <2>4. pins.control # CONTROL_FORWARD BY <2>3 DEF Running
  <2>5. pins.control = CONTROL_STOP BY <2>4 DEF TypeOK, PinValues, Words
  <2>6. CONTROL_STOP # CONTROL_FORWARD BY DEF CONTROL_STOP, CONTROL_FORWARD
  <2>7. pins.output_frequency \in {0, 1} /\ drive.word \in Words
      BY DEF TypeOK, PinValues, Drives
  <2>12. /\ bus.next \in 1 .. 13 /\ bus'.next = IF bus.next = 13 THEN 1 ELSE bus.next + 1
         /\ pins'.output_frequency = IF bus.next = 8 THEN IF drive.turning THEN 1 ELSE 0
                                     ELSE pins.output_frequency
         /\ pins'.parameters["F169"] = IF bus.next = 7 THEN drive.parameters["F169"]
                                       ELSE pins.parameters["F169"]
         /\ bus.next \notin {6, 7} => pins'.parameters["F163"] = pins.parameters["F163"]
         /\ drive'.parameters = drive.parameters
         /\ drive'.word = IF bus.next = 12 THEN CONTROL_STOP ELSE drive.word
      BY <1>2, <2>1, <2>5, LiveSucceeds
  <2>13. /\ pins.parameters["F169"] # drive.parameters["F169"] => bus.next <= 7
         /\ pins.output_frequency = 0 /\ drive.turning => bus.next <= 8
         /\ drive.word # CONTROL_STOP => bus.next <= 12
      BY <2>1, <2>3 DEF Hearing
  <2>14. drive'.turning => drive.turning
      BY <1>2, <2>1, <2>5, <2>6, <2>12, <2>13, LiveSucceeds
  <2>9. /\ pins'.parameters["F169"] # drive'.parameters["F169"] =>
             pins.parameters["F169"] # drive.parameters["F169"] /\ bus'.next <= 7
        /\ pins'.output_frequency = 0 /\ drive'.turning =>
             pins.output_frequency = 0 /\ drive.turning /\ bus'.next <= 8
        /\ drive'.word # CONTROL_STOP => drive.word # CONTROL_STOP /\ bus'.next <= 12
    <3>1. pins'.parameters["F169"] # drive'.parameters["F169"] =>
             pins.parameters["F169"] # drive.parameters["F169"] /\ bus'.next <= 7
        BY <2>12, <2>13
    <3>2. pins'.output_frequency = 0 /\ drive'.turning =>
             pins.output_frequency = 0 /\ drive.turning /\ bus'.next <= 8
        BY <2>7, <2>12, <2>13, <2>14
    <3>3. drive'.word # CONTROL_STOP => drive.word # CONTROL_STOP /\ bus'.next <= 12
        BY <2>12, <2>13
    <3>. QED BY <3>1, <3>2, <3>3
  <2>8. Unheard' => Unheard /\ bus.next # 13
      BY <2>9, <2>13 DEF Unheard
  <2>10. Unheard' /\ pins'.parameters["F163"] # 0 => bus'.next >= 7
    <3>1. Unheard /\ pins.parameters["F163"] # 0 => bus.next >= 7 BY <2>1, <2>3 DEF Hearing
    <3>. HIDE DEF Unheard
    <3>. QED BY <2>8, <2>12, <3>1
  <2>11. Unheard' /\ script'.at = "settle" => script'.turns + 7 <= bus'.next
    <3>1. script'.at = script.at /\ script'.turns \in {script.turns, script.turns + 1}
        BY <2>2 DEF ScriptIs
    <3>2. Unheard /\ script.at = "settle" => script.turns + 7 <= bus.next
        BY <2>1, <2>3 DEF Hearing
    <3>. HIDE DEF Unheard
    <3>. QED BY <1>0, <2>8, <2>12, <3>1, <3>2
  <2>. HIDE DEF Unheard
  <2>. QED BY <2>9, <2>10, <2>11 DEF Hearing
<1>3. ASSUME NEW entry, Fail(entry) PROVE Hearing' BY <1>3, FailFields DEF Hearing
<1>4. CASE ComeToRest BY <1>4, ComeToRestFields DEF Hearing, Unheard
<1>5. CASE Trip BY <1>5, TripFields DEF Hearing, Unheard
<1>6. CASE UNCHANGED controlVars BY <1>6 DEF controlVars, Hearing, Unheard
<1>. QED BY <1>1, <1>2, <1>3, <1>4, <1>5, <1>6 DEF Next, Transact

\* After the sleep nothing is unheard.
LEMMA AllHeard ==
    ASSUME TypeOK, Hearing, bus.map = "live", script.at = "settle", ~pins.link_fault,
           script.turns >= SettleTurns["live"]
    PROVE  ~Unheard
<1>1. bus.next \in 1 .. 13 BY LiveList, Zenon DEF TypeOK
<1>2. script.turns \in Nat
  <2>1. script.turns \in Turns BY DEF TypeOK, Scripts
  <2>. QED BY <2>1, MostTurnsNat DEF Turns
<1>3. SettleTurns["live"] \in Nat /\ SettleTurns["live"] >= 10 BY TurnsAssumption DEF Maps
<1>. QED BY <1>1, <1>2, <1>3 DEF Hearing

\* The decision is true of the drive, as each parameter it looked at had been read.
LEMMA DecidePermits ==
    ASSUME TypeOK, ReadBack, bus.map = "live", run_permitted(script.asked),
           pins.parameters["F169"] = drive.parameters["F169"],
           Encodable(script.asked.requested, pins.parameters["F169"]),
           ScriptIs("await-frequency", 0, script.map,
                    encode_frequency_hz(script.asked.requested, pins.parameters["F169"]),
                    script.outcome),
           drive' = drive
    PROVE  Permitted' /\ script'.register > 0
<1>. DEFINE p == pins.parameters
<1>. DEFINE d == drive.parameters
<1>1. /\ p["F001"] = 2 /\ p["F002"] = 2 /\ p["F024"] = 1
      /\ p["F005"] > 0 /\ script.asked.maximum <= 100 * p["F005"]
      /\ script.asked.requested > 0 /\ script.asked.requested <= script.asked.maximum
    BY DEF run_permitted
<1>2. /\ p["F005"] \in Nat /\ d["F005"] \in Nat
      /\ \A f \in Parameters : p[f] = 0 \/ p[f] = d[f]
      /\ {"F001", "F002", "F005", "F024"} \subseteq Parameters
    BY DEF TypeOK, PinValues, Drives, ReadBack, Parameters
<1>. HIDE DEF p, d
<1>3. /\ d["F001"] = 2 /\ d["F002"] = 2 /\ d["F024"] = 1 /\ d["F005"] = p["F005"]
  <2>1. /\ p["F001"] = 0 \/ p["F001"] = d["F001"]
        /\ p["F002"] = 0 \/ p["F002"] = d["F002"]
        /\ p["F024"] = 0 \/ p["F024"] = d["F024"]
        /\ p["F005"] = 0 \/ p["F005"] = d["F005"]
      BY <1>2, Zenon
  <2>. QED BY <1>1, <1>2, <2>1
<1>4. script.asked.requested \in Nat
  <2>1. script.asked \in Invocation BY InvocationsAssumption DEF TypeOK, Scripts
  <2>. QED BY <2>1 DEF Invocation
<1>. DEFINE register == encode_frequency_hz(script.asked.requested, p["F169"])
<1>5. /\ register * UnitsOf(p["F169"]) = script.asked.requested
      /\ register > 0 /\ p["F169"] \in {0, 1} /\ p["F169"] = d["F169"]
  <2>1. Encodable(script.asked.requested, p["F169"]) /\ p["F169"] = d["F169"] BY DEF p, d
  <2>2. p["F169"] \in {0, 1} BY <2>1 DEF Encodable
  <2>. QED BY <1>1, <1>4, <2>1, <2>2, EncodedExactly
<1>6. script'.register = register /\ script'.asked = script.asked /\ drive'.parameters = d
    BY DEF ScriptIs, p, d
<1>. HIDE DEF register
<1>. QED BY <1>1, <1>3, <1>5, <1>6 DEF Permitted

\* What was permitted stays so while the request, the register and the parameters do.
LEMMA PermittedStays ==
    ASSUME Permitted, script'.register = script.register, script'.asked = script.asked,
           drive'.parameters = drive.parameters
    PROVE  Permitted'
<1>. DEFINE units == UnitsOf(drive.parameters["F169"])
<1>1. UnitsOf(drive'.parameters["F169"]) = units BY Zenon
<1>2. UNCHANGED <<drive.parameters, script.register, script.asked>> OBVIOUS
<1>. HIDE DEF units
<1>. QED BY <1>1, <1>2 DEF Permitted, units

\* What Deciding says at each wait follows from what the wait before it had established.
LEMMA DecidingNext ==
    ASSUME TypeOK, Session, ReadBack, Hearing, Running, Deciding, [Next]_controlVars
    PROVE  Deciding'
<1>0. CONTROL_STOP # CONTROL_FORWARD BY DEF CONTROL_STOP, CONTROL_FORWARD
<1>1. CASE Script
  <2>1. CASE script'.at = "await-zero"
    <3>1. /\ script.at = "settle" /\ script.turns >= SettleTurns["live"] /\ ~pins.link_fault
          /\ bus.map = "live" /\ pins' = pins /\ bus' = bus /\ drive' = drive
        BY <1>1, <2>1, ScriptPlaces
    <3>2. ~Unheard BY <3>1, AllHeard
    <3>. QED BY <2>1, <3>1, <3>2 DEF Deciding, Unheard
  <2>2. CASE script'.at = "await-frequency"
    <3>. DEFINE register == encode_frequency_hz(script.asked.requested, pins.parameters["F169"])
    <3>1. Decide /\ ~Leave("refused") BY <1>1, <2>2, ScriptPlaces
    <3>2. /\ script.at = "await-zero" /\ ~pins.link_fault /\ pins.readback = 0
          /\ run_permitted(script.asked)
          /\ Encodable(script.asked.requested, pins.parameters["F169"])
          /\ pins.output_frequency = 0
          /\ ScriptIs("await-frequency", 0, script.map, register, script.outcome)
          /\ PinsAre(pins.control, register)
          /\ bus' = bus /\ drive' = drive
        BY <3>1, DecideFields
    <3>3. bus.map = "live" BY <3>2 DEF Session
    <3>4. drive.word = CONTROL_STOP /\ pins.parameters["F169"] = drive.parameters["F169"]
          /\ ~drive.turning
        BY <3>2 DEF Deciding
    <3>5. Permitted' /\ script'.register > 0 BY <3>2, <3>3, <3>4, DecidePermits
    <3>6. script'.register = register /\ pins'.given = register /\ pins'.readback = 0
        BY <3>2 DEF ScriptIs, PinsAre
    <3>. HIDE DEF register
    <3>7. drive'.word = CONTROL_STOP /\ ~drive'.turning BY <3>2, <3>4
    <3>8. pins'.readback # script'.register
      <4>1. script'.register # 0 BY <3>5
      <4>. QED BY <3>6, <4>1
    <3>9. pins'.given = script'.register BY <3>6
    <3>. HIDE DEF Permitted
    <3>. QED BY <2>2, <3>5, <3>7, <3>8, <3>9 DEF Deciding
  <2>. QED BY <2>1, <2>2 DEF Deciding
<1>2. ASSUME bus.map = "live", script'.at \in {"await-zero", "await-frequency"},
             script'.at = script.at, ~pins'.link_fault, NEW entry, Succeed(entry)
      PROVE  Deciding'
  <2>1. PICK t \in {script.turns, script.turns + 1} :
          ScriptIs(script.at, t, script.map, script.register, script.outcome)
      BY <1>2, LiveSucceeds
  <2>2. pins.control = CONTROL_STOP BY <1>2 DEF Running, TypeOK, PinValues, Words
  <2>3. ~pins.link_fault /\ drive.word = CONTROL_STOP BY <1>2, LiveSucceeds DEF Deciding
  <2>4. /\ drive'.word = CONTROL_STOP /\ (drive'.turning <=> drive.turning)
        /\ drive'.parameters = drive.parameters
      BY <1>0, <1>2, <2>2, <2>3, LiveSucceeds
  <2>5. CASE script.at = "await-zero"
    <3>1. /\ pins.parameters["F169"] = drive.parameters["F169"]
          /\ pins.output_frequency = 0 => ~drive.turning
        BY <2>3, <2>5 DEF Deciding
    <3>2. /\ pins'.parameters["F169"] = drive'.parameters["F169"]
          /\ pins'.output_frequency = 0 => ~drive'.turning
        BY <1>2, <2>4, <3>1, LiveSucceeds
    <3>. QED BY <1>2, <2>4, <2>5, <3>2 DEF Deciding
  <2>6. CASE script.at = "await-frequency"
    <3>1. Permitted' BY <2>1, <2>3, <2>4, <2>6, PermittedStays DEF Deciding, ScriptIs
    <3>2. /\ pins'.given = script.register /\ script'.register = script.register
          /\ ~drive'.turning
          /\ pins'.readback = script.register => drive'.given = script.register
      <4>1. /\ pins.given = script.register /\ ~drive.turning
            /\ pins.readback = script.register => drive.given = script.register
          BY <2>3, <2>6 DEF Deciding
      <4>2. /\ pins'.given = pins.given /\ pins'.readback \in {pins.readback, drive.given}
            /\ drive'.given \in {pins.given, drive.given}
            /\ bus.next # 13 => drive'.given = drive.given
            /\ bus.next = 13 => drive'.given = pins.given
          BY <1>2, LiveSucceeds
      <4>3. script'.register = script.register BY <2>1 DEF ScriptIs
      <4>. QED BY <2>4, <4>1, <4>2, <4>3
    <3>. HIDE DEF Permitted
    <3>3. /\ pins'.given = script'.register
          /\ pins'.readback = script'.register => drive'.given = script'.register
        BY <3>2
    <3>. QED BY <1>2, <2>4, <2>6, <3>1, <3>2, <3>3 DEF Deciding
  <2>. QED BY <1>2, <2>5, <2>6
<1>3. ASSUME NEW entry, Succeed(entry) PROVE Deciding'
  <2>1. bus.map # "none" /\ Advance BY <1>3 DEF Succeed, Turn
  <2>2. script'.at = script.at BY <2>1, AdvanceFields DEF ScriptIs
  <2>3. CASE script'.at \in {"await-zero", "await-frequency"} /\ ~pins'.link_fault
    <3>1. bus.map = "live" BY <2>2, <2>3 DEF Session
    <3>. QED BY <1>2, <1>3, <2>2, <2>3, <3>1
  <2>. QED BY <2>3 DEF Deciding
<1>4. ASSUME NEW entry, Fail(entry) PROVE Deciding' BY <1>4, FailFields DEF Deciding
<1>5. CASE ComeToRest \/ Trip
  <2>1. /\ script' = script /\ pins' = pins /\ bus' = bus /\ drive'.word = drive.word
        /\ drive'.given = drive.given /\ drive'.parameters = drive.parameters
        /\ drive'.turning => drive.turning
      BY <1>5, ComeToRestFields, TripFields
  <2>2. Permitted => Permitted' BY <2>1, PermittedStays
  <2>. QED BY <2>1, <2>2 DEF Deciding
<1>6. CASE UNCHANGED controlVars BY <1>6 DEF controlVars, Deciding, Permitted
<1>. QED BY <1>1, <1>3, <1>4, <1>5, <1>6 DEF Next, Transact

\* RUN is on the pin from SendRun to the end of the run, or for good if that is abandoned.
LEMMA RunningNext ==
    ASSUME TypeOK, Session, Deciding, Running, [Next]_controlVars
    PROVE  Running'
<1>0. CONTROL_STOP # CONTROL_FORWARD BY DEF CONTROL_STOP, CONTROL_FORWARD
<1>1. CASE Script
  <2>1. CASE SendRun
    <3>1. /\ script.at = "await-frequency" /\ ~pins.link_fault
          /\ pins.readback = script.register
          /\ ScriptIs("run", 0, script.map, script.register, script.outcome)
          /\ PinsAre(CONTROL_FORWARD, pins.given) /\ bus' = bus /\ drive' = drive
        BY <2>1, SendRunFields
    <3>2. Permitted' BY <3>1, PermittedStays DEF Deciding, ScriptIs
    <3>. QED BY <3>1, <3>2 DEF Deciding, Running, Session, ScriptIs, PinsAre
  <2>2. CASE script.at = "run" /\ PollSees
    <3>1. /\ ScriptIs(script.at, script.turns, script.map, script.register, script.outcome)
          /\ pins' = pins /\ bus' = bus /\ drive' = drive
        BY <2>2, PollSeesFields
    <3>2. Permitted => Permitted' BY <3>1, PermittedStays DEF ScriptIs
    <3>. QED BY <3>1, <3>2 DEF Running, ScriptIs
  <2>3. CASE InterruptClose
    <3>1. /\ ScriptIs("abandoned", 0, script.map, script.register, "interrupted")
          /\ bus' = bus \/ bus'.map = "none"
          /\ pins' = pins /\ drive' = drive
        BY <2>3, InterruptCloseFields
    <3>2. Permitted => Permitted' BY <3>1, PermittedStays DEF ScriptIs
    <3>. QED BY <3>1, <3>2 DEF Running, ScriptIs
  <2>4. CASE ~SendRun /\ ~(script.at = "run" /\ PollSees) /\ ~InterruptClose
    <3>1. pins'.control # CONTROL_FORWARD BY <1>1, <2>4, ScriptForward DEF Running
    <3>2. script'.at # "run" BY <1>1, <2>4, ScriptPlaces
    <3>. QED BY <3>1, <3>2 DEF Running
  <2>. QED BY <2>1, <2>2, <2>3, <2>4
<1>2. ASSUME NEW entry, Succeed(entry) PROVE Running'
  <2>1. bus.map # "none" /\ Advance /\ pins' = Fetched(entry) BY <1>2 DEF Succeed, Turn
  <2>2. script'.at = script.at /\ script'.register = script.register
        /\ script'.asked = script.asked /\ bus'.map = bus.map
      BY <2>1, AdvanceFields DEF ScriptIs
  <2>3. pins'.control = pins.control BY <2>1, FetchedFields
  <2>4. CASE pins.control = CONTROL_FORWARD
    <3>1. bus.map = "live" BY <2>1, <2>4 DEF Running
    <3>2. Permitted' BY <1>2, <2>2, <2>4, <3>1, PermittedStays, LiveSucceeds DEF Running
    <3>. QED BY <1>0, <1>2, <2>2, <2>3, <2>4, <3>1, <3>2, LiveSucceeds DEF Running
  <2>. QED BY <2>2, <2>3, <2>4 DEF Running
<1>3. ASSUME NEW entry, Fail(entry) PROVE Running'
  <2>1. bus.map # "none" /\ Advance BY <1>3 DEF Fail, Turn
  <2>2. script'.at = script.at /\ script'.register = script.register
        /\ script'.asked = script.asked /\ bus'.map = bus.map
      BY <2>1, AdvanceFields DEF ScriptIs
  <2>3. pins'.control = pins.control /\ pins'.given = pins.given /\ drive' = drive
      BY <1>3, FailFields
  <2>4. Permitted => Permitted' BY <2>2, <2>3, PermittedStays
  <2>. QED BY <2>2, <2>3, <2>4 DEF Running
<1>4. CASE ComeToRest \/ Trip
  <2>1. /\ script' = script /\ pins' = pins /\ bus' = bus /\ drive'.word = drive.word
        /\ drive'.given = drive.given /\ drive'.parameters = drive.parameters
        /\ drive'.turning => drive.turning
      BY <1>4, ComeToRestFields, TripFields
  <2>2. Permitted => Permitted' BY <2>1, PermittedStays
  <2>. QED BY <2>1, <2>2 DEF Running
<1>5. CASE UNCHANGED controlVars BY <1>5 DEF controlVars, Running, Permitted
<1>. QED BY <1>1, <1>2, <1>3, <1>4, <1>5 DEF Next, Transact

RunInv == SessionInv /\ Hearing /\ Deciding /\ Running

\* RunInv holds before the first session.
LEMMA RunInit == Init => RunInv
<1>. SUFFICES ASSUME Init PROVE RunInv OBVIOUS
<1>1. SessionInv BY SessionInit
<1>2. script.at = "load" /\ bus.map = "none" BY DEF Init
<1>3. pins.control = CONTROL_STOP BY DEF Init, NewPins
<1>4. CONTROL_STOP # CONTROL_FORWARD BY DEF CONTROL_STOP, CONTROL_FORWARD
<1>. QED BY <1>1, <1>2, <1>3, <1>4 DEF RunInv, Hearing, Deciding, Running

\* RunInv is inductive: each part is kept with the help of the ones before it.
LEMMA RunNext == RunInv /\ [Next]_controlVars => RunInv'
BY TypeNext, SessionNext, ReadBackNext, DoneNext, HearingNext, DecidingNext, RunningNext
DEF RunInv, SessionInv

\* RunInv holds throughout.
LEMMA RunInvariant == Spec => []RunInv
BY RunInit, RunNext, PTL DEF Spec

\* The drive takes RUN only in a step of hm2_modbus that delivers MainControl.
LEMMA RunDeliveredStep ==
    ASSUME RunInv, [Next]_controlVars,
           drive.word = CONTROL_STOP, drive'.word = CONTROL_FORWARD
    PROVE  RunDelivered
<1>0. /\ TypeOK /\ Session /\ Running /\ CONTROL_STOP # CONTROL_FORWARD
    BY DEF RunInv, SessionInv, CONTROL_STOP, CONTROL_FORWARD
<1>1. CASE Script BY <1>0, <1>1, ScriptReads
<1>2. ASSUME NEW entry, Succeed(entry) PROVE RunDelivered
  <2>1. /\ bus.map # "none" /\ Turn(entry) /\ drive' = Delivered(entry)
      BY <1>2 DEF Succeed, Turn
  <2>2. entry = "MainControl" /\ pins.control = CONTROL_FORWARD
      BY <1>0, <2>1, DeliveredFields
  <2>3. bus.map = "live" BY <1>0, <2>1, <2>2 DEF Running
  <2>4. Permitted /\ drive.given = script.register /\ ~drive.turning
      BY <1>0, <2>2, <2>3 DEF Running
  <2>. QED BY <2>4 DEF Permitted, RunDelivered
<1>3. ASSUME NEW entry, Fail(entry) PROVE RunDelivered BY <1>0, <1>3 DEF Fail
<1>4. CASE ComeToRest \/ Trip BY <1>0, <1>4, ComeToRestFields, TripFields
<1>5. CASE UNCHANGED controlVars BY <1>0, <1>5 DEF controlVars
<1>. QED BY <1>1, <1>2, <1>3, <1>4, <1>5 DEF Next, Transact

\* The drive is told to run only from rest, under communication control, with the register
\* holding exactly what was asked for and within both limits: whatever drive was found,
\* whichever transactions fail and whenever the operator interrupts, provided the sleep of
\* 0.5 s is ten turns of the live map at least (TurnsAssumption).
THEOREM SpecRunOnlyVerified == Spec => RunOnlyVerified
<1>1. RunInv /\ [Next]_controlVars =>
        [drive.word = CONTROL_STOP /\ drive'.word = CONTROL_FORWARD => RunDelivered]_controlVars
    BY RunDeliveredStep
<1>. QED BY <1>1, RunInvariant, PTL DEF Spec, RunOnlyVerified

-----------------------------------------------------------------------------
(* The end of the run *)

\* How long the run has lasted bounds what the drive has not been told, or the pins not shown:
\* it takes RUN when the twelfth entry comes round, and 0220H is read eight entries into the
\* next round, 22 turns after SendRun at the latest.
Lasting ==
    /\ drive.word = CONTROL_STOP =>
         \/ bus.next <= 12 /\ script.turns <= bus.next
         \/ bus.next = 13 /\ script.turns = 0
    /\ pins.output_frequency = 0 /\ drive.turning =>
         \/ bus.next = 13 /\ script.turns <= 13
         \/ bus.next <= 8 /\ script.turns <= 13 + bus.next

\* A drive that holds RUN and a frequency stands only for a fault.
Turned ==
    /\ pins.given = script.register /\ drive.given = script.register /\ script.register > 0
    /\ drive.word = CONTROL_FORWARD /\ ~drive.turning => drive.fault # 0

Resting ==
    /\ script.at = "run" /\ ~pins.link_fault => Lasting
    /\ script.at \in {"run", "await-rest"} => Turned
    /\ script.at = "await-rest" /\ ~pins.link_fault /\ pins.output_frequency = 0 =>
         ~drive.turning /\ (drive.word = CONTROL_STOP \/ drive.fault # 0)

\* After 22 turns a zero on the pin is a drive that came to rest for a reason.
LEMMA LastingRun ==
    ASSUME Lasting, Turned, bus.next \in 1 .. 13, script.turns \in Nat, script.turns >= 22,
           pins.output_frequency = 0, drive.word \in Words
    PROVE  ~drive.turning /\ (drive.word = CONTROL_STOP \/ drive.fault # 0)
<1>1. drive.word # CONTROL_STOP /\ ~drive.turning BY DEF Lasting
<1>. QED BY <1>1 DEF Turned, Words

\* Resting is kept: the run outlasts the rest of one round and the first eight entries of the next.
LEMMA RestingNext ==
    ASSUME TypeOK, Session, Deciding, Running, Resting, RunTurns >= 22, [Next]_controlVars
    PROVE  Resting'
<1>0. /\ bus.next \in Nat /\ script.turns \in Nat /\ drive.word \in Words
      /\ CONTROL_STOP # CONTROL_FORWARD /\ RunTurns \in Nat
  <2>1. script.turns \in Turns BY DEF TypeOK, Scripts
  <2>. QED BY <2>1, MostTurnsNat, TurnsAssumption
       DEF TypeOK, Buses, Drives, Turns, CONTROL_STOP, CONTROL_FORWARD
<1>1. CASE Script
  <2>1. CASE SendRun
    <3>1. /\ script.at = "await-frequency" /\ ~pins.link_fault
          /\ pins.readback = script.register
          /\ ScriptIs("run", 0, script.map, script.register, script.outcome)
          /\ PinsAre(CONTROL_FORWARD, pins.given) /\ bus' = bus /\ drive' = drive
        BY <2>1, SendRunFields
    <3>2. /\ script'.at = "run" /\ script'.turns = 0 /\ script'.register = script.register
          /\ pins'.given = pins.given
        BY <3>1 DEF ScriptIs, PinsAre
    <3>3. /\ drive.word = CONTROL_STOP /\ ~drive.turning /\ pins.given = script.register
          /\ drive.given = script.register /\ script.register > 0
        BY <3>1 DEF Deciding, Permitted
    <3>4. bus.map = "live" BY <3>1 DEF Session
    <3>5. bus.next \in 1 .. 13 BY <3>4, LiveList, Zenon DEF TypeOK
    <3>6. Lasting' BY <3>1, <3>2, <3>3, <3>5 DEF Lasting
    <3>7. Turned' BY <1>0, <3>1, <3>2, <3>3 DEF Turned
    <3>. QED BY <3>2, <3>6, <3>7 DEF Resting
  <2>2. CASE script.at = "run" /\ PollSees
    <3>1. /\ ScriptIs("run", script.turns, script.map, script.register, script.outcome)
          /\ pins' = pins /\ bus' = bus /\ drive' = drive
        BY <2>2, PollSeesFields
    <3>2. Lasting => Lasting' BY <3>1 DEF Lasting, ScriptIs
    <3>3. Turned => Turned' BY <3>1 DEF Turned, ScriptIs
    <3>. QED BY <2>2, <3>1, <3>2, <3>3 DEF Resting, ScriptIs
  <2>3. CASE RunEnds
    <3>1. /\ script.at = "run" /\ script.turns >= RunTurns
          /\ ScriptIs("await-rest", 0, script.map, script.register, script.outcome)
          /\ PinsAre(CONTROL_STOP, pins.given) /\ bus' = bus /\ drive' = drive
        BY <2>3, RunEndsFields
    <3>2. Turned BY <3>1 DEF Resting
    <3>3. Turned' BY <3>1, <3>2 DEF Turned, ScriptIs, PinsAre
    <3>4. bus.map = "live" BY <3>1 DEF Session
    <3>5. bus.next \in 1 .. 13 BY <3>4, LiveList, Zenon DEF TypeOK
    <3>6. ~pins.link_fault /\ pins.output_frequency = 0 =>
            ~drive.turning /\ (drive.word = CONTROL_STOP \/ drive.fault # 0)
        BY <1>0, <3>1, <3>2, <3>5, LastingRun DEF Resting
    <3>7. script'.at = "await-rest" /\ pins'.link_fault = pins.link_fault
          /\ pins'.output_frequency = pins.output_frequency
        BY <3>1 DEF ScriptIs, PinsAre
    <3>. QED BY <3>1, <3>3, <3>6, <3>7 DEF Resting
  <2>4. CASE script'.at \notin {"run", "await-rest"} BY <2>4 DEF Resting
  <2>. QED BY <1>1, <2>1, <2>2, <2>3, <2>4, ScriptPlaces
<1>2. ASSUME NEW entry, Succeed(entry), script'.at = script.at,
             script.at \in {"run", "await-rest"}
      PROVE  Resting'
  <2>1. bus.map = "live" BY <1>2 DEF Session
  <2>2. PICK t \in {script.turns, script.turns + 1} :
          ScriptIs(script.at, t, script.map, script.register, script.outcome)
      BY <1>2, <2>1, LiveSucceeds
  <2>3. script'.turns = t /\ script'.register = script.register BY <2>2 DEF ScriptIs
  <2>4. pins.control = IF script.at = "run" THEN CONTROL_FORWARD ELSE CONTROL_STOP
      BY <1>2 DEF Running, TypeOK, PinValues, Words
  <2>5. /\ bus.next \in 1 .. 13 /\ bus'.next = IF bus.next = 13 THEN 1 ELSE bus.next + 1
        /\ pins'.given = pins.given /\ pins'.link_fault = pins.link_fault
        /\ bus.next = 8 /\ drive.turning => pins'.output_frequency = 1
        /\ bus.next # 8 => pins'.output_frequency = pins.output_frequency
        /\ drive'.fault = drive.fault
        /\ drive'.word = IF bus.next = 12 THEN pins.control ELSE drive.word
        /\ drive'.given = IF bus.next = 13 THEN pins.given ELSE drive.given
        /\ drive'.turning <=>
             \/ drive.turning
             \/ /\ bus.next \in {12, 13}
                /\ drive'.word = CONTROL_FORWARD /\ drive'.given > 0 /\ drive.fault = 0
      BY <1>2, <2>1, LiveSucceeds
  <2>6. /\ pins.given = script.register /\ drive.given = script.register
        /\ script.register > 0
        /\ drive.word = CONTROL_FORWARD /\ ~drive.turning => drive.fault # 0
      BY <1>2 DEF Resting, Turned
  <2>7. Turned'
    <3>1. drive'.given = script.register /\ pins'.given = script.register
        BY <2>5, <2>6
    <3>2. drive'.word = CONTROL_FORWARD /\ ~drive'.turning => drive'.fault # 0
      <4>1. CASE drive.word = CONTROL_FORWARD BY <2>5, <2>6, <4>1
      <4>2. CASE drive.word = CONTROL_STOP BY <1>0, <2>5, <2>6, <3>1, <4>2
      <4>. QED BY <1>0, <4>1, <4>2 DEF Words
    <3>. QED BY <2>3, <2>6, <3>1, <3>2 DEF Turned
  <2>8. CASE script.at = "run"
    <3>. SUFFICES ASSUME ~pins.link_fault PROVE Lasting'
        BY <1>2, <2>5, <2>7, <2>8 DEF Resting
    <3>1. /\ drive.word = CONTROL_STOP =>
               \/ bus.next <= 12 /\ script.turns <= bus.next
               \/ bus.next = 13 /\ script.turns = 0
          /\ pins.output_frequency = 0 /\ drive.turning =>
               \/ bus.next = 13 /\ script.turns <= 13
               \/ bus.next <= 8 /\ script.turns <= 13 + bus.next
        BY <2>8 DEF Resting, Lasting
    <3>2. drive'.word = CONTROL_STOP =>
            \/ bus'.next <= 12 /\ script'.turns <= bus'.next
            \/ bus'.next = 13 /\ script'.turns = 0
        BY <1>0, <2>3, <2>4, <2>5, <2>8, <3>1
    <3>3. pins'.output_frequency = 0 /\ drive'.turning =>
            \/ bus'.next = 13 /\ script'.turns <= 13
            \/ bus'.next <= 8 /\ script'.turns <= 13 + bus'.next
      <4>1. CASE drive.turning BY <1>0, <2>3, <2>5, <3>1, <4>1
      <4>2. CASE ~drive.turning /\ drive.word = CONTROL_FORWARD
          BY <1>0, <2>5, <2>6, <4>2
      <4>3. CASE ~drive.turning /\ drive.word = CONTROL_STOP
          BY <1>0, <2>3, <2>5, <3>1, <4>3
      <4>. QED BY <1>0, <4>1, <4>2, <4>3 DEF Words
    <3>. QED BY <3>2, <3>3 DEF Lasting
  <2>9. CASE script.at = "await-rest"
    <3>. SUFFICES ASSUME ~pins.link_fault, pins'.output_frequency = 0
                  PROVE  ~drive'.turning /\ (drive'.word = CONTROL_STOP \/ drive'.fault # 0)
        BY <1>2, <2>5, <2>7, <2>9 DEF Resting
    <3>1. pins.output_frequency = 0 =>
            ~drive.turning /\ (drive.word = CONTROL_STOP \/ drive.fault # 0)
        BY <2>9 DEF Resting
    <3>2. ~drive.turning /\ (drive.word = CONTROL_STOP \/ drive.fault # 0)
        BY <1>0, <2>5, <2>6, <3>1 DEF Words
    <3>. QED BY <1>0, <2>4, <2>5, <2>9, <3>2
  <2>. QED BY <1>2, <2>8, <2>9
<1>3. ASSUME NEW entry, Succeed(entry) PROVE Resting'
  <2>1. bus.map # "none" /\ Advance BY <1>3 DEF Succeed, Turn
  <2>2. script'.at = script.at BY <2>1, AdvanceFields DEF ScriptIs
  <2>3. CASE script.at \in {"run", "await-rest"} BY <1>2, <1>3, <2>2, <2>3
  <2>. QED BY <2>2, <2>3 DEF Resting
<1>4. ASSUME NEW entry, Fail(entry) PROVE Resting'
  <2>1. bus.map # "none" /\ Advance BY <1>4 DEF Fail, Turn
  <2>2. script'.at = script.at /\ script'.register = script.register
      BY <2>1, AdvanceFields DEF ScriptIs
  <2>3. pins'.link_fault /\ pins'.given = pins.given /\ drive' = drive BY <1>4, FailFields
  <2>4. Turned => Turned' BY <2>2, <2>3 DEF Turned
  <2>. QED BY <2>2, <2>3, <2>4 DEF Resting
<1>5. CASE ComeToRest
  <2>1. /\ ~drive'.turning /\ drive'.word = drive.word /\ drive'.given = drive.given
        /\ drive'.fault = drive.fault
        /\ drive.word = CONTROL_STOP \/ drive.given = 0 \/ drive.fault # 0
        /\ script' = script /\ pins' = pins /\ bus' = bus
      BY <1>5, ComeToRestFields
  <2>2. Turned => Turned' BY <1>0, <2>1 DEF Turned
  <2>3. Lasting => Lasting' BY <2>1 DEF Lasting
  <2>4. Turned => drive.word = CONTROL_STOP \/ drive.fault # 0 BY <2>1 DEF Turned
  <2>. QED BY <2>1, <2>2, <2>3, <2>4 DEF Resting
<1>6. CASE Trip
  <2>1. /\ drive'.fault # 0 /\ drive'.word = drive.word /\ drive'.given = drive.given
        /\ drive'.turning = drive.turning
        /\ script' = script /\ pins' = pins /\ bus' = bus
      BY <1>6, TripFields
  <2>2. Turned => Turned' BY <2>1 DEF Turned
  <2>3. Lasting => Lasting' BY <2>1 DEF Lasting
  <2>. QED BY <2>1, <2>2, <2>3 DEF Resting
<1>7. CASE UNCHANGED controlVars BY <1>7 DEF controlVars, Resting, Lasting, Turned
<1>. QED BY <1>1, <1>3, <1>4, <1>5, <1>6, <1>7 DEF Next, Transact

\* The other steps are not StopConfirmed.
LEMMA StopConfirmedRests ==
    ASSUME TypeOK, Resting, StopConfirmed
    PROVE  ~drive.turning /\ (drive.word = CONTROL_STOP \/ drive.fault # 0)
BY StopConfirmedFields DEF Resting

\* STOP CONFIRMED is true of the drive when the run has lasted 22 turns, 1.1 s on the live map:
\* the zero on the pin was read after the drive had taken RUN, of a drive that had tripped or
\* come to rest on STOP. A shorter run, which --duration-seconds allows, may see the zero of
\* before the run: 22 is the least for which TLC finds the property true.
THEOREM SpecStopConfirmedTrue == ASSUME RunTurns >= 22 PROVE Spec => StopConfirmedTrue
<1>. DEFINE Inv == RunInv /\ Resting
<1>1. Init => Inv
  <2>1. Init => Resting BY DEF Init, Resting
  <2>. QED BY <2>1, RunInit
<1>2. Inv /\ [Next]_controlVars => Inv'
  <2>1. RunInv => TypeOK /\ Session /\ Deciding /\ Running BY DEF RunInv, SessionInv
  <2>2. RunInv /\ Resting /\ [Next]_controlVars => Resting' BY <2>1, RestingNext
  <2>. QED BY <2>2, RunNext
<1>3. Inv /\ [Next]_controlVars =>
        [StopConfirmed => ~drive.turning /\ (drive.word = CONTROL_STOP \/ drive.fault # 0)]_controlVars
  <2>1. RunInv => TypeOK BY DEF RunInv, SessionInv
  <2>. QED BY <2>1, StopConfirmedRests
<1>. HIDE DEF Inv
<1>. QED BY <1>1, <1>2, <1>3, PTL DEF Spec, StopConfirmedTrue

-----------------------------------------------------------------------------
(* The writing of F004 and F005 *)

\* A drive that turns is seen to turn before configure-400hz goes on to write, and never told
\* to run on the way; STOP has been delivered before the first parameter, F005 before F004.
Writing ==
    /\ bus.map = "readonly" /\ pins.output_frequency = 0 /\ drive.turning =>
         /\ script.at \in {"await-communication", "settle"} /\ ~pins.link_fault =>
              /\ script.at = "await-communication" /\ bus.next = 1
              /\ pins.parameters["F163"] = 0
         /\ script.at # "check"
    /\ script.map = "configure" => ~drive.turning
    /\ bus.map = "configure" /\ bus.next > 1 => drive.word = CONTROL_STOP
    /\ bus.map = "configure" /\ bus.next = 4 =>
         "F004" \in drive.locked \/ drive.parameters["F005"] = Target
    /\ "F005" \in drive.locked => "F004" \in drive.locked
    /\ drive.parameters["F004"] <= Target

\* A transaction on a map that cannot tell the drive to run.
LEMMA NoRunSucceeds ==
    ASSUME TypeOK, bus.map \in {"readonly", "configure"}, NEW entry, Succeed(entry)
    PROVE  /\ drive'.turning = drive.turning /\ drive'.locked = drive.locked
           /\ bus'.map = bus.map
           /\ \E t \in {script.turns, script.turns + 1} :
                ScriptIs(script.at, t, script.map, script.register, script.outcome)
           /\ pins'.link_fault = pins.link_fault
           /\ bus.map = "readonly" =>
                /\ drive' = drive
                /\ bus.next \in 1 .. 10 /\ bus'.next = IF bus.next = 10 THEN 1 ELSE bus.next + 1
                /\ pins'.output_frequency = IF bus.next = 1 THEN IF drive.turning THEN 1 ELSE 0
                                            ELSE pins.output_frequency
           /\ bus.map = "configure" =>
                /\ bus.next \in 1 .. 15 /\ bus'.next = IF bus.next = 15 THEN 5 ELSE bus.next + 1
                /\ drive'.word = IF bus.next = 1 THEN CONTROL_STOP ELSE drive.word
                /\ drive'.parameters["F005"] = IF bus.next = 3 /\ "F005" \notin drive.locked THEN Target
                                               ELSE drive.parameters["F005"]
                /\ drive'.parameters["F004"] = IF bus.next = 4 /\ "F004" \notin drive.locked THEN Target
                                               ELSE drive.parameters["F004"]
                /\ bus.next \notin {3, 4} => drive'.parameters = drive.parameters
<1>1. /\ bus.map # "none" /\ Advance /\ Turn(entry)
      /\ pins' = Fetched(entry) /\ drive' = Delivered(entry)
    BY DEF Succeed, Turn
<1>2. entry \notin {"MainControl", "GivenFrequency"}
    BY <1>1, ReadonlyTurn, ConfigureTurn
<1>3. /\ \E t \in {script.turns, script.turns + 1} :
            ScriptIs(script.at, t, script.map, script.register, script.outcome)
      /\ bus'.map = bus.map /\ bus'.next = NextOf(bus.map, bus.next)
    BY <1>1, AdvanceFields
<1>4. /\ pins'.link_fault = pins.link_fault
      /\ pins'.output_frequency = IF entry = "OutputFrequency"
                                  THEN IF drive.turning THEN 1 ELSE 0
                                  ELSE pins.output_frequency
    BY <1>1, FetchedFields
<1>5. /\ drive'.turning <=> drive.turning
      /\ drive'.locked = drive.locked /\ drive'.fault = drive.fault
      /\ drive'.word = IF entry = "WriteStop" THEN CONTROL_STOP ELSE drive.word
      /\ drive'.given = IF entry = "WriteZero" THEN 0 ELSE drive.given
      /\ drive'.parameters =
           [drive.parameters EXCEPT
               !["F005"] = IF entry = "WriteF005" /\ "F005" \notin drive.locked THEN Target ELSE @,
               !["F004"] = IF entry = "WriteF004" /\ "F004" \notin drive.locked THEN Target ELSE @]
    BY <1>1, <1>2, DeliveredFields
<1>6. drive \in Drives /\ drive' \in Drives
  <2>1. drive' \in Drives BY <1>1, DeliveredFields
  <2>. QED BY <2>1 DEF TypeOK
<1>7. drive'.turning = drive.turning BY <1>5, <1>6 DEF Drives
<1>8. /\ drive'.parameters["F005"] = IF entry = "WriteF005" /\ "F005" \notin drive.locked THEN Target
                                     ELSE drive.parameters["F005"]
      /\ drive'.parameters["F004"] = IF entry = "WriteF004" /\ "F004" \notin drive.locked THEN Target
                                     ELSE drive.parameters["F004"]
      /\ entry \notin {"WriteF005", "WriteF004"} => drive'.parameters = drive.parameters
  <2>1. drive.parameters \in [Parameters -> Nat] BY <1>6 DEF Drives
  <2>2. "F004" \in Parameters /\ "F005" \in Parameters BY DEF Parameters
  <2>. QED BY <1>5, <2>1, <2>2
<1>9. CASE bus.map = "readonly"
  <2>1. /\ bus.next \in 1 .. 10 /\ bus'.next = IF bus.next = 10 THEN 1 ELSE bus.next + 1
        /\ entry = "OutputFrequency" <=> bus.next = 1
        /\ entry \notin {"WriteStop", "WriteZero", "WriteF005", "WriteF004"}
      BY <1>1, <1>3, <1>9, ReadonlyTurn
  <2>2. drive' = drive BY <1>5, <1>6, <1>7, <1>8, <2>1, DriveFields
  <2>. QED BY <1>3, <1>4, <1>7, <1>9, <2>1, <2>2
<1>10. CASE bus.map = "configure"
  <2>1. /\ bus.next \in 1 .. 15 /\ bus'.next = IF bus.next = 15 THEN 5 ELSE bus.next + 1
        /\ entry = "WriteStop" <=> bus.next = 1
        /\ entry = "WriteF005" <=> bus.next = 3
        /\ entry = "WriteF004" <=> bus.next = 4
      BY <1>1, <1>3, <1>10, ConfigureTurn
  <2>. QED BY <1>3, <1>4, <1>5, <1>7, <1>8, <1>10, <2>1
<1>. QED BY <1>9, <1>10

\* The steps of the script: only Preflight turns to the writing map.
LEMMA ScriptMap ==
    ASSUME TypeOK, Session, Script, script'.map = "configure", script.map # "configure"
    PROVE  /\ script.at = "check" /\ bus.map = "readonly" /\ pins.output_frequency = 0
           /\ bus' = bus
<1>1. CASE Configure BY <1>1, ConfigureFields DEF ScriptIs
<1>2. CASE ConfigureFails BY <1>2, ConfigureFailsFields DEF ScriptIs
<1>3. ASSUME NEW outcome, Leave(outcome) PROVE FALSE BY <1>3, LeaveFields DEF ScriptIs
<1>4. ASSUME NEW place, Goto(place) PROVE FALSE BY <1>4, GotoFields DEF ScriptIs
<1>5. CASE WaitFails BY <1>3, <1>5 DEF WaitFails
<1>6. CASE CommunicationSeen BY <1>4, <1>6 DEF CommunicationSeen
<1>7. CASE Settled BY <1>3, <1>4, <1>7 DEF Settled
<1>8. CASE Decide BY <1>3, <1>8, DecideFields DEF ScriptIs
<1>9. CASE SendRun BY <1>9, SendRunFields DEF ScriptIs
<1>10. CASE PollFails BY <1>3, <1>10 DEF PollFails
<1>11. CASE PollSees BY <1>11, PollSeesFields DEF ScriptIs
<1>12. CASE RunEnds BY <1>12, RunEndsFields DEF ScriptIs
<1>13. CASE StopConfirmed BY <1>13, StopConfirmedFields DEF ScriptIs
<1>14. CASE Report BY <1>3, <1>14 DEF Report
<1>15. CASE Preflight BY <1>3, <1>15, PreflightFields
<1>16. CASE Verify BY <1>3, <1>16 DEF Verify
<1>17. CASE Close BY <1>17, CloseFields DEF ScriptIs
<1>18. CASE Interrupt BY <1>3, <1>18 DEF Interrupt
<1>19. CASE InterruptClose BY <1>19, InterruptCloseFields DEF ScriptIs
<1>. QED BY <1>1, <1>2, <1>5, <1>6, <1>7, <1>8, <1>9, <1>10, <1>11, <1>12, <1>13, <1>14, <1>15,
            <1>16, <1>17, <1>18, <1>19 DEF Script

\* Writing is kept, if the STOP and the F005 of the initialisation list arrive.
LEMMA WritingNext ==
    ASSUME TypeOK, Session, Writing, [Next]_controlVars,
           {"WriteStop", "WriteF005"} \cap Unreliable = {}
    PROVE  Writing'
<1>0. /\ bus.next \in Nat /\ drive.parameters["F004"] \in Nat /\ Target \in Nat
      /\ pins.output_frequency \in {0, 1}
    BY DEF TypeOK, Buses, Drives, PinValues, Parameters, Target
<1>1. CASE Script
  <2>1. drive' = drive BY <1>1, ScriptReads
  <2>2. /\ bus'.map = "configure" /\ bus'.next > 1 => drive'.word = CONTROL_STOP
        /\ bus'.map = "configure" /\ bus'.next = 4 =>
             "F004" \in drive'.locked \/ drive'.parameters["F005"] = Target
        /\ "F005" \in drive'.locked => "F004" \in drive'.locked
        /\ drive'.parameters["F004"] <= Target
      BY <1>1, ScriptReads DEF Writing
  <2>3. script'.map = "configure" => ~drive'.turning
      BY <1>1, <2>1, ScriptMap DEF Writing
  <2>4. ASSUME bus'.map = "readonly", pins'.output_frequency = 0, drive'.turning
        PROVE  /\ script'.at \in {"await-communication", "settle"} /\ ~pins'.link_fault =>
                    /\ script'.at = "await-communication" /\ bus'.next = 1
                    /\ pins'.parameters["F163"] = 0
               /\ script'.at # "check"
    <3>1. CASE Configure
      <4>1. "F163" \in Parameters BY DEF Parameters
      <4>. QED BY <3>1, <4>1, ConfigureFields DEF ScriptIs
    <3>2. ~CommunicationSeen
      <4>. SUFFICES ASSUME CommunicationSeen PROVE FALSE OBVIOUS
      <4>1. /\ script.at = "await-communication" /\ ~pins.link_fault
            /\ pins' = pins /\ bus' = bus
          BY DEF CommunicationSeen, At, Quiet
      <4>2. [f \in {"F163", "F164", "F165"} |-> pins.parameters[f]]["F163"] = 1
          BY DEF CommunicationSeen
      <4>. QED BY <2>1, <2>4, <4>1, <4>2 DEF Writing
    <3>3. script'.at # "check"
      <4>. SUFFICES ASSUME script'.at = "check" PROVE FALSE OBVIOUS
      <4>1. script.at = "settle" /\ ~pins.link_fault /\ pins' = pins /\ bus' = bus
          BY <1>1, ScriptPlaces
      <4>. QED BY <2>1, <2>4, <4>1 DEF Writing
    <3>. QED BY <1>1, <3>1, <3>2, <3>3, ScriptPlaces
  <2>. QED BY <2>2, <2>3, <2>4 DEF Writing
<1>2. ASSUME NEW entry, Succeed(entry) PROVE Writing'
  <2>0. bus.map \in Maps BY <1>2 DEF Succeed, Turn, TypeOK, Buses
  <2>1. CASE bus.map = "live"
    <3>1. /\ bus'.map = "live" /\ drive'.parameters = drive.parameters
          /\ script'.map = script.map
        BY <1>2, <2>1, LiveSucceeds DEF ScriptIs
    <3>2. script.map # "configure" BY <2>1 DEF Session
    <3>3. drive'.locked = drive.locked BY <1>2, DeliveredFields DEF Succeed
    <3>. QED BY <3>1, <3>2, <3>3 DEF Writing
  <2>2. CASE bus.map = "readonly"
    <3>1. /\ bus'.map = "readonly" /\ drive' = drive
          /\ pins'.link_fault = pins.link_fault
          /\ bus.next \in 1 .. 10 /\ bus'.next = IF bus.next = 10 THEN 1 ELSE bus.next + 1
          /\ pins'.output_frequency = IF bus.next = 1 THEN IF drive.turning THEN 1 ELSE 0
                                      ELSE pins.output_frequency
          /\ script'.at = script.at /\ script'.map = script.map
        BY <1>2, <2>2, NoRunSucceeds DEF ScriptIs
    <3>2. ASSUME pins'.output_frequency = 0, drive'.turning
          PROVE  /\ script'.at \in {"await-communication", "settle"} => pins'.link_fault
                 /\ script'.at # "check"
      <4>1. bus.next # 1 /\ pins.output_frequency = 0 /\ drive.turning BY <3>1, <3>2
      <4>. QED BY <2>2, <3>1, <4>1 DEF Writing
    <3>. QED BY <3>1, <3>2 DEF Writing
  <2>3. CASE bus.map = "configure"
    <3>1. /\ bus'.map = "configure" /\ script'.map = script.map
          /\ drive'.turning = drive.turning /\ drive'.locked = drive.locked
          /\ bus.next \in 1 .. 15 /\ bus'.next = IF bus.next = 15 THEN 5 ELSE bus.next + 1
          /\ drive'.word = IF bus.next = 1 THEN CONTROL_STOP ELSE drive.word
          /\ drive'.parameters["F005"] = IF bus.next = 3 /\ "F005" \notin drive.locked THEN Target
                                         ELSE drive.parameters["F005"]
          /\ drive'.parameters["F004"] = IF bus.next = 4 /\ "F004" \notin drive.locked THEN Target
                                         ELSE drive.parameters["F004"]
        BY <1>2, <2>3, NoRunSucceeds DEF ScriptIs
    <3>2. bus'.next > 1 => drive'.word = CONTROL_STOP BY <2>3, <3>1 DEF Writing
    <3>3. bus'.next = 4 => "F004" \in drive'.locked \/ drive'.parameters["F005"] = Target
        BY <3>1 DEF Writing
    <3>4. drive'.parameters["F004"] <= Target BY <1>0, <3>1 DEF Writing
    <3>. QED BY <3>1, <3>2, <3>3, <3>4 DEF Writing
  <2>. QED BY <2>0, <2>1, <2>2, <2>3 DEF Maps
<1>3. ASSUME NEW entry, Fail(entry) PROVE Writing'
  <2>1. bus.map # "none" /\ Advance /\ Turn(entry) /\ entry \in Unreliable
      BY <1>3 DEF Fail, Turn
  <2>2. /\ script'.at = script.at /\ script'.map = script.map
        /\ bus'.map = bus.map /\ bus'.next = NextOf(bus.map, bus.next)
      BY <2>1, AdvanceFields DEF ScriptIs
  <2>3. /\ pins'.link_fault /\ pins'.output_frequency = pins.output_frequency
        /\ drive' = drive
      BY <1>3, FailFields
  <2>4. ASSUME bus.map = "configure"
        PROVE  bus.next \notin {1, 3} /\ bus.next \in 1 .. 15
               /\ bus'.next = IF bus.next = 15 THEN 5 ELSE bus.next + 1
      BY <2>1, <2>2, <2>4, ConfigureTurn
  <2>5. bus'.map = "configure" =>
          /\ bus'.next > 1 => drive'.word = CONTROL_STOP
          /\ bus'.next # 4
      BY <2>2, <2>3, <2>4 DEF Writing
  <2>. QED BY <2>2, <2>3, <2>5 DEF Writing
<1>4. CASE ComeToRest
  <2>1. /\ ~drive'.turning /\ drive'.word = drive.word /\ drive'.locked = drive.locked
        /\ drive'.parameters = drive.parameters
        /\ script' = script /\ pins' = pins /\ bus' = bus
      BY <1>4, ComeToRestFields
  <2>. QED BY <2>1 DEF Writing
<1>5. CASE Trip
  <2>1. /\ drive'.word = drive.word /\ drive'.turning = drive.turning
        /\ drive'.locked = drive.locked /\ drive'.parameters = drive.parameters
        /\ script' = script /\ pins' = pins /\ bus' = bus
      BY <1>5, TripFields
  <2>. QED BY <2>1 DEF Writing
<1>6. CASE UNCHANGED controlVars BY <1>6 DEF controlVars, Writing
<1>. QED BY <1>1, <1>2, <1>3, <1>4, <1>5, <1>6 DEF Next, Transact

\* The parameters change only where the list of the writing map says.
LEMMA WrittenAtRest ==
    ASSUME TypeOK, Session, Writing, [Next]_controlVars,
           drive'.parameters # drive.parameters
    PROVE  /\ drive.word = CONTROL_STOP /\ ~drive.turning
           /\ drive'.parameters["F004"] <= drive'.parameters["F005"]
<1>1. CASE Script BY <1>1, ScriptReads
<1>2. ASSUME NEW entry, Succeed(entry)
      PROVE  /\ drive.word = CONTROL_STOP /\ ~drive.turning
             /\ drive'.parameters["F004"] <= drive'.parameters["F005"]
  <2>0. drive.parameters["F004"] \in Nat /\ Target \in Nat
      BY DEF TypeOK, Drives, Parameters, Target
  <2>1. bus.map = "configure" BY <1>2, TurnParameters
  <2>2. script.map = "configure" BY <2>1 DEF Session
  <2>3. /\ bus.next \in {3, 4} /\ bus.next \in 1 .. 15
        /\ drive'.parameters["F005"] = IF bus.next = 3 /\ "F005" \notin drive.locked THEN Target
                                       ELSE drive.parameters["F005"]
        /\ drive'.parameters["F004"] = IF bus.next = 4 /\ "F004" \notin drive.locked THEN Target
                                       ELSE drive.parameters["F004"]
      BY <1>2, <2>1, NoRunSucceeds
  <2>4. IF bus.next = 3 THEN "F005" \notin drive.locked ELSE "F004" \notin drive.locked
    <3>. SUFFICES ASSUME IF bus.next = 3 THEN "F005" \in drive.locked ELSE "F004" \in drive.locked
                  PROVE drive'.parameters = drive.parameters
        OBVIOUS
    <3>1. drive' = Delivered(entry) BY <1>2 DEF Succeed
    <3>2. drive'.parameters =
            [drive.parameters EXCEPT
               !["F005"] = IF entry = "WriteF005" /\ "F005" \notin drive.locked THEN Target ELSE @,
               !["F004"] = IF entry = "WriteF004" /\ "F004" \notin drive.locked THEN Target ELSE @]
        BY <3>1, DeliveredFields
    <3>3. drive.parameters \in [Parameters -> Nat] BY DEF TypeOK, Drives
    <3>4. /\ drive'.parameters["F005"] = drive.parameters["F005"]
          /\ drive'.parameters["F004"] = drive.parameters["F004"]
        BY <2>3
    <3>. QED BY <3>2, <3>3, <3>4 DEF Parameters
  <2>5. drive.word = CONTROL_STOP /\ ~drive.turning BY <2>1, <2>2, <2>3 DEF Writing
  <2>6. drive'.parameters["F004"] <= drive'.parameters["F005"]
      BY <2>0, <2>1, <2>3, <2>4 DEF Writing
  <2>. QED BY <2>5, <2>6
<1>3. ASSUME NEW entry, Fail(entry) PROVE FALSE BY <1>3 DEF Fail
<1>4. CASE ComeToRest \/ Trip BY <1>4, ComeToRestFields, TripFields
<1>5. CASE UNCHANGED controlVars BY <1>5 DEF controlVars
<1>. QED BY <1>1, <1>2, <1>3, <1>4, <1>5 DEF Next, Transact

\* F004 and F005 are written to a drive at rest that has taken STOP, and F004 stays within
\* F005, if no drive is found with more than 400 Hz in F004 or takes F004 alone, and the STOP
\* and the F005 of the initialisation list arrive. The write that does not arrive is one
\* hm2_modbus goes on from: with either in Unreliable TLC finds the property violated.
THEOREM SpecConfiguredAtRest ==
    ASSUME {"WriteStop", "WriteF005"} \cap Unreliable = {},
           \A d \in InitialDrives : /\ d.parameters["F004"] <= Target
                                    /\ "F005" \in d.locked => "F004" \in d.locked
    PROVE  Spec => ConfiguredAtRest
<1>. DEFINE Inv == SessionInv /\ Writing
<1>1. Init => Inv
  <2>. SUFFICES ASSUME Init PROVE Writing BY SessionInit
  <2>1. /\ bus.map = "none" /\ drive.parameters["F004"] <= Target
        /\ "F005" \in drive.locked => "F004" \in drive.locked
      BY DEF Init
  <2>2. script.map # "configure" BY DEF Init
  <2>. QED BY <2>1, <2>2 DEF Writing
<1>2. Inv /\ [Next]_controlVars => Inv'
    BY TypeNext, SessionNext, ReadBackNext, DoneNext, WritingNext DEF SessionInv
<1>3. Inv /\ [Next]_controlVars =>
        [drive'.parameters # drive.parameters =>
           /\ drive.word = CONTROL_STOP /\ ~drive.turning
           /\ drive'.parameters["F004"] <= drive'.parameters["F005"]]_controlVars
    BY WrittenAtRest DEF SessionInv
<1>. HIDE DEF Inv
<1>. QED BY <1>1, <1>2, <1>3, PTL DEF Spec, ConfiguredAtRest
===============================================================================

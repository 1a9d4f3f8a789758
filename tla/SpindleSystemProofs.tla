------------------------ MODULE SpindleSystemProofs ------------------------
(***************************************************************************)
(* Proofs about SpindleSystem and SpindleRuns, for every list of values,   *)
(* every set of unreliable commands, every threshold, every drive found    *)
(* and every trip: what the sequencer reports of the bus is not stale, and *)
(* what it reports of the spindle is true in every run whose rotation its  *)
(* feedback has shown.                                                     *)
(***************************************************************************)
EXTENDS SpindleRuns, SequencerProofs

BusOK == bus \in [suspended : BOOLEAN, next : 1 .. Len(CommandList),
                  errors : [Commands -> 0 .. ErrorThreshold]]

\* A disabled command is one of those the sequencer is told of.
Joined == (\E c \in Commands : Disabled(c)) => pins.link.any_command_disabled

\* What the drive is given is a number because what the sequencer publishes is: the
\* invariant of the sequencer is carried along. Joined also needs every error count to
\* stay below the threshold until the step that joins it.
LoopInv == IInv /\ BusOK /\ drive \in Drives /\ Joined

\* The magnitude of a turn is a frequency.
LEMMA Magnitudes == \A spin \in Int : Magnitude(spin) \in Nat
  BY DEF Magnitude

\* The status a drive reports is made of the bits the sequencer knows.
LEMMA StatusBits == main_status \in SUBSET MainStatusBits
  BY DEF main_status, MainStatusBits

\* What a read fetches fits the pins.
LEMMA FetchedPins ==
    ASSUME pins \in Pins, drive \in Drives, NEW c, NEW p \in Fetched(c)
    PROVE  /\ p \in Pins
           /\ c \notin {"OutputFrequency", "CurrentFault", "MainStatus"} =>
                p.feedback = pins.feedback
<1>1. pins.feedback \in Feedback
  BY DEF Pins
<1>2. CASE c = "Parameters"
  BY <1>2, ParametersAssumption DEF Fetched, Pins
<1>3. CASE c = "OutputFrequency"
  <2>1. Magnitude(drive.spin) \in Nat
    BY Magnitudes DEF Drives
  <2>2. [pins.feedback EXCEPT !.output_frequency = Magnitude(drive.spin)] \in Feedback
    BY <1>1, <2>1 DEF Feedback
  <2> QED
    BY <1>3, <2>2 DEF Fetched, Pins
<1>4. CASE c = "CurrentFault"
  <2>1. [pins.feedback EXCEPT !.current_fault = drive.fault] \in Feedback
    BY <1>1 DEF Feedback, Drives
  <2> QED
    BY <1>4, <2>1 DEF Fetched, Pins
<1>5. CASE c = "MainStatus"
  <2>1. [pins.feedback EXCEPT !.main_status = main_status] \in Feedback
    BY <1>1, StatusBits DEF Feedback
  <2> QED
    BY <1>5, <2>1 DEF Fetched, Pins
<1>6. CASE c = "Readback"
  BY <1>6 DEF Fetched, Pins, Drives
<1>7. CASE c \notin {"Parameters", "OutputFrequency", "CurrentFault", "MainStatus", "Readback"}
  BY <1>7 DEF Fetched
<1> QED
  BY <1>2, <1>3, <1>4, <1>5, <1>6, <1>7

\* Every step but the sequencer's own leaves the sequencer alone, and fits its pins.
LEMMA OthersPins ==
    ASSUME LoopInv, Others \/ UNCHANGED systemVars
    PROVE  pins' \in Pins /\ config' \in Config /\ UNCHANGED <<ctx, out>>
<1>1. pins \in Pins /\ config \in Config /\ drive \in Drives /\ pins.link \in Link
  BY DEF LoopInv, IInv, TypeOK, Pins
<1>2. CASE ReleaseBus
  BY <1>1, <1>2 DEF ReleaseBus, SetPins, Pins, Link
<1>3. ASSUME NEW c \in Commands, Succeed(c)
      PROVE  pins' \in Pins /\ config' \in Config /\ UNCHANGED <<ctx, out>>
  BY <1>1, <1>3, FetchedPins DEF Succeed, SetPins
<1>4. ASSUME NEW c \in Commands, Fail(c)
      PROVE  pins' \in Pins /\ config' \in Config /\ UNCHANGED <<ctx, out>>
  <2> DEFINE link(raised) == [pins.link EXCEPT
                                !.link_fault = @ \/ raised,
                                !.any_command_disabled = @ \/ bus.errors[c] + 1 = ErrorThreshold]
  <2>1. PICK raised \in BOOLEAN : pins' = [pins EXCEPT !.link = link(raised)]
    BY <1>1, <1>4 DEF Fail, SetPins, Pins
  <2>2. link(raised) \in Link
    BY <1>1, <2>1 DEF Link
  <2> HIDE DEF link
  <2> QED
    BY <1>1, <1>4, <2>1, <2>2 DEF Fail, SetPins, Pins
<1>5. ASSUME NEW c \in Commands, Skip(c)
      PROVE  pins' \in Pins /\ config' \in Config /\ UNCHANGED <<ctx, out>>
  BY <1>1, <1>5 DEF Skip, vars
<1>6. CASE ResetBus
  BY <1>1, <1>6 DEF ResetBus, SetPins, Pins, Link
<1>7. CASE Ramp \/ LeaveOperation \/ Trip \/ UNCHANGED systemVars
  BY <1>1, <1>7 DEF Ramp, LeaveOperation, Trip, SetDrive, vars, systemVars
<1>8. CASE RequestMotion
  BY <1>1, <1>8, RequestsAssumption DEF RequestMotion, SetRequest, SetPins, Pins
<1>9. CASE Operate
  BY <1>1, <1>9, SpeedCommandsAssumption, ResetsAssumption, ConfigsAssumption
  DEF Operate, SetSpeed, SetReset, SetConfig, SetPins, Pins
<1> QED
  BY <1>2, <1>3, <1>4, <1>5, <1>6, <1>7, <1>8, <1>9 DEF Others, Transact

\* A step of the loop is the sequencer's or another's.
LEMMA LoopSteps == SystemNext <=> Control \/ Others
  BY DEF SystemNext, Others

-----------------------------------------------------------------------------
(* The invariant of the loop *)

LEMMA ListLength == Len(CommandList) = 7
  BY DEF CommandList

LEMMA TurnAdvances == BusOK => (bus.next % Len(CommandList)) + 1 \in 1 .. Len(CommandList)
  BY ListLength DEF BusOK

LEMMA InitLoopInv == SystemInit => LoopInv
<1> SUFFICES ASSUME SystemInit PROVE LoopInv
  OBVIOUS
<1>1. BusOK /\ \A c \in Commands : ~Disabled(c)
  BY ErrorThresholdAssumption, ListLength DEF SystemInit, BusOK, Disabled
<1> QED
  BY <1>1, InitIInv, InitialDrivesAssumption DEF SystemInit, LoopInv, Joined

\* Only the bus's own steps change its record, and it counts no error past the threshold.
LEMMA BusTypeInv == LoopInv /\ [SystemNext]_systemVars => BusOK'
<1> SUFFICES ASSUME LoopInv, [SystemNext]_systemVars
             PROVE  BusOK'
  OBVIOUS
<1> DEFINE Buses == [suspended : BOOLEAN, next : 1 .. Len(CommandList),
                     errors : [Commands -> 0 .. ErrorThreshold]]
           advanced == Advance(bus)
<1>1. /\ BusOK /\ advanced \in Buses
      /\ advanced.errors = bus.errors
  BY TurnAdvances DEF LoopInv, BusOK, Advance
<1>2. 0 \in 0 .. ErrorThreshold
  BY ErrorThresholdAssumption
<1>3. CASE UNCHANGED bus
  BY <1>1, <1>3 DEF BusOK
<1>4. CASE ReleaseBus
  BY <1>1, <1>4 DEF ReleaseBus, BusOK
<1>5. CASE ResetBus
  <2>1. bus' = [bus EXCEPT !.errors = [c \in Commands |-> 0]]
    BY <1>5 DEF ResetBus
  <2>2. [c \in Commands |-> 0] \in [Commands -> 0 .. ErrorThreshold]
    BY ErrorThresholdAssumption
  <2> QED
    BY <1>1, <2>1, <2>2 DEF BusOK
<1>6. ASSUME NEW c \in Commands, Succeed(c)
      PROVE  BusOK'
  <2>1. bus' = [advanced EXCEPT !.errors[c] = 0]
    BY <1>6 DEF Succeed
  <2> HIDE DEF advanced
  <2> QED
    BY <1>1, <1>2, <2>1 DEF BusOK
<1>7. ASSUME NEW c \in Commands, Fail(c)
      PROVE  BusOK'
  <2>1. bus' = [advanced EXCEPT !.errors[c] = @ + 1] /\ bus.errors[c] # ErrorThreshold
    BY <1>7 DEF Fail, Disabled
  <2> HIDE DEF advanced
  <2>2. bus.errors[c] + 1 \in 0 .. ErrorThreshold
    BY <1>1, <2>1, ErrorThresholdAssumption DEF BusOK
  <2> QED
    BY <1>1, <2>1, <2>2 DEF BusOK
<1>8. ASSUME NEW c \in Commands, Skip(c)
      PROVE  BusOK'
  <2>1. bus' = Advance(bus)
    BY <1>8 DEF Skip
  <2> QED
    BY <1>1, <2>1 DEF BusOK
<1> QED
  BY <1>3, <1>4, <1>5, <1>6, <1>7, <1>8
  DEF SystemNext, Transact, Control, Ramp, LeaveOperation, Trip, SetDrive, RequestMotion,
      Operate, systemVars

\* The drive keeps its type: what it is given is what the sequencer publishes.
LEMMA DriveTypeInv == LoopInv /\ [SystemNext]_systemVars => (drive \in Drives)'
<1> SUFFICES ASSUME LoopInv, [SystemNext]_systemVars
             PROVE  drive' \in Drives
  OBVIOUS
<1>1. drive \in Drives /\ out \in Output
  BY DEF LoopInv, IInv, TypeOK
<1>2. CASE UNCHANGED drive
  BY <1>1, <1>2
<1>3. ASSUME NEW c \in Commands, Succeed(c)
      PROVE  drive' \in Drives
  <2>1. CASE c = "Control"
    BY <1>1, <1>3, <2>1 DEF Succeed, Delivered, Obey, Drives, Output, ControlWords
  <2>2. CASE c = "Frequency"
    BY <1>1, <1>3, <2>2 DEF Succeed, Delivered, Drives, Output
  <2>3. CASE c \notin {"Control", "Frequency"}
    BY <1>1, <1>3, <2>3 DEF Succeed, Delivered
  <2> QED
    BY <2>1, <2>2, <2>3
<1>4. CASE Ramp
  <2>1. \A f \in Frequencies, sign \in {-1, 1} : sign * f \in Int
    BY FrequenciesAssumption
  <2> QED
    BY <1>1, <1>4, <2>1 DEF Ramp, SetDrive, Drives
<1>5. CASE LeaveOperation
  BY <1>1, <1>5 DEF LeaveOperation, SetDrive, Drives
<1>6. CASE Trip
  BY <1>1, <1>6, DriveFaultsAssumption DEF Trip, SetDrive, Drives
<1> QED
  BY <1>2, <1>3, <1>4, <1>5, <1>6 DEF SystemNext, Transact, Control, ReleaseBus, Fail, Skip,
                                      ResetBus, RequestMotion, Operate, systemVars

\* The step that disables a command joins it into the pins, and only the reset that
\* enables every command takes it out.
LEMMA JoinedInv == LoopInv /\ [SystemNext]_systemVars => Joined'
<1> SUFFICES ASSUME LoopInv, [SystemNext]_systemVars
             PROVE  Joined'
  OBVIOUS
<1>1. pins \in Pins /\ pins.link \in Link /\ Joined
  BY DEF LoopInv, IInv, TypeOK, Pins
<1>2. CASE UNCHANGED <<bus, pins.link>>
  BY <1>1, <1>2 DEF Joined, Disabled
<1>3. CASE ReleaseBus
  BY <1>1, <1>3 DEF ReleaseBus, SetPins, Pins, Link, Joined, Disabled, LoopInv, BusOK
<1>4. CASE ResetBus
  <2>1. \A c \in Commands : ~Disabled(c)'
    BY <1>4, ErrorThresholdAssumption DEF ResetBus, LoopInv, BusOK, Disabled
  <2> QED
    BY <2>1 DEF Joined
<1>5. ASSUME NEW c \in Commands, Succeed(c)
      PROVE  Joined'
  <2>1. \A d \in Commands : Disabled(d)' => Disabled(d)
    BY <1>5, ErrorThresholdAssumption DEF Succeed, Advance, LoopInv, BusOK, Disabled
  <2>2. pins'.link = pins.link
    BY <1>1, <1>5 DEF Succeed, Fetched, SetPins, Pins
  <2> QED
    BY <1>1, <2>1, <2>2 DEF Joined
<1>6. ASSUME NEW c \in Commands, Fail(c)
      PROVE  Joined'
  <2>1. \A d \in Commands : Disabled(d)' =>
           Disabled(d) \/ bus.errors[c] + 1 = ErrorThreshold
    BY <1>6 DEF Fail, Advance, LoopInv, BusOK, Disabled
  <2>2. PICK raised \in BOOLEAN :
          pins' = [pins EXCEPT !.link.link_fault = @ \/ raised,
                               !.link.any_command_disabled =
                                   @ \/ bus.errors[c] + 1 = ErrorThreshold]
    BY <1>6 DEF Fail, SetPins
  <2>3. pins'.link.any_command_disabled =
           (pins.link.any_command_disabled \/ bus.errors[c] + 1 = ErrorThreshold)
    BY <1>1, <2>2 DEF Pins, Link
  <2> QED
    BY <1>1, <2>1, <2>3 DEF Joined
<1>7. ASSUME NEW c \in Commands, Skip(c)
      PROVE  Joined'
  BY <1>1, <1>7 DEF Skip, Advance, LoopInv, BusOK, Joined, Disabled, vars
<1>8. CASE Control
  <2>1. UNCHANGED pins
    <3>1. \A d, control, frequency : Commit(d, control, frequency) => UNCHANGED pins
      BY DEF Commit
    <3> QED
      BY <1>8, <3>1 DEF Control, Cycle, Dispatch, HoldStopped, BeginArming, AwaitReadback,
                        StartRotation, AwaitSpeed, VerifySpeed, AwaitStop, FinishStop, HoldFault
  <2> QED
    BY <1>2, <1>8, <2>1 DEF Control
<1>9. CASE RequestMotion \/ Operate
  BY <1>1, <1>2, <1>9 DEF RequestMotion, Operate, SetRequest, SetSpeed, SetReset, SetConfig,
                          SetPins, Pins
<1>10. CASE Ramp \/ LeaveOperation \/ Trip \/ UNCHANGED systemVars
  BY <1>2, <1>10 DEF Ramp, LeaveOperation, Trip, SetDrive, systemVars, vars
<1> QED
  BY <1>3, <1>4, <1>5, <1>6, <1>7, <1>8, <1>9, <1>10 DEF SystemNext, Transact

LEMMA SystemLoopInv == SystemSpec => []LoopInv
<1>1. LoopInv /\ [SystemNext]_systemVars => LoopInv'
  <2> SUFFICES ASSUME LoopInv, [SystemNext]_systemVars PROVE LoopInv'
    OBVIOUS
  <2>1. IInv'
    BY LoopSteps, OthersPins, PinsIInv, CycleIInv DEF LoopInv, Control
  <2> QED
    BY <2>1, BusTypeInv, DriveTypeInv, JoinedInv DEF LoopInv
<1> QED
  BY InitLoopInv, <1>1, PTL DEF SystemSpec

-----------------------------------------------------------------------------
(* Theorems about every step *)

\* The bus counts no error past the threshold, the drive is given numbers only, and the
\* sequencer's variables keep their types in the loop.
THEOREM SystemTypes == SystemSpec => []SystemTypeOK
<1>1. LoopInv => SystemTypeOK
  BY DEF LoopInv, IInv, SystemTypeOK, BusOK
<1> QED
  BY <1>1, SystemLoopInv, PTL

\* A cycle that publishes ready found every command of the list below the threshold: a
\* command the driver has given up cannot leave its last values looking ready.
THEOREM SystemReadyIsFresh == SystemSpec => ReadyIsFresh
<1> DEFINE Goal == CycleStep /\ out'.ready => \A c \in Commands : ~Disabled(c)
<1>1. LoopInv /\ [SystemNext]_systemVars => [Goal]_vars
  <2> SUFFICES ASSUME LoopInv, [SystemNext]_systemVars, ~(UNCHANGED vars), CycleStep, out'.ready
               PROVE  \A c \in Commands : ~Disabled(c)
    BY DEF CycleStep
  <2>1. Cycle
    BY LoopSteps, OthersPins DEF CycleStep, vars, Control, systemVars
  <2>2. Preconditions
    BY <2>1, ReadyCycle DEF LoopInv
  <2> QED
    BY <2>2 DEF LoopInv, Joined, Preconditions
<1> QED
  BY <1>1, SystemLoopInv, PTL DEF SystemSpec, ReadyIsFresh

-----------------------------------------------------------------------------
(* What is known of the drive in each phase of a run *)

output_frequency == pins.feedback.output_frequency

\* A drive told STOP, and one that has tripped, come to rest by themselves.
Halted == drive.word = CONTROL_STOP \/ drive.fault # 0

Commanded == drive.word = RunWord(ctx) /\ drive.reverse = (drive.word = CONTROL_REVERSE)

RightWay == (drive.spin > 0 => ~drive.reverse) /\ (drive.spin < 0 => drive.reverse)

Resting == AtRest /\ stopped_feedback /\ out.main_control = CONTROL_STOP

\* Feedback can show only what the drive does since it was commanded.
Begun ==
    /\ ctx.state \in {"Starting", "Running"}
    /\ \/ AtRest
       \/ /\ Commanded /\ RightWay
          /\ Halted \/ (drive.operating /\ (drive.spin # 0 => drive.given # 0))
    /\ is_running => Commanded
    /\ output_frequency # 0 => Commanded /\ (Halted \/ drive.spin # 0)

\* A drive that is not halted is seen to turn, so that rest is seen only in one that is.
Seen ==
    /\ ctx.state \in {"Starting", "Running", "Stopping"}
    /\ out.given_frequency # 0
    /\ ctx.state # "Stopping" => Commanded
    /\ Halted \/ (RightWay /\ drive.operating /\ drive.spin # 0 /\ drive.given # 0)
    /\ output_frequency = 0 => Halted /\ drive.spin = 0
    /\ ~is_running => Halted /\ ~drive.operating

Phase ==
    /\ run \in RunPhases
    /\ run = "rest" => Resting
    /\ run = "begun" => Begun
    /\ run = "seen" => Seen

\* A gate stops a context or leaves its state alone.
LEMMA GatedState ==
    ASSUME TypeOK, Good(ctx)
    PROVE  Gated.state \in {ctx.state, "Stopping"} /\ Gated.held_reverse = ctx.held_reverse
<1>1. Sampled.state \in {ctx.state, "Stopping"}
  BY SampledGood
<1>2. (Gated = Sampled \/ Gated.state = "Stopping") /\ Gated.held_reverse = ctx.held_reverse
  BY GatedGood DEF Stopped, SameHold
<1> QED
  BY <1>1, <1>2

\* Where a cycle goes from the state it found after its gates.
LEMMA CycleOutcome ==
    ASSUME IInv, Cycle
    PROVE  /\ UNCHANGED <<pins, config>>
           /\ out'.state = ctx'.state
           /\ out'.at_speed = (~request.run_request \/ ctx'.state = "Running")
           /\ \/ Gated.state = "Stopped" /\ ctx'.state = "Stopped"
              \/ /\ Gated.state = "Stopped" /\ run_enabled
                 /\ ctx'.state = "Arming" /\ ctx'.held_reverse = requested_reverse
              \/ /\ Gated.state = "Arming" /\ ctx'.state = "Arming"
                 /\ ctx'.held_reverse = ctx.held_reverse
              \/ /\ Gated.state \in ActiveStates /\ ctx'.state = "Starting"
                 /\ ctx'.held_reverse = ctx.held_reverse
              \/ /\ Gated.state \in {"Starting", "Running"} /\ ctx'.state = "Running"
                 /\ ctx'.held_reverse = ctx.held_reverse /\ SpeedVerified
              \/ /\ Gated.state = "Stopping" /\ ctx'.state = "Stopping"
                 /\ ~stopped_feedback /\ out'.given_frequency = out.given_frequency
              \/ /\ Gated.state = "Stopping" /\ ctx'.state \in {"Stopped", "Fault"}
                 /\ stopped_feedback
              \/ Gated.state = "Fault" /\ ctx'.state = "Fault"
<1> DEFINE c == Gated
<1>1. TypeOK /\ Good(ctx) /\ out.given_frequency = ctx.held_frequency
  BY DEF IInv
<1>2. /\ c \in Context /\ c.held_reverse = ctx.held_reverse
      /\ c.held_frequency = ctx.held_frequency /\ Dispatch(c)
  BY <1>1, GatedGood DEF Good, SameHold, Cycle
<1> HIDE DEF c
<1>3. \A d, control, frequency :
        Commit(d, control, frequency) =>
          /\ UNCHANGED <<pins, config>> /\ ctx' = d /\ out'.state = ctx'.state
          /\ out'.given_frequency = frequency
          /\ out'.at_speed = (~request.run_request \/ ctx'.state = "Running")
  BY DEF Commit
<1>4. \A state : /\ Hold(c, state).state = state
                 /\ Hold(c, state).held_reverse = c.held_reverse
  BY <1>2 DEF Hold, Context
<1>5. [Hold(c, "Arming") EXCEPT !.held_reverse = requested_reverse].state = "Arming"
      /\ [Hold(c, "Arming") EXCEPT !.held_reverse = requested_reverse].held_reverse
            = requested_reverse
  BY <1>2 DEF Hold, Context
<1>6. /\ Release(c).state = c.state
      /\ \A state : [Release(c) EXCEPT !.state = state].state = state
  BY <1>2 DEF Release, Context
<1>7. CASE HoldStopped(c)
  BY <1>3, <1>6, <1>7 DEF HoldStopped, c
<1>8. CASE BeginArming(c)
  BY <1>3, <1>5, <1>8 DEF BeginArming, c
<1>9. CASE AwaitReadback(c)
  BY <1>2, <1>3, <1>4, <1>9 DEF AwaitReadback, c
<1>10. CASE StartRotation(c)
  BY <1>2, <1>3, <1>4, <1>10 DEF StartRotation, ActiveStates, c
<1>11. CASE AwaitSpeed(c)
  BY <1>2, <1>3, <1>4, <1>11 DEF AwaitSpeed, ActiveStates, c
<1>12. CASE VerifySpeed(c)
  BY <1>2, <1>3, <1>4, <1>12 DEF VerifySpeed, c
<1>13. CASE AwaitStop(c)
  BY <1>1, <1>2, <1>3, <1>13 DEF AwaitStop, c
<1>14. CASE FinishStop(c)
  <2> DEFINE rest == IF c.fault_latched THEN "Fault" ELSE "Stopped"
             r == [Release(c) EXCEPT !.state = rest]
  <2>1. /\ c.state = "Stopping" /\ stopped_feedback /\ rest \in {"Stopped", "Fault"}
        /\ Commit(r, CONTROL_STOP, 0)
    BY <1>14 DEF FinishStop
  <2> HIDE DEF rest
  <2>2. r.state = rest
    BY <1>6
  <2> HIDE DEF r
  <2>3. ctx' = r /\ out'.state = ctx'.state /\ UNCHANGED <<pins, config>>
        /\ out'.at_speed = (~request.run_request \/ ctx'.state = "Running")
    BY <1>3, <2>1
  <2> QED
    BY <2>1, <2>2, <2>3 DEF c
<1>15. CASE HoldFault(c)
  BY <1>3, <1>6, <1>15 DEF HoldFault, c
<1> QED
  BY <1>2, <1>7, <1>8, <1>9, <1>10, <1>11, <1>12, <1>13, <1>14, <1>15 DEF Dispatch

\* A run word is published in the states that turn the spindle.
LEMMA RunStates ==
    ASSUME IInv
    PROVE  /\ out.main_control # CONTROL_STOP <=> ctx.state \in {"Starting", "Running"}
           /\ ctx.state \in {"Starting", "Running"} =>
                out.main_control = RunWord(ctx) /\ out.given_frequency # 0
           /\ RunWord(ctx) \in {CONTROL_FORWARD, CONTROL_REVERSE}
           /\ CONTROL_STOP \notin {CONTROL_FORWARD, CONTROL_REVERSE}
           /\ CONTROL_FORWARD # CONTROL_REVERSE
<1>1. /\ RunWord(ctx) \in {CONTROL_FORWARD, CONTROL_REVERSE}
      /\ CONTROL_STOP \notin {CONTROL_FORWARD, CONTROL_REVERSE}
      /\ CONTROL_FORWARD # CONTROL_REVERSE
  BY DEF RunWord, CONTROL_FORWARD, CONTROL_REVERSE, CONTROL_STOP
<1>2. ctx.state \in {"Starting", "Running"} => out.given_frequency # 0
  BY DEF IInv, Good, Held, ActiveStates
<1> QED
  BY <1>1, <1>2 DEF IInv, RunWordJustified

\* Among the pins the phases depend on the feedback alone.
LEMMA PhaseFrame ==
    ASSUME Phase, UNCHANGED <<ctx, out, drive, run>>, pins'.feedback = pins.feedback
    PROVE  Phase'
<1>1. /\ is_running' = is_running /\ output_frequency' = output_frequency
      /\ stopped_feedback' = stopped_feedback /\ AtRest' = AtRest /\ Halted' = Halted
      /\ Commanded' = Commanded /\ RightWay' = RightWay
  BY DEF is_running, output_frequency, stopped_feedback, AtRest, Halted, Commanded, RightWay,
         RunWord
<1> QED
  BY <1>1 DEF Phase, Resting, Begun, Seen

\* A read of the frequency, or of the status, shows what the drive does by then.
LEMMA FetchedPhase ==
    ASSUME Phase, drive \in Drives, UNCHANGED <<ctx, out, drive, run>>,
           \/ (output_frequency' # 0) = (drive.spin # 0) /\ is_running' = is_running
           \/ is_running' = drive.operating /\ output_frequency' = output_frequency
    PROVE  Phase'
<1>1. /\ AtRest' = AtRest /\ Halted' = Halted
      /\ Commanded' = Commanded /\ RightWay' = RightWay
  BY DEF AtRest, Halted, Commanded, RightWay, RunWord
<1>2. /\ stopped_feedback = (~is_running /\ output_frequency = 0)
      /\ stopped_feedback' = (~is_running' /\ output_frequency' = 0)
      /\ AtRest => drive.spin = 0 /\ ~drive.operating
  BY DEF stopped_feedback, output_frequency, AtRest
<1>3. Resting => Resting'
  BY <1>1, <1>2 DEF Resting
<1>4. Begun => Begun'
  BY <1>1, <1>2 DEF Begun
<1>5. Seen => Seen'
  BY <1>1 DEF Seen
<1> QED
  BY <1>3, <1>4, <1>5 DEF Phase

\* The drive that is delivered a control word obeys it.
LEMMA ControlPhase ==
    ASSUME LoopInv, Phase, UNCHANGED <<pins, ctx, out, run>>, drive' = Obey(out.main_control)
    PROVE  Phase'
<1>1. drive \in Drives /\ IInv
  BY DEF LoopInv
<1>2. /\ stopped_feedback' = stopped_feedback /\ is_running' = is_running
      /\ output_frequency' = output_frequency /\ RunWord(ctx)' = RunWord(ctx)
  BY DEF stopped_feedback, is_running, output_frequency, RunWord
<1>3. CASE ctx.state \in {"Starting", "Running"}
  <2>1. /\ out.main_control = RunWord(ctx) /\ RunWord(ctx) # CONTROL_STOP
        /\ run \notin {"rest"}
    BY <1>1, <1>3, RunStates DEF Phase, Resting
  <2>2. /\ drive'.word = RunWord(ctx) /\ drive'.reverse = (RunWord(ctx) = CONTROL_REVERSE)
        /\ drive'.operating = (drive.fault = 0) /\ drive'.fault = drive.fault
        /\ drive'.spin = drive.spin /\ drive'.given = drive.given
    BY <1>1, <2>1 DEF Obey, Drives
  <2>3. Commanded' /\ (Halted' <=> drive.fault # 0)
    BY <1>2, <2>1, <2>2 DEF Commanded, Halted
  <2>4. (Commanded \/ drive.spin = 0) /\ RightWay => RightWay'
    BY <1>1, <2>2 DEF Commanded, RightWay, Drives
  <2>5. AtRest => RightWay /\ drive.spin = 0
    BY <1>1 DEF AtRest, RightWay, Drives
  <2>6. Begun => Begun'
    <3> SUFFICES ASSUME Begun PROVE Begun'
      OBVIOUS
    <3>1. RightWay' /\ (Halted' \/ (drive'.operating /\ (drive'.spin # 0 => drive'.given # 0)))
      BY <2>1, <2>2, <2>3, <2>4, <2>5 DEF Begun, Halted, Commanded
    <3>2. output_frequency # 0 => Halted' \/ drive'.spin # 0
      BY <2>1, <2>2, <2>3 DEF Begun, Halted, Commanded
    <3> QED
      BY <1>2, <2>3, <3>1, <3>2 DEF Begun
  <2>7. Seen => Seen'
    <3> SUFFICES ASSUME Seen PROVE Seen'
      OBVIOUS
    <3>1. Commanded /\ (Halted <=> drive.fault # 0)
      BY <1>3, <2>1 DEF Seen, Commanded, Halted
    <3>2. Halted' <=> Halted
      BY <2>3, <3>1
    <3>3. Halted' => ~drive'.operating
      BY <2>2, <2>3
    <3> QED
      BY <1>2, <2>2, <2>3, <2>4, <3>1, <3>2, <3>3 DEF Seen
  <2> QED
    BY <2>1, <2>6, <2>7 DEF Phase
<1>4. CASE ctx.state \notin {"Starting", "Running"}
  <2>1. out.main_control = CONTROL_STOP
    BY <1>1, <1>4, RunStates
  <2>2. /\ drive'.word = CONTROL_STOP /\ drive'.operating = drive.operating
        /\ drive'.spin = drive.spin
    BY <1>1, <2>1 DEF Obey, Drives
  <2>3. Halted' /\ (AtRest => AtRest')
    BY <2>2 DEF Halted, AtRest
  <2>4. Resting => Resting'
    BY <1>2, <2>3 DEF Resting
  <2>5. Seen => Seen'
    BY <1>2, <1>4, <2>2, <2>3 DEF Seen
  <2> QED
    BY <1>4, <2>4, <2>5 DEF Phase, Begun
<1> QED
  BY <1>3, <1>4

\* While the drive is not halted, the frequency it is delivered is not zero.
LEMMA FrequencyPhase ==
    ASSUME LoopInv, Phase, UNCHANGED <<pins, ctx, out, run>>,
           drive' = [drive EXCEPT !.given = out.given_frequency]
    PROVE  Phase' /\ (run # "lost" /\ ~Halted => out.given_frequency # 0)
<1>1. drive \in Drives /\ IInv
  BY DEF LoopInv
<1>2. /\ stopped_feedback' = stopped_feedback /\ is_running' = is_running
      /\ output_frequency' = output_frequency /\ RunWord(ctx)' = RunWord(ctx)
  BY DEF stopped_feedback, is_running, output_frequency, RunWord
<1>3. /\ drive'.word = drive.word /\ drive'.reverse = drive.reverse
      /\ drive'.operating = drive.operating /\ drive'.spin = drive.spin
      /\ drive'.fault = drive.fault /\ drive'.given = out.given_frequency
  BY <1>1 DEF Drives
<1>4. /\ AtRest' = AtRest /\ Halted' = Halted /\ Commanded' = Commanded
      /\ RightWay' = RightWay
  BY <1>2, <1>3 DEF AtRest, Halted, Commanded, RightWay
<1>5. ctx.state \in {"Starting", "Running"} => out.given_frequency # 0
  BY <1>1, RunStates
<1>6. Resting => Resting' /\ Halted
  BY <1>2, <1>4 DEF Resting, AtRest, Halted
<1>7. Begun => Begun' /\ out.given_frequency # 0
  BY <1>2, <1>3, <1>4, <1>5 DEF Begun
<1>8. Seen => Seen' /\ out.given_frequency # 0
  BY <1>2, <1>3, <1>4 DEF Seen
<1> QED
  BY <1>6, <1>7, <1>8 DEF Phase, RunPhases

\* The drive turns the way it is told or comes to rest; it does not pass zero on the way
\* to another frequency.
LEMMA RampPhase ==
    ASSUME LoopInv, Phase, Ramp, run' = run
    PROVE  Phase'
<1>1. drive \in Drives
  BY DEF LoopInv
<1>2. PICK spin \in Int :
         /\ spin # drive.spin
         /\ (drive.spin <= spin /\ spin <= target) \/ (target <= spin /\ spin <= drive.spin)
         /\ SetDrive([drive EXCEPT !.spin = spin])
  <2>1. \A f \in Frequencies, sign \in {-1, 1} : sign * f \in Int
    BY FrequenciesAssumption
  <2>2. PICK f \in Frequencies, sign \in {-1, 1} :
          /\ sign * f # drive.spin
          /\ \/ drive.spin <= sign * f /\ sign * f <= target
             \/ target <= sign * f /\ sign * f <= drive.spin
          /\ SetDrive([drive EXCEPT !.spin = sign * f])
    BY DEF Ramp
  <2> DEFINE spin == sign * f
  <2>3. spin \in Int
    BY <2>1
  <2>4. /\ spin # drive.spin
        /\ (drive.spin <= spin /\ spin <= target) \/ (target <= spin /\ spin <= drive.spin)
        /\ SetDrive([drive EXCEPT !.spin = spin])
    BY <2>2
  <2> HIDE DEF spin
  <2> QED
    BY <2>3, <2>4
<1>3. /\ drive'.word = drive.word /\ drive'.reverse = drive.reverse
      /\ drive'.operating = drive.operating /\ drive'.given = drive.given
      /\ drive'.fault = drive.fault
      /\ drive'.spin = spin /\ drive.spin \in Int /\ drive.given \in Nat
      /\ UNCHANGED <<pins, ctx, out>>
  BY <1>1, <1>2 DEF SetDrive, Drives, vars
<1>4. /\ stopped_feedback' = stopped_feedback /\ is_running' = is_running
      /\ output_frequency' = output_frequency /\ Halted' = Halted
      /\ Commanded' = Commanded
  BY <1>3 DEF stopped_feedback, is_running, output_frequency, Halted, Commanded, RunWord
<1>5. Halted => drive.spin # 0 /\ (RightWay => RightWay')
  <2>1. Halted => target = 0
    BY DEF target, Halted
  <2> QED
    BY <1>2, <1>3, <2>1 DEF RightWay
<1>6. ASSUME ~Halted, RightWay, drive.spin # 0 => drive.given # 0
      PROVE  /\ RightWay' /\ (drive.spin # 0 => spin # 0) /\ drive.given # 0
  <2>1. target = IF drive.reverse THEN -drive.given ELSE drive.given
    BY <1>6 DEF target, Halted
  <2>2. CASE drive.reverse
    BY <1>2, <1>3, <1>6, <2>1, <2>2 DEF RightWay
  <2>3. CASE ~drive.reverse
    BY <1>2, <1>3, <1>6, <2>1, <2>3 DEF RightWay
  <2> QED
    BY <2>2, <2>3
<1>7. ~AtRest
  BY <1>5 DEF AtRest, Halted
<1>8. Begun => Begun'
  BY <1>3, <1>4, <1>5, <1>6, <1>7 DEF Begun
<1>9. Seen => Seen'
  BY <1>3, <1>4, <1>5, <1>6 DEF Seen
<1> QED
  BY <1>7, <1>8, <1>9 DEF Phase, Resting

\* The operating bit drops after a STOP, or by a trip.
LEMMA HaltPhase ==
    ASSUME LoopInv, Phase, LeaveOperation \/ Trip, run' = run
    PROVE  Phase'
<1>1. drive \in Drives
  BY DEF LoopInv
<1>2. /\ drive'.word = drive.word /\ drive'.reverse = drive.reverse
      /\ drive'.operating = FALSE /\ drive'.spin = drive.spin /\ drive'.given = drive.given
      /\ drive'.word = CONTROL_STOP \/ drive'.fault # 0
      /\ drive.fault # 0 => drive'.fault # 0
      /\ UNCHANGED <<pins, ctx, out>>
  BY <1>1, DriveFaultsAssumption DEF LeaveOperation, Trip, SetDrive, Drives, vars
<1>3. /\ stopped_feedback' = stopped_feedback /\ is_running' = is_running
      /\ output_frequency' = output_frequency
      /\ Commanded' = Commanded /\ RightWay' = RightWay /\ (AtRest => AtRest') /\ Halted'
  BY <1>2 DEF stopped_feedback, is_running, output_frequency, Commanded, RightWay, AtRest,
              Halted, RunWord
<1>4. Resting => Resting'
  BY <1>2, <1>3 DEF Resting
<1>5. Begun => Begun'
  BY <1>2, <1>3 DEF Begun
<1>6. Seen => Seen'
  BY <1>2, <1>3 DEF Seen
<1> QED
  BY <1>2, <1>4, <1>5, <1>6 DEF Phase

\* A cycle moves from phase to phase: a run begins in a drive that is seen to rest, and
\* ends, where its rotation was seen, when the feedback shows rest again.
LEMMA CyclePhase ==
    ASSUME LoopInv, Phase, Control, Follow
    PROVE  Phase'
<1>1. TypeOK /\ Good(ctx) /\ IInv /\ Cycle /\ IInv'
  BY CycleIInv DEF LoopInv, IInv, Control
<1>2. UNCHANGED <<pins, drive>>
  BY <1>1, CycleOutcome DEF Control
<1>3. /\ stopped_feedback' = stopped_feedback /\ is_running' = is_running
      /\ output_frequency' = output_frequency
      /\ AtRest' = AtRest /\ Halted' = Halted /\ RightWay' = RightWay
  BY <1>2 DEF stopped_feedback, is_running, output_frequency, AtRest, Halted, RightWay
<1>4. /\ RunWordStands <=> ctx'.state \in {"Starting", "Running"}
      /\ ctx'.state \in {"Starting", "Running"} => out'.given_frequency # 0
  <2>1. RunWord(ctx)' \in {CONTROL_FORWARD, CONTROL_REVERSE}
    BY DEF RunWord
  <2>2. CONTROL_STOP \notin {CONTROL_FORWARD, CONTROL_REVERSE}
    BY DEF CONTROL_FORWARD, CONTROL_REVERSE, CONTROL_STOP
  <2>3. ctx'.state \in {"Starting", "Running"} => out'.given_frequency # 0
    BY <1>1 DEF IInv, Good, Held, ActiveStates
  <2> QED
    BY <1>1, <2>1, <2>2, <2>3 DEF IInv, RunWordJustified, RunWordStands
<1>5. ctx'.held_reverse = ctx.held_reverse => Commanded' = Commanded
  BY <1>2 DEF Commanded, RunWord
<1>6. Gated.state \in {ctx.state, "Stopping"} /\ ctx.state \in States
  BY <1>1, GatedState DEF TypeOK, Context
<1>7. stopped_feedback = (~is_running /\ output_frequency = 0)
      /\ turning_feedback = (is_running /\ output_frequency # 0)
  BY DEF stopped_feedback, turning_feedback, output_frequency
<1>8. CASE run = "rest"
  <2>1. Resting
    BY <1>8 DEF Phase
  <2>2. CASE RunWordStands
    <3>1. run' = "begun" /\ Begun'
      BY <1>3, <1>4, <1>7, <1>8, <2>1, <2>2 DEF Follow, Resting, Begun
    <3> QED
      BY <3>1 DEF Phase, RunPhases
  <2>3. CASE ~RunWordStands
    <3>1. run' = "rest" /\ Resting'
      BY <1>3, <1>8, <2>1, <2>3 DEF Follow, Resting, RunWordStands
    <3> QED
      BY <3>1 DEF Phase, RunPhases
  <2> QED
    BY <2>2, <2>3
<1>9. CASE run = "begun"
  <2>1. Begun /\ ctx.state \in {"Starting", "Running"}
    BY <1>9 DEF Phase, Begun
  <2>2. CASE turning_feedback
    <3>1. run' = "seen" /\ Commanded /\ (Halted \/ drive.spin # 0)
      BY <1>7, <1>9, <2>1, <2>2 DEF Follow, Begun
    <3>2. Halted \/ (RightWay /\ drive.operating /\ drive.spin # 0 /\ drive.given # 0)
      BY <2>1, <3>1 DEF Begun, AtRest
    <3>3. /\ ctx'.state \in {"Starting", "Running", "Stopping"}
          /\ ctx'.state # "Stopping" => ctx'.held_reverse = ctx.held_reverse
          /\ ctx'.state = "Stopping" => out'.given_frequency = out.given_frequency
      BY <1>1, <1>6, <1>7, <2>1, <2>2, CycleOutcome DEF ActiveStates
    <3>4. out'.given_frequency # 0
      BY <1>1, <1>4, <2>1, <3>3, RunStates
    <3>5. Seen'
      BY <1>2, <1>3, <1>5, <1>7, <2>2, <3>1, <3>2, <3>3, <3>4 DEF Seen
    <3> QED
      BY <3>1, <3>5 DEF Phase, RunPhases
  <2>3. CASE ~turning_feedback /\ RunWordStands
    <3>1. run' = "begun"
      BY <1>9, <2>3 DEF Follow
    <3>2. ctx'.state \in {"Starting", "Running"} /\ ctx'.held_reverse = ctx.held_reverse
      BY <1>1, <1>4, <2>3, CycleOutcome
    <3>3. Begun'
      BY <1>2, <1>3, <1>5, <2>1, <3>2 DEF Begun
    <3> QED
      BY <3>1, <3>3 DEF Phase, RunPhases
  <2>4. CASE ~turning_feedback /\ ~RunWordStands
    BY <1>9, <2>4 DEF Follow, Phase, RunPhases
  <2> QED
    BY <2>2, <2>3, <2>4
<1>10. CASE run = "seen"
  <2>1. Seen
    BY <1>10 DEF Phase
  <2>2. CASE ctx'.state \in {"Stopped", "Fault"}
    <3>1. run' = "rest"
      BY <1>10, <2>2 DEF Follow
    <3>2. stopped_feedback
      BY <1>1, <1>6, <2>1, <2>2, CycleOutcome DEF Seen
    <3>3. AtRest
      BY <1>7, <2>1, <3>2 DEF Seen, AtRest, Halted
    <3>4. out'.main_control = CONTROL_STOP
      BY <1>4, <2>2 DEF RunWordStands
    <3> QED
      BY <1>3, <3>1, <3>2, <3>3, <3>4 DEF Phase, RunPhases, Resting
  <2>3. CASE ctx'.state \notin {"Stopped", "Fault"}
    <3>1. run' = "seen"
      BY <1>10, <2>3 DEF Follow
    <3>2. /\ ctx'.state \in {"Starting", "Running", "Stopping"}
          /\ ctx'.state # "Stopping" =>
                ctx'.held_reverse = ctx.held_reverse /\ ctx.state # "Stopping"
          /\ ctx'.state = "Stopping" => out'.given_frequency = out.given_frequency
      BY <1>1, <1>6, <2>1, <2>3, CycleOutcome DEF Seen, ActiveStates
    <3>3. out'.given_frequency # 0
      BY <1>4, <2>1, <3>2 DEF Seen
    <3>4. Seen'
      BY <1>2, <1>3, <1>5, <2>1, <3>2, <3>3 DEF Seen
    <3> QED
      BY <3>1, <3>4 DEF Phase, RunPhases
  <2> QED
    BY <2>2, <2>3
<1>11. CASE run = "lost"
  <2>1. CASE AtRest /\ stopped_feedback /\ ~RunWordStands
    <3>1. run' = "rest"
      BY <1>11, <2>1 DEF Follow
    <3> QED
      BY <1>3, <2>1, <3>1 DEF Phase, RunPhases, Resting, RunWordStands
  <2>2. CASE ~(AtRest /\ stopped_feedback /\ ~RunWordStands)
    <3>1. run' = "lost"
      BY <1>11, <2>2 DEF Follow
    <3> QED
      BY <3>1 DEF Phase, RunPhases
  <2> QED
    BY <2>1, <2>2
<1> QED
  BY <1>8, <1>9, <1>10, <1>11 DEF Phase, RunPhases

\* What the other parties do leaves what is known of the drive true.
LEMMA SucceedPhase ==
    ASSUME LoopInv, Phase, NEW c \in Commands, Succeed(c), run' = run
    PROVE  Phase'
<1>1. pins \in Pins /\ pins.feedback \in Feedback /\ drive \in Drives
  BY DEF LoopInv, IInv, TypeOK, Pins
<1>2. PICK p \in Fetched(c) : pins' = p
  BY DEF Succeed, SetPins
<1>3. drive' = Delivered(c) /\ UNCHANGED <<ctx, out>>
  BY DEF Succeed, SetPins
<1>4. CASE c = "OutputFrequency"
  <2>1. /\ pins'.feedback.output_frequency = Magnitude(drive.spin)
        /\ pins'.feedback.main_status = pins.feedback.main_status
    BY <1>1, <1>2, <1>4 DEF Fetched, Pins, Feedback
  <2>2. (Magnitude(drive.spin) # 0) = (drive.spin # 0)
    BY <1>1 DEF Magnitude, Drives
  <2>3. (output_frequency' # 0) = (drive.spin # 0) /\ is_running' = is_running
    BY <2>1, <2>2 DEF output_frequency, is_running
  <2>4. drive' = drive
    BY <1>3, <1>4 DEF Delivered
  <2> QED
    BY <1>1, <1>3, <2>3, <2>4, FetchedPhase
<1>5. CASE c = "MainStatus"
  <2>1. /\ pins'.feedback.output_frequency = pins.feedback.output_frequency
        /\ pins'.feedback.main_status = main_status
    BY <1>1, <1>2, <1>5 DEF Fetched, Pins, Feedback
  <2>2. ("InOperation" \in main_status) = drive.operating
    BY <1>1 DEF main_status, Drives
  <2>3. is_running' = drive.operating /\ output_frequency' = output_frequency
    BY <2>1, <2>2 DEF output_frequency, is_running
  <2>4. drive' = drive
    BY <1>3, <1>5 DEF Delivered
  <2> QED
    BY <1>1, <1>3, <2>3, <2>4, FetchedPhase
<1>6. CASE c = "CurrentFault"
  <2>1. /\ pins'.feedback.output_frequency = pins.feedback.output_frequency
        /\ pins'.feedback.main_status = pins.feedback.main_status
    BY <1>1, <1>2, <1>6 DEF Fetched, Pins, Feedback
  <2>2. /\ drive' = drive /\ is_running' = is_running /\ output_frequency' = output_frequency
        /\ stopped_feedback' = stopped_feedback
    BY <1>3, <1>6, <2>1 DEF Delivered, output_frequency, is_running, stopped_feedback
  <2>3. /\ AtRest' = AtRest /\ Halted' = Halted
        /\ Commanded' = Commanded /\ RightWay' = RightWay
    BY <1>3, <2>2 DEF AtRest, Halted, Commanded, RightWay, RunWord
  <2> QED
    BY <1>3, <2>2, <2>3 DEF Phase, Resting, Begun, Seen
<1>7. CASE c \in {"Parameters", "Readback"}
  BY <1>1, <1>2, <1>3, <1>7, FetchedPins, PhaseFrame DEF Delivered
<1>8. CASE c \in {"Control", "Frequency"}
  <2>1. pins' = pins
    BY <1>2, <1>8 DEF Fetched
  <2> QED
    BY <1>3, <1>8, <2>1, ControlPhase, FrequencyPhase DEF Delivered
<1>9. Commands = {"Parameters", "OutputFrequency", "CurrentFault", "MainStatus", "Readback",
                  "Control", "Frequency"}
  BY DEF Commands, InOrder, CommandList
<1> QED
  BY <1>4, <1>5, <1>6, <1>7, <1>8, <1>9

LEMMA PhaseStep ==
    ASSUME LoopInv, Phase, [RunsNext]_runVars
    PROVE  Phase'
<1>1. pins \in Pins
  BY DEF LoopInv, IInv, TypeOK
<1>2. CASE Control /\ Follow
  BY <1>2, CyclePhase
<1>3. CASE UNCHANGED runVars
  BY <1>3, PhaseFrame DEF runVars, systemVars, vars
<1>4. CASE Others /\ run' = run
  <2>1. UNCHANGED <<ctx, out>>
    BY <1>4, OthersPins
  <2>2. ASSUME NEW c \in Commands, Succeed(c)
        PROVE  Phase'
    BY <1>4, <2>2, SucceedPhase
  <2>3. CASE Ramp \/ LeaveOperation \/ Trip
    BY <1>4, <2>3, RampPhase, HaltPhase
  <2>4. CASE ReleaseBus \/ ResetBus \/ RequestMotion \/ Operate
    <3>1. drive' = drive
      BY <2>4 DEF ReleaseBus, ResetBus, RequestMotion, Operate
    <3>2. pins'.feedback = pins.feedback
      BY <1>1, <2>4 DEF ReleaseBus, ResetBus, RequestMotion, Operate, SetRequest, SetSpeed,
                        SetReset, SetConfig, SetPins, Pins
    <3> QED
      BY <1>4, <2>1, <3>1, <3>2, PhaseFrame
  <2>5. ASSUME NEW c \in Commands, Fail(c) \/ Skip(c)
        PROVE  Phase'
    <3>1. drive' = drive
      BY <2>5 DEF Fail, Skip
    <3>2. pins'.feedback = pins.feedback
      BY <1>1, <2>5 DEF Fail, Skip, SetPins, Pins, vars
    <3> QED
      BY <1>4, <2>1, <3>1, <3>2, PhaseFrame
  <2> QED
    BY <1>4, <2>2, <2>3, <2>4, <2>5 DEF Others, Transact
<1> QED
  BY <1>2, <1>3, <1>4 DEF RunsNext

LEMMA InitPhase == RunsInit => Phase
<1> SUFFICES ASSUME RunsInit PROVE Phase
  OBVIOUS
<1>1. /\ stopped_feedback /\ out.main_control = CONTROL_STOP
      /\ run = IF AtRest THEN "rest" ELSE "lost"
  BY DEF RunsInit, SystemInit, Init, InitialPins, InitialOutput, stopped_feedback, is_running
<1> QED
  BY <1>1 DEF Phase, RunPhases, Resting

\* The record of the run changes nothing in the loop.
LEMMA RunsIsSystem == RunsSpec => SystemSpec
<1>1. RunsInit => SystemInit
  BY DEF RunsInit
<1>2. [RunsNext]_runVars => [SystemNext]_systemVars
  BY LoopSteps DEF RunsNext, runVars
<1> QED
  BY <1>1, <1>2, PTL DEF RunsSpec, SystemSpec

RunsInv == LoopInv /\ Phase

LEMMA RunsSpecInv == RunsSpec => []RunsInv
<1>1. LoopInv /\ Phase /\ [RunsNext]_runVars => Phase'
  BY PhaseStep
<1> QED
  BY InitPhase, <1>1, RunsIsSystem, SystemLoopInv, PTL DEF RunsSpec, RunsInv

-----------------------------------------------------------------------------
(* What the sequencer reports, and the drive *)

\* A sequencer that reports rest after a run whose rotation was seen, or after none, has
\* a drive that rests: it finished the run on feedback of the rest that followed.
THEOREM SystemRestIsReal == RunsSpec => []RestIsReal
<1>1. RunsInv => RestIsReal
  BY DEF RunsInv, Phase, RunPhases, Resting, Begun, Seen, RestIsReal
<1> QED
  BY <1>1, RunsSpecInv, PTL

\* A step that changes the drive's registers is a write.
LEMMA WritesOnly ==
    ASSUME LoopInv, [RunsNext]_runVars
    PROVE  /\ drive'.reverse # drive.reverse =>
                UNCHANGED <<pins, ctx, out, run>> /\ drive' = Obey(out.main_control)
           /\ drive'.given # drive.given =>
                /\ UNCHANGED <<pins, ctx, out, run>>
                /\ drive' = [drive EXCEPT !.given = out.given_frequency]
<1> DEFINE Goal == /\ drive'.reverse # drive.reverse =>
                        UNCHANGED <<pins, ctx, out, run>> /\ drive' = Obey(out.main_control)
                   /\ drive'.given # drive.given =>
                        /\ UNCHANGED <<pins, ctx, out, run>>
                        /\ drive' = [drive EXCEPT !.given = out.given_frequency]
<1>1. drive \in Drives
  BY DEF LoopInv
<1>2. ASSUME NEW c \in Commands, Succeed(c), run' = run
      PROVE  Goal
  <2>1. drive' = Delivered(c) /\ UNCHANGED <<ctx, out>>
    BY <1>2 DEF Succeed, SetPins
  <2>2. c \in {"Control", "Frequency"} => UNCHANGED pins
    BY <1>2 DEF Succeed, Fetched, SetPins
  <2> QED
    BY <1>1, <1>2, <2>1, <2>2 DEF Delivered, Obey, Drives
<1>3. CASE UNCHANGED drive
  BY <1>3
<1>4. CASE Ramp \/ LeaveOperation \/ Trip
  BY <1>1, <1>4 DEF Ramp, LeaveOperation, Trip, SetDrive, Drives
<1> QED
  BY <1>2, <1>3, <1>4 DEF RunsNext, Others, Transact, Control, ReleaseBus, Fail, Skip, ResetBus,
                          RequestMotion, Operate, runVars, systemVars

\* Only a control word turns the drive's direction, and in every run but a lost one it
\* finds the drive at rest or already turning that way.
THEOREM SystemReversalAfterRest == RunsSpec => ReversalAfterRest
<1> DEFINE Goal == run # "lost" /\ drive'.reverse # drive.reverse
                     => drive.spin = 0 /\ ~drive.operating
<1>1. RunsInv /\ [RunsNext]_runVars => [Goal]_runVars
  <2> SUFFICES ASSUME RunsInv, [RunsNext]_runVars, run # "lost", drive'.reverse # drive.reverse
               PROVE  AtRest
    BY DEF AtRest
  <2>1. LoopInv /\ Phase /\ IInv /\ drive \in Drives
    BY DEF RunsInv, LoopInv
  <2>2. drive' = Obey(out.main_control)
    BY <2>1, WritesOnly
  <2>3. out.main_control # CONTROL_STOP /\ drive'.reverse = (out.main_control = CONTROL_REVERSE)
    BY <2>1, <2>2 DEF Obey, Drives
  <2>4. ctx.state \in {"Starting", "Running"} /\ out.main_control = RunWord(ctx)
    BY <2>1, <2>3, RunStates
  <2>5. ~Commanded
    BY <2>3, <2>4 DEF Commanded
  <2> QED
    BY <2>1, <2>3, <2>4, <2>5 DEF Phase, RunPhases, Resting, Begun, Seen
<1> QED
  BY <1>1, RunsSpecInv, PTL DEF RunsSpec, ReversalAfterRest

\* In every run but a lost one the frequency is cleared only in a drive that has been
\* told STOP, or has tripped.
THEOREM SystemClearAfterStop == RunsSpec => ClearAfterStop
<1> DEFINE Goal == run # "lost" /\ drive'.given = 0 /\ drive.given # 0
                     => drive.word = CONTROL_STOP \/ drive.fault # 0
<1>1. RunsInv /\ [RunsNext]_runVars => [Goal]_runVars
  <2> SUFFICES ASSUME RunsInv, [RunsNext]_runVars, run # "lost", drive'.given = 0,
                      drive.given # 0
               PROVE  Halted
    BY DEF Halted
  <2>1. LoopInv /\ Phase /\ drive \in Drives
    BY DEF RunsInv, LoopInv
  <2>2. /\ UNCHANGED <<pins, ctx, out, run>>
        /\ drive' = [drive EXCEPT !.given = out.given_frequency]
    BY <2>1, WritesOnly
  <2>3. out.given_frequency = 0
    BY <2>1, <2>2 DEF Drives
  <2> QED
    BY <2>1, <2>2, <2>3, FrequencyPhase
<1> QED
  BY <1>1, RunsSpecInv, PTL DEF RunsSpec, ClearAfterStop

\* A cycle that verifies a run has sampled a drive without a fault, and one that turns
\* when the tolerance lies below F011, since no run is slower than F011.
LEMMA VerifiedTurns ==
    ASSUME IInv, Cycle, ctx'.state = "Running", config.tolerance < pins.parameters.F011
    PROVE  /\ ctx.state \in {"Starting", "Running"} /\ ctx'.held_reverse = ctx.held_reverse
           /\ out'.main_control = RunWord(ctx)
           /\ turning_feedback /\ pins.feedback.current_fault = 0
<1> DEFINE p == pins.parameters
           num == pins.speed * config.F004
           margin == config.tolerance * config.rated
           lowest == p.F011 * config.rated
<1>1. TypeOK /\ Good(ctx) /\ IInv'
  BY CycleIInv DEF IInv
<1>2. /\ ctx.state \in {"Starting", "Running"} /\ ctx'.held_reverse = ctx.held_reverse
      /\ SpeedVerified
  BY <1>1, CycleOutcome, GatedState
<1>3. out'.main_control = RunWord(ctx) /\ out'.main_control # CONTROL_STOP
  BY <1>1, <1>2 DEF IInv, RunWordJustified, RunWord, CONTROL_FORWARD, CONTROL_REVERSE,
                    CONTROL_STOP
<1>4. RunConsidered /\ run_reason = "None" /\ Preconditions
  BY <1>1, <1>3, RunCycle, RunReasonCode, BlockedOrReady
<1>5. ~Refuses("BelowF011") /\ pins.speed \in config.minimum .. config.maximum
  <2>1. RequestOrder[7] = "BelowF011" /\ 7 \in DOMAIN RequestOrder
    BY DEF RequestOrder
  <2> QED
    BY <1>1, <1>4, <2>1, RunReasonCode, RequestedFrequency
<1>6. /\ config.rated \in Int /\ config.tolerance \in Int /\ config.F004 \in Nat
      /\ config.minimum \in Int /\ config.maximum \in Int /\ p.F011 \in Nat
      /\ pins.feedback.output_frequency \in Nat
  BY <1>1 DEF TypeOK, Config, Pins, Parameter, Feedback
<1>7. pins.speed \in Int /\ 0 < config.rated
  BY <1>4, <1>5, <1>6 DEF Preconditions
<1>8. num \in Int /\ margin \in Int /\ lowest \in Int
  BY <1>6, <1>7
<1>9. lowest <= num
  <2>1. pins.speed # NotFinite
    BY <1>7, SpeedCommandsAssumption
  <2> QED
    BY <1>5, <1>8, <2>1 DEF Refuses, requested_hz
<1>10. margin < lowest
  <2>1. config.rated * (config.tolerance + 1) <= config.rated * p.F011
    BY <1>6, <1>7, ProductMonotone
  <2>2. config.rated * (config.tolerance + 1) = margin + config.rated
    <3>1. \A r, t \in Int : r * (t + 1) = t * r + r
      OBVIOUS
    <3> QED
      BY <1>6, <3>1
  <2>3. config.rated * p.F011 = lowest
    BY <1>6
  <2> HIDE DEF margin, lowest
  <2> QED
    BY <1>6, <1>7, <1>8, <2>1, <2>2, <2>3
<1>11. num - pins.feedback.output_frequency * config.rated <= margin
  BY <1>2 DEF SpeedVerified, WithinTolerance, requested_hz
<1>12. pins.feedback.output_frequency # 0
  <2> SUFFICES ASSUME pins.feedback.output_frequency = 0 PROVE FALSE
    OBVIOUS
  <2>1. pins.feedback.output_frequency * config.rated = 0
    BY <1>6
  <2> HIDE DEF num, margin, lowest
  <2> QED
    BY <1>8, <1>9, <1>10, <1>11, <2>1
<1> QED
  BY <1>2, <1>3, <1>4, <1>12 DEF SpeedVerified, turning_feedback, Preconditions

\* When a requested run is reported at speed the drive turns the way requested, or has
\* tripped so lately that its fault was not read yet.
THEOREM SystemAtSpeedTrue == RunsSpec => AtSpeedTrue
<1> DEFINE Truth == TurnsAsTold \/ (drive.fault # 0 /\ pins.feedback.current_fault = 0)
           Goal == Control /\ run # "lost" /\ config.tolerance < pins.parameters.F011
                     /\ request.run_request /\ out'.at_speed => Truth
<1>1. RunsInv => Goal
  <2> SUFFICES ASSUME RunsInv, Control, run # "lost", config.tolerance < pins.parameters.F011,
                      request.run_request, out'.at_speed
               PROVE  Truth
    OBVIOUS
  <2>1. LoopInv /\ Phase /\ IInv /\ Cycle /\ drive \in Drives
    BY DEF RunsInv, LoopInv, Control
  <2>2. ctx'.state = "Running"
    BY <2>1, CycleOutcome
  <2>3. /\ ctx.state \in {"Starting", "Running"}
        /\ out'.main_control = RunWord(ctx)
        /\ turning_feedback /\ pins.feedback.current_fault = 0
    BY <2>1, <2>2, VerifiedTurns
  <2>4. RunWord(ctx) # CONTROL_STOP /\ out.main_control = RunWord(ctx)
    BY <2>1, <2>3, RunStates
  <2>5. Begun \/ Seen
    BY <2>1, <2>3, <2>4 DEF Phase, RunPhases, Resting
  <2>6. Commanded /\ (Halted \/ (RightWay /\ drive.spin # 0))
    BY <2>3, <2>5 DEF Begun, Seen, AtRest, Halted, turning_feedback, output_frequency
  <2>7. Halted => drive.fault # 0
    BY <2>4, <2>6 DEF Halted, Commanded
  <2> QED
    BY <2>1, <2>3, <2>6, <2>7 DEF TurnsAsTold, Commanded, RightWay, Drives
<1>2. RunsInv => [Goal]_runVars
  BY <1>1
<1> QED
  BY <1>2, RunsSpecInv, PTL DEF AtSpeedTrue
=============================================================================

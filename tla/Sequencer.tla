------------------------------ MODULE Sequencer ------------------------------
(***************************************************************************)
(* The spindle sequencer of rust/crates/h100-spindle: Context::step, run   *)
(* once per servo period by update_component, between the HAL pins other   *)
(* parties write (LinuxCNC, the operator, the Modbus command list, the     *)
(* configuration parameters) and the pins it publishes.                    *)
(*                                                                         *)
(* Each pin group changes in an action of its own, so that a cycle may     *)
(* sample any mixture of old and new values; a cycle is one atomic action, *)
(* one per branch of the state dispatch at the end of step.                *)
(*                                                                         *)
(* A frequency is exact: a fraction of 0.1 Hz units where the code has an  *)
(* f64, a natural number where it has a register value.                    *)
(***************************************************************************)
EXTENDS Integers, Sequences, FiniteSets, FiniteSetsExt

CONSTANTS
    NotFinite,      \* a speed command that is NaN or infinite
    Requests,       \* values of the LinuxCNC enable, run and direction pins
    SpeedCommands,  \* values of speed-command-rpm
    Resets,         \* values of reset
    Links,          \* values of link-fault and the joined command-disabled pins
    Parameters,     \* values of the F-parameter pins
    Feedbacks,      \* values of output-frequency, current-fault and main-status
    Readbacks,      \* values of given-frequency-readback
    Configs         \* values of the configuration parameters

MainStatusBits == {"Operation", "Jog", "Reverse", "InOperation", "InJogging",
                   "InReverseRotation", "InBraking", "FrequencyTracking"}

Request == [machine_enabled : BOOLEAN, run_request : BOOLEAN,
            forward_request : BOOLEAN, reverse_request : BOOLEAN]
Link == [link_fault : BOOLEAN, any_command_disabled : BOOLEAN]
Parameter == [F001 : Nat, F002 : Nat, F004 : Nat, F005 : Nat, F011 : Nat, F024 : Nat,
              F163 : Nat, F164 : Nat, F165 : Nat, F169 : Nat]
Feedback == [output_frequency : Nat, current_fault : Nat,
             main_status : SUBSET MainStatusBits]
\* "finite" is FALSE when one of the four f64 parameters is NaN or infinite.
Config == [finite : BOOLEAN, rated : Int, minimum : Int, maximum : Int,
           tolerance : Int, F004 : Nat, F005 : Nat]

ASSUME RequestsAssumption == Requests \subseteq Request
ASSUME SpeedCommandsAssumption ==
    SpeedCommands \subseteq Int \cup {NotFinite} /\ NotFinite \notin Int
ASSUME ResetsAssumption == Resets \subseteq BOOLEAN
ASSUME LinksAssumption == Links \subseteq Link
ASSUME ParametersAssumption == Parameters \subseteq Parameter
ASSUME FeedbacksAssumption == Feedbacks \subseteq Feedback
ASSUME ReadbacksAssumption == Readbacks \subseteq Nat
ASSUME ConfigsAssumption == Configs \subseteq Config

VARIABLES
    pins,    \* what step's Input is read from
    config,  \* the HAL parameters step's Config is read from
    ctx,     \* Context
    out      \* the published output pins

vars == <<pins, config, ctx, out>>

-----------------------------------------------------------------------------
(* Vocabulary *)

CONTROL_FORWARD == "Forward"
CONTROL_REVERSE == "Reverse"
CONTROL_STOP == "Stop"

States == {"Stopped", "Arming", "Starting", "Running", "Stopping", "Fault"}
ActiveStates == {"Arming", "Starting", "Running"}

\* The order in which configuration_block tests its conditions.
ConfigurationOrder ==
    <<"Link", "CommandDisabled", "F001", "F002", "F024", "F163", "F164", "F165", "F169",
      "ExplicitFrequency", "F004", "F005", "RpmLimits", "VfdFault">>

\* Mutant of RequestOrder: the drive's lowest frequency F011 is not looked at.
RequestOrder_mutant ==
    <<"Direction", "DirectionChange", "SpeedInvalid", "SpeedZero", "SpeedLow", "SpeedHigh",
      "FrequencyRange">>

\* The order in which step tests a run request that passed configuration_block.
RequestOrder ==
    <<"Direction", "DirectionChange", "SpeedInvalid", "SpeedZero", "SpeedLow", "SpeedHigh",
      "BelowF011", "FrequencyRange">>

InOrder(order) == {order[i] : i \in DOMAIN order}

BlockCodes ==
    InOrder(ConfigurationOrder) \cup InOrder(RequestOrder)
        \cup {"None", "DirectionFeedback", "InternalState"}

MaxRegister == 65535  \* the largest value register 0201H holds

\* A frequency as the fraction num / den of 0.1 Hz.
NoTarget == [num |-> 0, den |-> 1]

-----------------------------------------------------------------------------
(* What one cycle samples *)

request == pins.request
is_running == "InOperation" \in pins.feedback.main_status
stopped_feedback == ~is_running /\ pins.feedback.output_frequency = 0
run_enabled == request.run_request /\ request.machine_enabled
requested_reverse == request.reverse_request /\ ~request.forward_request
reset_rising == pins.reset /\ ~ctx.previous_reset

\* M3 (held_reverse FALSE) is wired to H100 Reverse and M4 to H100 Forward.
direction_feedback_matches ==
    ("Reverse" \in pins.feedback.main_status) = ~ctx.held_reverse

\* The requested RPM as a frequency: rpm * F004 / rated, in 0.1 Hz.
requested_hz == [num |-> pins.speed * config.F004, den |-> config.rated]

units_per_decihz == IF pins.parameters.F169 = 0 THEN 1 ELSE 10

\* (raw_float + 0.5) as u32
requested_raw ==
    (2 * units_per_decihz * requested_hz.num + requested_hz.den) \div (2 * requested_hz.den)

WithinTolerance ==
    LET actual == pins.feedback.output_frequency * config.rated
        margin == config.tolerance * config.rated
    IN  /\ actual - requested_hz.num <= margin
        /\ requested_hz.num - actual <= margin

\* The first code of order whose condition Holds, "None" when none does.
FirstIn(order, Holds(_)) ==
    LET hits == {i \in DOMAIN order : Holds(order[i])}
    IN  IF hits = {} THEN "None" ELSE order[Min(hits)]

\* The condition under which configuration_block returns code.
Blocks(code) ==
    LET p == pins.parameters
    IN  CASE code = "Link" -> pins.link.link_fault
          [] code = "CommandDisabled" -> pins.link.any_command_disabled
          [] code = "F001" -> p.F001 # 2
          [] code = "F002" -> p.F002 # 2
          [] code = "F024" -> p.F024 # 1
          [] code = "F163" -> p.F163 # 1
          [] code = "F164" -> p.F164 # 2
          [] code = "F165" -> p.F165 # 3
          [] code = "F169" -> p.F169 > 1
          [] code = "ExplicitFrequency" -> config.F004 = 0 \/ config.F005 = 0
          [] code = "F004" -> p.F004 # config.F004
          [] code = "F005" -> p.F005 # config.F005
          [] code = "RpmLimits" -> \/ ~config.finite
                                   \/ config.rated <= 0
                                   \/ config.minimum <= 0
                                   \/ config.maximum < config.minimum
                                   \/ config.maximum > config.rated
                                   \/ config.tolerance < 0
          [] code = "VfdFault" -> pins.feedback.current_fault # 0

\* Mutant of configuration_block: the drive fault is not looked at.
configuration_block_mutant == FirstIn(SubSeq(ConfigurationOrder, 1, 13), Blocks)

configuration_block == FirstIn(ConfigurationOrder, Blocks)

-----------------------------------------------------------------------------
(* The gates a cycle passes its context c through, in the order of step *)

\* A BlockRecord is its code here, and "None" stands for no record: the copy of the
\* inputs that a record carries as evidence is read by nothing in the sequencer.

\* Clear the held frequency, target and direction.
Release(c) == [c EXCEPT !.held_frequency = 0, !.held_target = NoTarget, !.held_reverse = FALSE]

\* Mutant of Latch: the record takes the state for the code.
Latch_mutant(c, code) ==
    [c EXCEPT !.state = "Stopping", !.fault_latched = TRUE, !.fault_code = code,
              !.fault_record = ctx.state]

Latch(c, code) ==
    [c EXCEPT !.state = "Stopping",
              !.fault_latched = TRUE,
              !.fault_code = IF c.fault_latched THEN @ ELSE code,
              !.fault_record = IF c.fault_latched THEN @ ELSE code]

\* What validate_internal_state requires of the context it finds.
InternalStateValid(c) ==
    /\ c.state \in States
    /\ IF c.fault_latched
       THEN c.fault_code # "None" /\ c.fault_record = c.fault_code
       ELSE c.fault_code = "None" /\ c.fault_record = "None"

Validate(c) ==
    IF InternalStateValid(c) THEN c
    ELSE [c EXCEPT !.state = "Fault", !.fault_latched = TRUE, !.fault_code = "InternalState",
                   !.fault_record = "InternalState"]

\* Mutants of ResetAccepted: a standing run request, or a turning spindle, is no bar.
ResetAccepted_mutant_request ==
    /\ InternalStateValid(ctx) /\ reset_rising /\ stopped_feedback
    /\ ~pins.link.link_fault /\ pins.feedback.current_fault = 0

ResetAccepted_mutant_rest ==
    /\ InternalStateValid(ctx) /\ reset_rising /\ ~request.run_request
    /\ ~pins.link.link_fault /\ pins.feedback.current_fault = 0

ResetAccepted ==
    /\ InternalStateValid(ctx)
    /\ reset_rising
    /\ ~request.run_request
    /\ stopped_feedback
    /\ ~pins.link.link_fault
    /\ pins.feedback.current_fault = 0

\* Mutant of AcceptReset: the record outlives the latch.
AcceptReset_mutant(c) ==
    IF ResetAccepted
    THEN [c EXCEPT !.state = "Stopping", !.fault_latched = FALSE, !.fault_code = "None"]
    ELSE c

AcceptReset(c) ==
    IF ResetAccepted
    THEN [c EXCEPT !.state = "Stopping", !.fault_latched = FALSE, !.fault_code = "None",
                   !.fault_record = "None"]
    ELSE c

HoldFaulted(c) ==
    IF c.fault_latched /\ c.state \notin {"Stopping", "Fault"}
    THEN [c EXCEPT !.state = "Stopping"]
    ELSE c

\* Mutant of Sampled: the reset pin is not remembered, so a level passes for an edge.
Sampled_mutant == HoldFaulted(AcceptReset(Validate(ctx)))

\* The context when step turns to the run request.
Sampled == HoldFaulted(AcceptReset(Validate([ctx EXCEPT !.previous_reset = pins.reset])))

RunConsidered == run_enabled /\ ~Sampled.fault_latched

\* The condition under which a considered run request is refused with code.
Refuses(code) ==
    LET finite == pins.speed # NotFinite
        hz == requested_hz
    IN  CASE code = "Direction" -> request.forward_request = request.reverse_request
          [] code = "DirectionChange" -> /\ Sampled.state \in ActiveStates
                                         /\ requested_reverse # Sampled.held_reverse
          [] code = "SpeedInvalid" -> ~finite
          [] code = "SpeedZero" -> finite /\ pins.speed <= 0
          [] code = "SpeedLow" -> finite /\ pins.speed < config.minimum
          [] code = "SpeedHigh" -> finite /\ pins.speed > config.maximum
          [] code = "BelowF011" -> finite /\ hz.num < pins.parameters.F011 * hz.den
          [] code = "FrequencyRange" ->
                /\ finite
                /\ \/ hz.num <= 0
                   \/ units_per_decihz * hz.num > MaxRegister * hz.den
                   \/ hz.num > config.F005 * hz.den
                   \/ requested_raw = 0

run_reason ==
    IF RunConsidered /\ configuration_block = "None"
    THEN FirstIn(RequestOrder, Refuses)
    ELSE configuration_block

RefuseRequest(c) ==
    IF RunConsidered /\ run_reason # "None" THEN Latch(c, run_reason) ELSE c

RefuseConfiguration(c) ==
    IF c.state \in ActiveStates /\ configuration_block # "None"
    THEN Latch(c, configuration_block)
    ELSE c

RefuseDirection(c) ==
    IF c.state = "Running" /\ run_enabled /\ is_running /\ ~direction_feedback_matches
    THEN Latch(c, "DirectionFeedback")
    ELSE c

\* Mutants of DropRequest: only machine-off ends a run; the end of a request is taken
\* for the end of the rotation.
DropRequest_mutant_enable(c) ==
    IF ~request.machine_enabled /\ c.state \in ActiveStates
    THEN [c EXCEPT !.state = "Stopping"] ELSE c

DropRequest_mutant_rest(c) ==
    IF ~run_enabled /\ c.state \in ActiveStates
    THEN [Release(c) EXCEPT !.state = "Stopped"] ELSE c

DropRequest(c) ==
    IF ~run_enabled /\ c.state \in ActiveStates THEN [c EXCEPT !.state = "Stopping"] ELSE c

\* The context the state dispatch finds.
Gated == DropRequest(RefuseDirection(RefuseConfiguration(RefuseRequest(Sampled))))

-----------------------------------------------------------------------------
(* One cycle: an action per branch of the state dispatch *)

\* Hold the requested frequency, which every gate has let through.
Hold(c, state) ==
    [c EXCEPT !.state = state, !.held_frequency = requested_raw, !.held_target = requested_hz]

\* Mutant of RunWord: M3 and M4 wired the other way round.
RunWord_mutant(c) == IF c.held_reverse THEN CONTROL_REVERSE ELSE CONTROL_FORWARD

RunWord(c) == IF c.held_reverse THEN CONTROL_FORWARD ELSE CONTROL_REVERSE

TurningAsHeld(c) ==
    is_running /\ c.state \in {"Starting", "Running"} /\ direction_feedback_matches

\* Keep context c and publish it with the control word and the frequency.
Commit(c, control, frequency) ==
    /\ ctx' = c
    /\ out' = [main_control |-> control,
               given_frequency |-> frequency,
               ready |-> configuration_block = "None" /\ ~c.fault_latched,
               forward_running |-> TurningAsHeld(c) /\ ~c.held_reverse,
               reverse_running |-> TurningAsHeld(c) /\ c.held_reverse,
               at_speed |-> ~request.run_request \/ c.state = "Running",
               fault_code |-> c.fault_code,
               block_code |-> IF request.run_request THEN run_reason ELSE configuration_block,
               state |-> c.state]
    /\ UNCHANGED <<pins, config>>

HoldStopped(c) ==
    /\ c.state = "Stopped"
    /\ ~run_enabled
    /\ Commit(Release(c), CONTROL_STOP, 0)

\* Mutant of BeginArming: the run word goes out with the frequency.
BeginArming_mutant(c) ==
    /\ c.state = "Stopped"
    /\ run_enabled
    /\ Commit([Hold(c, "Arming") EXCEPT !.held_reverse = requested_reverse],
              RunWord([held_reverse |-> requested_reverse]), requested_raw)

BeginArming(c) ==
    /\ c.state = "Stopped"
    /\ run_enabled
    /\ Commit([Hold(c, "Arming") EXCEPT !.held_reverse = requested_reverse],
              CONTROL_STOP, requested_raw)

AwaitReadback(c) ==
    /\ c.state = "Arming"
    /\ pins.readback # requested_raw
    /\ Commit(Hold(c, "Arming"), CONTROL_STOP, requested_raw)

StartRotation(c) ==
    /\ c.state = "Arming"
    /\ pins.readback = requested_raw
    /\ Commit(Hold(c, "Starting"), RunWord(c), requested_raw)

\* Mutant of SpeedVerified: the speed is not compared.
SpeedVerified_mutant == is_running /\ direction_feedback_matches

SpeedVerified == is_running /\ direction_feedback_matches /\ WithinTolerance

AwaitSpeed(c) ==
    /\ c.state \in {"Starting", "Running"}
    /\ ~SpeedVerified
    /\ Commit(Hold(c, "Starting"), RunWord(c), requested_raw)

VerifySpeed(c) ==
    /\ c.state \in {"Starting", "Running"}
    /\ SpeedVerified
    /\ Commit(Hold(c, "Running"), RunWord(c), requested_raw)

\* Mutant of AwaitStop: the frequency is cleared together with STOP.
AwaitStop_mutant(c) ==
    /\ c.state = "Stopping"
    /\ ~stopped_feedback
    /\ Commit(Release(c), CONTROL_STOP, 0)

AwaitStop(c) ==
    /\ c.state = "Stopping"
    /\ ~stopped_feedback
    /\ Commit(c, CONTROL_STOP, c.held_frequency)

\* Mutants of FinishStop: no rest is awaited; the frequency is not released.
FinishStop_mutant_early(c) ==
    /\ c.state = "Stopping"
    /\ LET rest == IF c.fault_latched THEN "Fault" ELSE "Stopped"
       IN  Commit([Release(c) EXCEPT !.state = rest], CONTROL_STOP, 0)

FinishStop_mutant_held(c) ==
    /\ c.state = "Stopping"
    /\ stopped_feedback
    /\ LET rest == IF c.fault_latched THEN "Fault" ELSE "Stopped"
       IN  Commit([c EXCEPT !.state = rest], CONTROL_STOP, 0)

FinishStop(c) ==
    /\ c.state = "Stopping"
    /\ stopped_feedback
    /\ LET rest == IF c.fault_latched THEN "Fault" ELSE "Stopped"
       IN  Commit([Release(c) EXCEPT !.state = rest], CONTROL_STOP, 0)

HoldFault(c) ==
    /\ c.state = "Fault"
    /\ LET held == IF stopped_feedback THEN Release(c) ELSE c
       IN  Commit(held, CONTROL_STOP, held.held_frequency)

Dispatch(c) ==
    \/ HoldStopped(c) \/ BeginArming(c) \/ AwaitReadback(c) \/ StartRotation(c)
    \/ AwaitSpeed(c) \/ VerifySpeed(c) \/ AwaitStop(c) \/ FinishStop(c) \/ HoldFault(c)

\* Bound by \E, the gated context is computed once.
Cycle == \E c \in {Gated} : Dispatch(c)

-----------------------------------------------------------------------------
(* The other parties write the pins between cycles *)

SetPins(p) == pins' = p /\ UNCHANGED <<config, ctx, out>>

SetRequest == \E r \in Requests : SetPins([pins EXCEPT !.request = r])
SetSpeed == \E s \in SpeedCommands : SetPins([pins EXCEPT !.speed = s])
SetReset == \E b \in Resets : SetPins([pins EXCEPT !.reset = b])
SetLink == \E l \in Links : SetPins([pins EXCEPT !.link = l])
SetParameters == \E p \in Parameters : SetPins([pins EXCEPT !.parameters = p])
SetFeedback == \E f \in Feedbacks : SetPins([pins EXCEPT !.feedback = f])
SetReadback == \E r \in Readbacks : SetPins([pins EXCEPT !.readback = r])
SetConfig == config' \in Configs /\ UNCHANGED <<pins, ctx, out>>

Environment ==
    \/ SetRequest \/ SetSpeed \/ SetReset \/ SetLink
    \/ SetParameters \/ SetFeedback \/ SetReadback \/ SetConfig

-----------------------------------------------------------------------------
(* The specification *)

\* The pins publish_initial_values writes.
InitialPins ==
    [request |-> [machine_enabled |-> FALSE, run_request |-> FALSE,
                  forward_request |-> FALSE, reverse_request |-> FALSE],
     speed |-> 0,
     reset |-> FALSE,
     link |-> [link_fault |-> TRUE, any_command_disabled |-> FALSE],
     parameters |-> [F001 |-> 0, F002 |-> 0, F004 |-> 0, F005 |-> 0, F011 |-> 0, F024 |-> 0,
                     F163 |-> 0, F164 |-> 0, F165 |-> 0, F169 |-> 0],
     feedback |-> [output_frequency |-> 0, current_fault |-> 0, main_status |-> {}],
     readback |-> 0]

\* Config::safe, in force until the HAL files set the parameters.
SafeConfig == [finite |-> TRUE, rated |-> 24000, minimum |-> 0, maximum |-> 24000,
               tolerance |-> 10, F004 |-> 0, F005 |-> 0]

\* Context::new
NewContext == [state |-> "Stopping", previous_reset |-> FALSE, fault_latched |-> FALSE,
               fault_code |-> "None", fault_record |-> "None",
               held_frequency |-> 0, held_target |-> NoTarget, held_reverse |-> FALSE]

\* publish_initial_values reports "Stopped" although the context starts in "Stopping".
InitialOutput == [main_control |-> CONTROL_STOP, given_frequency |-> 0, ready |-> FALSE,
                  forward_running |-> FALSE, reverse_running |-> FALSE, at_speed |-> TRUE,
                  fault_code |-> "None", block_code |-> "None", state |-> "Stopped"]

Init ==
    /\ pins = InitialPins
    /\ config = SafeConfig
    /\ ctx = NewContext
    /\ out = InitialOutput

Next == Cycle \/ Environment

Spec == Init /\ [][Next]_vars

-----------------------------------------------------------------------------
(* Properties *)

Pins == [request : Request, speed : Int \cup {NotFinite}, reset : BOOLEAN, link : Link,
         parameters : Parameter, feedback : Feedback, readback : Nat]

Context == [state : States, previous_reset : BOOLEAN, fault_latched : BOOLEAN,
            fault_code : BlockCodes, fault_record : BlockCodes, held_frequency : Nat,
            held_target : [num : Int, den : Int], held_reverse : BOOLEAN]

ControlWords == {CONTROL_FORWARD, CONTROL_REVERSE, CONTROL_STOP}

Output == [main_control : ControlWords, given_frequency : Nat, ready : BOOLEAN,
           forward_running : BOOLEAN, reverse_running : BOOLEAN, at_speed : BOOLEAN,
           fault_code : BlockCodes, block_code : BlockCodes, state : States]

\* Every variable has its type: in particular the state of the context always
\* decodes, which the expect in Context::state relies on.
TypeOK ==
    /\ pins \in Pins
    /\ config \in Config
    /\ ctx \in Context
    /\ out \in Output

\* The latch flag, the fault code, the retained record and the state always agree:
\* a latched fault has one code and its record and holds the sequencer in Stopping
\* or Fault, an unlatched one has neither. So validate_internal_state never fires,
\* and INTERNAL_STATE_INCONSISTENT is never latched.
FaultConsistent ==
    /\ InternalStateValid(ctx)
    /\ ctx.fault_latched => ctx.state \in {"Stopping", "Fault"}
    /\ ctx.state = "Fault" => ctx.fault_latched
    /\ ctx.fault_code # "InternalState"

\* The frequency and the direction of a run are held from arming to the verified
\* stop and by nothing else: an active state holds a frequency the 16-bit register
\* can carry, a resting state holds neither, and what is published is what is held.
FrequencyHeld ==
    /\ ctx.state \in ActiveStates => ctx.held_frequency \in 1 .. MaxRegister
    /\ ctx.state \in {"Stopped", "Fault"} => ctx.held_frequency = 0 /\ ~ctx.held_reverse
    /\ ctx.held_frequency <= MaxRegister
    /\ out.given_frequency = ctx.held_frequency

\* A run word stands on main-control exactly while the sequencer is starting or
\* running, and it is the one of the held direction, whatever order the pins
\* changed in.
RunWordJustified ==
    out.main_control =
        IF ctx.state \in {"Starting", "Running"} THEN RunWord(ctx) ELSE CONTROL_STOP

\* The steps that change a variable and neither a pin nor the configuration are
\* those of a cycle.
CycleStep == UNCHANGED <<pins, config>>

\* What must hold before a run (README.md, "the live controller must observe"):
\* a sound link, no drive fault, every selector as required, the observed F004 and F005
\* equal to the explicit ones, and RPM limits that make sense.
Preconditions ==
    /\ pins.link = [link_fault |-> FALSE, any_command_disabled |-> FALSE]
    /\ pins.feedback.current_fault = 0
    /\ [f \in {"F001", "F002", "F024", "F163", "F164", "F165"} |-> pins.parameters[f]] =
         [F001 |-> 2, F002 |-> 2, F024 |-> 1, F163 |-> 1, F164 |-> 2, F165 |-> 3]
    /\ pins.parameters.F169 \in {0, 1}
    /\ 0 < config.F004 /\ pins.parameters.F004 = config.F004
    /\ 0 < config.F005 /\ pins.parameters.F005 = config.F005
    /\ config.finite /\ config.tolerance >= 0
    /\ 0 < config.minimum /\ config.minimum <= config.maximum
    /\ config.maximum <= config.rated

\* A cycle that publishes a run word sampled an enabled request for one direction
\* under all preconditions, at a speed within the RPM limits, with no fault latched;
\* and rounding to a register value does not carry the frequency past F011 or F005.
RunPermitted ==
    /\ run_enabled
    /\ request.forward_request # request.reverse_request
    /\ Preconditions
    /\ ~ctx'.fault_latched
    /\ pins.speed \in config.minimum .. config.maximum
    /\ out'.given_frequency \in
         units_per_decihz * pins.parameters.F011 .. units_per_decihz * config.F005
RunOnlyWhenPermitted ==
    [][CycleStep /\ out'.main_control # CONTROL_STOP => RunPermitted]_vars

\* ready tells LinuxCNC the truth about every precondition and the latch, as the
\* cycle sampled them.
ReadyHonest ==
    [][CycleStep => out'.ready = (Preconditions /\ ~ctx'.fault_latched)]_vars

\* The first fault is kept with its evidence, whatever fails after it, until a
\* reset is accepted; and a reset is accepted only on a rising edge sampled at
\* rest, without a run request, a link fault or a drive fault.
FaultKept ==
    [][ctx.fault_latched =>
         \/ /\ ctx'.fault_latched
            /\ ctx'.fault_code = ctx.fault_code
            /\ ctx'.fault_record = ctx.fault_record
         \/ /\ reset_rising
            /\ ~request.run_request
            /\ stopped_feedback
            /\ ~pins.link.link_fault
            /\ pins.feedback.current_fault = 0]_vars

\* While the sequencer is not active, whatever ended the run, the frequency stays
\* published as long as the feedback shows rotation and is cleared by the cycle
\* that samples rest; it is never raised (README.md, the M5 sequence).
FrequencyRetained ==
    [][CycleStep /\ ctx'.state \notin ActiveStates =>
         out'.given_frequency = IF stopped_feedback THEN 0 ELSE out.given_frequency]_vars

\* With a run requested, at-speed is published only by a cycle whose own sample shows
\* rotation in the held direction within the tolerance of the speed requested in that
\* sample, with the run word standing: no sample of an earlier speed or direction
\* satisfies it.
AtSpeedHonest ==
    [][CycleStep /\ request.run_request /\ out'.at_speed =>
         /\ is_running /\ pins.speed # NotFinite
         /\ ("Reverse" \in pins.feedback.main_status) = (out'.main_control = CONTROL_REVERSE)
         /\ out'.main_control # CONTROL_STOP
         /\ WithinTolerance]_vars
=============================================================================

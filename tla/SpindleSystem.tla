--------------------------- MODULE SpindleSystem ---------------------------
(***************************************************************************)
(* The sequencer in its loop: LinuxCNC requests spindle motion, the        *)
(* sequencer publishes a control word and a frequency, hm2_modbus carries  *)
(* them to the H100 drive and the drive's registers back, one command of   *)
(* maps/live/h100-spindle.mbccs after the other, and the drive turns.      *)
(*                                                                         *)
(* The sequencer is the one of Sequencer, unchanged.  Its environment is   *)
(* replaced by actors: feedback is what a read fetched when its turn came, *)
(* so that every pin is as old as its command's last success.  hm2_modbus, *)
(* the drive and LinuxCNC are external: they are modelled from the map and *)
(* from what the sources say of them.                                      *)
(***************************************************************************)
EXTENDS Sequencer

CONSTANTS
    Frequencies,       \* the frequencies the drive passes through, in 0.1 Hz
    InitialDrives,     \* states the drive may be found in
    DriveFaults,       \* codes the drive may trip with
    Unreliable,        \* commands of the list whose transactions may fail
    ErrorThreshold,    \* consecutive errors that disable a command
    DirectionReported, \* does 0210H assert the direction bit
    Patient            \* does LinuxCNC await the outcome of a request

VARIABLES
    bus,   \* hm2_modbus: suspended, the command whose turn it is, errors of each
    drive  \* the H100: its registers, its operating bit, how it turns

systemVars == <<vars, bus, drive>>

\* The seven reads of F parameters that precede the others are one entry here.
CommandList ==
    <<"Parameters", "OutputFrequency", "CurrentFault", "MainStatus", "Readback",
      "Control", "Frequency">>

Commands == InOrder(CommandList)

\* A frequency is negative while the drive turns in its reverse direction.
Magnitude(spin) == IF spin < 0 THEN -spin ELSE spin

Drives == [word : {CONTROL_FORWARD, CONTROL_REVERSE, CONTROL_STOP}, given : Nat,
           reverse : BOOLEAN, operating : BOOLEAN, spin : Int, fault : Nat]

ASSUME FrequenciesAssumption == Frequencies \subseteq Nat /\ 0 \in Frequencies
ASSUME InitialDrivesAssumption == InitialDrives \subseteq Drives
ASSUME DriveFaultsAssumption == DriveFaults \subseteq Nat \ {0}
ASSUME UnreliableAssumption == Unreliable \subseteq Commands
ASSUME ErrorThresholdAssumption == ErrorThreshold \in Nat \ {0}
ASSUME SwitchesAssumption == DirectionReported \in BOOLEAN /\ Patient \in BOOLEAN

-----------------------------------------------------------------------------
(* hm2_modbus: one transaction at a time, in the order of the list *)

Disabled(c) == bus.errors[c] = ErrorThreshold

\* Mutant of Advance: the turn leaves the end of the list.
Advance_mutant(b) == [b EXCEPT !.next = @ + 1]

Advance(b) == [b EXCEPT !.next = (@ % Len(CommandList)) + 1]

\* The HAL files release communication once STOP and zero are on the write pins.
ReleaseBus ==
    /\ bus.suspended
    /\ out.main_control = CONTROL_STOP /\ out.given_frequency = 0
    /\ bus' = [bus EXCEPT !.suspended = FALSE]
    /\ SetPins([pins EXCEPT !.link.link_fault = FALSE])
    /\ UNCHANGED drive

\* What 0210H reports.
main_status ==
    {bit \in {"InOperation", "Reverse"} :
        IF bit = "InOperation" THEN drive.operating ELSE DirectionReported /\ drive.reverse}

\* The pins after a successful read.
Fetched(c) ==
    CASE c = "Parameters" -> {[pins EXCEPT !.parameters = p] : p \in Parameters}
      [] c = "OutputFrequency" ->
            {[pins EXCEPT !.feedback.output_frequency = Magnitude(drive.spin)]}
      [] c = "CurrentFault" -> {[pins EXCEPT !.feedback.current_fault = drive.fault]}
      [] c = "MainStatus" -> {[pins EXCEPT !.feedback.main_status = main_status]}
      [] c = "Readback" -> {[pins EXCEPT !.readback = drive.given]}
      [] OTHER -> {pins}

\* The drive obeys a run word unless it has tripped; a STOP leaves the selected
\* direction, and the operating bit, to the drive.
Obey(word) ==
    IF word = CONTROL_STOP THEN [drive EXCEPT !.word = word]
    ELSE [drive EXCEPT !.word = word, !.reverse = (word = CONTROL_REVERSE),
                       !.operating = (drive.fault = 0)]

Delivered(c) ==
    CASE c = "Control" -> Obey(out.main_control)
      [] c = "Frequency" -> [drive EXCEPT !.given = out.given_frequency]
      [] OTHER -> drive

Turn(c) == ~bus.suspended /\ CommandList[bus.next] = c

Succeed(c) ==
    /\ Turn(c) /\ ~Disabled(c)
    /\ bus' = [Advance(bus) EXCEPT !.errors[c] = 0]
    /\ \E p \in Fetched(c) : SetPins(p)
    /\ drive' = Delivered(c)

\* Mutant of Fail: the error count is not joined into the command-disabled pins.
Fail_mutant(c) ==
    /\ Turn(c) /\ ~Disabled(c) /\ c \in Unreliable
    /\ bus' = [Advance(bus) EXCEPT !.errors[c] = @ + 1]
    /\ UNCHANGED <<vars, drive>>

\* A failed transaction leaves the last good values on its pins; the driver may raise
\* its fault pin, and disables the command at the threshold.
Fail(c) ==
    /\ Turn(c) /\ ~Disabled(c) /\ c \in Unreliable
    /\ bus' = [Advance(bus) EXCEPT !.errors[c] = @ + 1]
    /\ \E raised \in BOOLEAN :
         SetPins([pins EXCEPT !.link.link_fault = @ \/ raised,
                              !.link.any_command_disabled =
                                  @ \/ bus.errors[c] + 1 = ErrorThreshold])
    /\ UNCHANGED drive

Skip(c) == Turn(c) /\ Disabled(c) /\ bus' = Advance(bus) /\ UNCHANGED <<vars, drive>>

\* The operator resets hm2_modbus: commands are enabled again, its fault is cleared.
ResetBus ==
    /\ ~bus.suspended
    /\ pins.link.link_fault \/ \E c \in Commands : Disabled(c)
    /\ bus' = [bus EXCEPT !.errors = [c \in Commands |-> 0]]
    /\ SetPins([pins EXCEPT !.link = [link_fault |-> FALSE, any_command_disabled |-> FALSE]])
    /\ UNCHANGED drive

Transact == \E c \in Commands : Succeed(c) \/ Fail(c) \/ Skip(c)

-----------------------------------------------------------------------------
(* The drive *)

SetDrive(d) == drive' = d /\ UNCHANGED <<vars, bus>>

\* Where the spindle is heading.
target ==
    IF drive.word = CONTROL_STOP \/ drive.fault # 0 THEN 0
    ELSE IF drive.reverse THEN -drive.given ELSE drive.given

\* Accelerate or decelerate some way towards the target, a reversal passing zero.
Ramp ==
    \E f \in Frequencies, sign \in {-1, 1} :
        LET spin == sign * f
        IN  /\ spin # drive.spin
            /\ \/ drive.spin <= spin /\ spin <= target
               \/ target <= spin /\ spin <= drive.spin
            /\ spin > 0 => drive.spin >= 0
            /\ spin < 0 => drive.spin <= 0
            /\ SetDrive([drive EXCEPT !.spin = spin])

\* The operating bit drops at some moment after a STOP.
LeaveOperation ==
    /\ drive.word = CONTROL_STOP /\ drive.operating
    /\ SetDrive([drive EXCEPT !.operating = FALSE])

Trip ==
    \E f \in DriveFaults :
        /\ drive.fault = 0
        /\ SetDrive([drive EXCEPT !.fault = f, !.operating = FALSE])

-----------------------------------------------------------------------------
(* LinuxCNC and the operator *)

\* A patient LinuxCNC withdraws a run request only once the sequencer reports that the
\* run was reached, or ended in a fault.
RequestMotion ==
    /\ Patient /\ request.run_request => out.state \in {"Running", "Fault"}
    /\ SetRequest
    /\ UNCHANGED <<bus, drive>>

Operate == (SetSpeed \/ SetReset \/ SetConfig) /\ UNCHANGED <<bus, drive>>

-----------------------------------------------------------------------------
(* The specification *)

SystemInit ==
    /\ Init
    /\ bus = [suspended |-> TRUE, next |-> 1, errors |-> [c \in Commands |-> 0]]
    /\ drive \in InitialDrives

Control == Cycle /\ UNCHANGED <<bus, drive>>

SystemNext ==
    \/ Control
    \/ ReleaseBus \/ Transact \/ ResetBus
    \/ Ramp \/ LeaveOperation \/ Trip
    \/ RequestMotion \/ Operate

SystemSpec == SystemInit /\ [][SystemNext]_systemVars

\* The servo thread calls the cycle every period; the HAL files release the bus and
\* hm2_modbus performs its next transaction; the drive completes what it was told.
Fairness ==
    /\ WF_systemVars(Control)
    /\ WF_systemVars(ReleaseBus \/ Transact)
    /\ WF_systemVars(Ramp \/ LeaveOperation)

FairSystemSpec == SystemSpec /\ Fairness

-----------------------------------------------------------------------------
(* Properties *)

SystemTypeOK ==
    /\ TypeOK
    /\ bus \in [suspended : BOOLEAN, next : 1 .. Len(CommandList),
                errors : [Commands -> 0 .. ErrorThreshold]]
    /\ drive \in Drives

\* The drive neither turns nor will as long as nothing else is written to it.
AtRest ==
    /\ drive.spin = 0 /\ ~drive.operating
    /\ drive.word = CONTROL_STOP \/ drive.fault # 0

\* The drive has been told STOP before its frequency is cleared (README.md, the M5
\* sequence; the comment on the order of the writes in h100-spindle.mbccs).
StopBeforeClear ==
    [][drive'.given = 0 /\ drive.given # 0 => drive.word = CONTROL_STOP]_systemVars

\* The drive is told to turn only when 0201H already holds the frequency the sequencer
\* publishes (README.md, "wait until 0201H reads back exactly, then apply").
RunOnVerifiedFrequency ==
    [][drive.word = CONTROL_STOP /\ drive'.word # CONTROL_STOP =>
         drive.given = out.given_frequency]_systemVars

\* ready is published only by a cycle that found every command below the threshold: a
\* command that keeps failing cannot leave its last good value looking ready.
ReadyIsFresh == [][CycleStep /\ out'.ready => \A c \in Commands : ~Disabled(c)]_vars

\* A run that stays withdrawn ends with the drive at rest, STOP and zero in its
\* registers, and the sequencer resting, whatever state the drive was found in.
StopReachesDrive ==
    <>[]~run_enabled =>
        <>[](/\ AtRest /\ drive.word = CONTROL_STOP /\ drive.given = 0
             /\ out.state \in {"Stopped", "Fault"})

\* A run that stays requested, at a speed that stays, is reported reached for good
\* unless a fault was latched.
RunReachesSpeed ==
    (\E s \in SpeedCommands : <>[](run_enabled /\ pins.speed = s))
        => <>[](out.state = "Running" \/ ctx.fault_latched)

\* A drive that trips is told to stop, even when the request stands.
TripEndsRun == drive.fault # 0 ~> drive.word = CONTROL_STOP
=============================================================================

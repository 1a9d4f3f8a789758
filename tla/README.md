# Formal model of the H100 spindle component

This directory models, model-checks and proves properties of the H100 spindle
driver: the Rust LinuxCNC HAL component `h100_spindle`, the Modbus maps through
which `hm2_modbus` connects it to the drive, the commissioning tool
`tools/spindle_control.py`, the protocol library and the PktUART line diagnostic. Paths below are relative to the repository unless
they name a module; every definition's source lines are in `PROJECT.json`
under `map`.

    tlc -config MCInterlock.cfg MCInterlock.tla     # one run, see the table below
    tlapm SequencerProofs.tla                       # the proofs

## 1. The system

    LinuxCNC, operator        Modbus list (13 commands, 50 ms apart)
       |  enable, run,           |  F-parameters, status, readback
       |  direction, speed,      |  link-fault, command disabled
       v  reset                  v
    +-----------------------------------+   main-control,    +-----------+
    | h100_spindle: update_component,   |   given-frequency  | hm2_modbus|
    | once per servo period:            | -----------------> |   list    |
    | sample, Context::step, publish    |                    +-----------+
    +-----------------------------------+                        |  ^ 0200H, 0201H,
       |  ready, at-speed, fault, block, evidence                v  | 0210H, 0000H ...
       v                                                     H100 drive, spindle
    LinuxCNC, operator

    Without the component: spindle_control.py -> its own HAL session -> hm2_modbus -> drive
                           capture script -> pktuart_echo_diag -> Mesa card -> line, drive

| Component | State | Operations | Talks to |
|---|---|---|---|
| Sequencer, `sequencer/step.rs`, `types.rs` | `Context`: state, latch, fault code, record, held frequency, target and direction, previous reset | `Context::step` | the cycle: `Input` and `Config` in, `Output` out |
| HAL component lifecycle, `component/mod.rs` | component id, memory in HAL | `rtapi_app_main`, `rtapi_app_exit` | HAL: init, malloc, export, ready, exit |
| Cycle and publication, `component/cycle.rs` | snapshot generation, about 170 pins | `update_component` | the thread that calls it, LinuxCNC, observers |
| Interface registration, `component/registration.rs`, `pins.rs` | the pins, their initial values | `register_interface`, `publish_initial_values` | HAL |
| Drive fault decoder, `sequencer/vfd_fault.rs` | none | `VfdFaultCode::decode` | the cycle |
| Live map, `maps/live/h100-spindle.mbccs` | `hm2_modbus`: turn, error count of each command | 11 reads, then 0200H, then 0201H | component pins, drive |
| Tool, `tools/spindle_control.py` | place in its script, its HAL session | `status`, `finite-test --live`, `configure-400hz --live` | maps, `hm2_modbus` |
| Commissioning and diagnostic maps, `maps/` | initialisation list, command list | sent by `hm2_modbus` | tool, drive |
| Protocol library, `src/protocol/h100_protocol.py` | none | frames, CRC, decoders, `decide_forward_command` | tool |
| PktUART diagnostic, `diagnostics/pktuart/*.comp` | stage of seven, buffers, pins | one request or none, then a log of what was received | board driver, capture script |
| Capture scripts, `diagnostics/pktuart/run-*.sh` | place, what they read back | set and check `send-request`, raise the trigger, report | the diagnostic, over `halrun` |
| Build scripts, tests | none at run time | build, release gate | - |

### What makes each part correct

- *Sequencer*: the drive is told to run only under every precondition, only in
  the direction asked for and only with a frequency in range; STOP comes before
  anything else is changed and the frequency stays until rest; direction never
  changes under a turning spindle; the first fault and its evidence survive until
  a legitimate reset; a standing request never restarts; `at-speed` and `ready`
  are true of the sample they were computed from.
- *Loop*: what the sequencer reports is also true of the drive, although every
  pin is as old as the last successful poll of its command; a withdrawn run ends
  at rest, a standing one at speed or in a fault.
- *HAL component*: no cycle runs on half-initialised pins, no failed start leaves
  anything behind, and a reader of the pins can recognise a consistent snapshot.
- *Tool*: a run command reaches the drive only from rest, verified; a confirmed
  stop is one; parameters are written only at rest and are verified; the drive has
  been told STOP when the tool ends.
- *Decoder*: a raw fault has the one name the catalogue gives it, or none, and the
  Rust and the Python decoder tell the operator the same.
- *Diagnostic*: one request goes out at most and none in a passive capture; the log
  shows what was on the line; the report is read when the capture is over.
- *Protocol library*: of the frames on a line only the drive's own answer passes for one,
  and it says what the drive said.

### What is hard

Nothing here runs in one thread of control. The servo thread samples pins that
LinuxCNC, the operator and the Modbus driver change one by one; the driver polls
and writes one register at a time, in an order of its own; the drive starts, stops
and trips by itself; any transaction may fail and a command that failed five times
keeps its last good value for ever; a session may end while the drive turns;
observers read 170 pins while they are being written. The diagnostic looks at a receiver
that goes on receiving, through a driver whose calls fail and whose packets get lost.
`PROJECT.json` lists these under `hazards`, each at the line where it bites and with the
properties that watch it.

## 2. Modules

| Module | Extends | Models |
|---|---|---|
| `Sequencer` | - | `Context::step` and the cycle around it, pins changed by anyone |
| `SequencerHistory` | `Sequencer` | a record of what the cycles did, for properties of a whole run |
| `SpindleContract` | - | abstract: what the sequencer promises the machine |
| `SequencerContract` | `Sequencer` | the refinement mapping from `Sequencer` to `SpindleContract` |
| `SpindleSystem` | `Sequencer` | the loop: `hm2_modbus` and its list, the drive, LinuxCNC |
| `SpindleRuns` | `SpindleSystem` | the loop with a record of the run it is in, for properties that hold although pins are old |
| `SpindleControl` | - | the commissioning tool, its maps and the drive |
| `VfdFault` | - | the drive's fault codes and what is shown of them, in Rust |
| `Protocol` | - | frames, CRC, responses, exceptions and fault codes, in Python |
| `HalComponent` | instances of `VfdFault`, `Protocol` | loading and unloading, and one cycle taken apart into its writes |
| `PktUart` | `Protocol` | the diagnostic, its scripts, the card, the line and the drive |
| `SequencerProofs`, `HalComponentProofs`, `PktUartProofs` | the module they are named for | theorems |
| `SpindleSystemProofs` | `SpindleRuns`, `SequencerProofs` | theorems of the loop |
| `SequencerBehaviourProofs` | `SequencerHistory`, `SequencerContract`, `SequencerProofs` | theorems of the history and of the contract |
| `ProtocolProofs`, which `PktUartProofs` extends | `Protocol` | theorems about the CRC |
| `SpindleControlProofs`, then `SpindleControlSafetyProofs` | `SpindleControl` | types and the effect of each step, then what the tool promises of the drive |
| `MCSequencer`, `MCInterlock`, `MCSystem`, `MCRuns`, `MCControl`, `MCComponent`, `MCPktUart` | the above | values for TLC |

### Sequencer

`pins` holds what `Input` is read from, grouped as its writers change it, `config`
the HAL parameters, `ctx` the `Context`, `out` the published pins. The straight-line
code of `step` before the state dispatch is a chain of functions on the context, in
the order of the code: `Validate` (`validate_internal_state`), `AcceptReset`,
`HoldFaulted`, `RefuseRequest`, `RefuseConfiguration`, `RefuseDirection`,
`DropRequest`; `Gated` is their composition. Each branch of the dispatch is an
action on the gated context: `HoldStopped`, `BeginArming`, `AwaitReadback`,
`StartRotation`, `AwaitSpeed`, `VerifySpeed`, `AwaitStop`, `FinishStop`,
`HoldFault`. `Commit` is the common end: the context is kept and the output
published. `configuration_block` and the checks of a run request are sequences of
codes with a condition each (`Blocks`, `Refuses`), and `FirstIn` takes the first
that holds: the code returns at the first failing check, and which one it reports is
part of what is modelled.

The environment (`SetRequest` ... `SetConfig`) changes one group at a time between
cycles, so a cycle may sample any mixture of old and new values. Frequencies are
exact fractions of 0.1 Hz where the code has an `f64`, and the rounding to the
register is the code's `(raw + 0.5) as u32`; a NaN or an infinite speed is the value
`NotFinite`, and `config.finite` says that no parameter is one. A `BlockRecord` is
known by its code: no property and no line of the sequencer reads the sampled
values it carries.

### SpindleSystem

Replaces the environment by actors. `hm2_modbus` (`bus`) goes through `CommandList`
in the order of the map: `Succeed` fetches the pins of a read or delivers a write,
`Fail` leaves the last values, counts the error and may raise the fault pin, `Skip`
passes a command that was disabled at the threshold. `ReleaseBus` is the HAL files'
release of communication, `ResetBus` the operator's. The drive obeys 0200H and 0201H
(`Obey`, `Delivered`), ramps through `Frequencies` (`Ramp`), drops its operating bit
some time after STOP (`LeaveOperation`) and may trip (`Trip`). LinuxCNC changes its
request at any moment, or, when `Patient`, only after the outcome of the last one is
reported. All of this is external code, modelled from the map, the driver's
attributes in it and the repository's README.

`SpindleRuns` adds `run`, written by every cycle and read by nothing in the loop:
`rest`, `begun` (a run word was published, no rotation sampled yet), `seen` (rotation was
sampled in this run) and `lost` (a run ended before, or the drive was found turning; left
for `rest` when the drive rests, its feedback says so and STOP is published). All that is
claimed of the drive itself is claimed in the first three; section 6 has what may happen in
the fourth.

### SpindleControl

One action per decision of the script: `Configure`, `CommunicationSeen`, `Settled`,
`Decide` (`decide_forward_command` and `encode_frequency_hz`), `SendRun`, `PollSees`,
`PollFails`, `RunEnds`, `StopConfirmed`, `Report` (the `status` command), `Preflight`,
`Verify`, `Close`; `WaitFails` is any timeout, `Interrupt` a KeyboardInterrupt in the
session and `InterruptClose` a second one, which leaves the session unclosed. `Leave` is the way
out through `finally`, with the STOP that `close` puts on the pin when the map can
write it. A drive may answer the write of F004, F005 or both and not take it (`locked`). Time is counted in bus transactions ("turns"), so that a sleep of the script is
compared with what the bus can send meanwhile.

### HalComponent

`Load` is `rtapi_app_main` call by call, each of which may fail (`StartupFails`), and
`rtapi_app_exit`; `hal_exit` may itself refuse (`ExitRefused`). A cycle is
`BeginCycle` (sample and step), `OpenSnapshot` (the odd generation), `WriteGroup` for
what was sampled, the codes, the kinds, the drive's pins and the evidence, and `CloseSnapshot`;
the pins of state, running, at-speed and main control are written in the same manner and left out. An
observer reads the counter, the groups in any order, and the counter again.
`Frames` is any output the step may have; that a latched fault has a code and its
record, which `FramesAssumption` requires of a frame, is what `FaultConsistent`
shows of `Sequencer`. The flags of the drive's fault are those of `VfdFault!decode`;
`NamedAlike` compares them, with the texts they stand for, with
`Protocol!decode_h100_fault`. A text is known by the words that tell it from the others,
the same in both modules.

### Protocol and PktUart

`Protocol` computes: a frame is a sequence of bytes, the CRC register the set of the
positions of its ones, and `parse_register_response` the first check that fails, or the
values. `PktUart` is the function of the diagnostic, one action per stage and branch
(`AwaitTrigger`, `BeginCapture` ... `Finished`), each preceded by the card's `BoardRead`,
which samples the receiver's status and performs what was queued the period before, or
by `PacketLost`. Between two periods frames arrive (`Echo`, `Answer`, `Joined`,
`Stray`), errors are raised (`Disturb`), the trigger moves. The receiver has a FIFO of
frame sizes and one of bytes, each frame filled up to whole words, so that a frame cut to
the buffer leaves its rest behind. The scripts are `Prepare`, `RaiseTrigger`, `Inspect`, mapped to the
read-only one; the passive one differs in the value of `send-request` and does not
ask whether the read function is there;
`Decode` is a reader of the log with the protocol library.

## 3. Runs

| Run | Checks | States | What it shows |
|---|---|---|---|
| `interlock` | `TypeOK` `FaultConsistent` `RunWordJustified` `NoRestartOnStandingRequest` `FaultKept` `FrequencyRetained` `NoReversalWithoutRest` `OneResetPerPress` `ImplementsContract` | 207 k | the state machine under every interleaving of requests, link loss, feedback either way and resets |
| `speed` | `FrequencyHeld` `ReadyHonest` `RunOnlyWhenPermitted` `AtSpeedHonest` | 1.2 M | RPM to register value and every limit around it, in both units |
| `system` | `SystemTypeOK` `RestIsReal` `ReversalAfterRest` `ClearAfterStop` `AtSpeedTrue` `ReadyIsFresh` | 1.1 M | in every run whose rotation was fed back, what is reported is true of the drive and nothing reaches it that it may get only at rest; a command given up never looks ready |
| `system_live` | `StopReachesDrive` `RunReachesSpeed` `TripEndsRun` `RestIsReal` `AtSpeedTrue` | 98 k | the three liveness properties, from a drive at rest or left turning, that ramps and may trip, and what is reported meanwhile |
| `control` | `TypeOK` `RunOnlyVerified` `StopConfirmedTrue` `ConfiguredAtRest` `ConfigurationVerified` | 2.1 M | the tool over failing links, timeouts, trips, unfavourable drives and interrupts, also of its own cleanup |
| `component` | `TypeOK` `CycleInitialised` `NothingLeftBehind` `SnapshotConsistent` `EvidenceExplains` `FaultNamed` | 760 k | loading that fails anywhere, cycles before `hal_ready`, snapshots read while written; two decoders that agree |
| `capture` | `TypeOK` `ReportInTime` `VerdictsTrue` `OnlyTheRequest` `CaptureFaithful` | 2.8 M | both capture scripts over a failing card and a line that carries anything at any moment |
| `stop_first`, `verified_frequency`, `direction_bit`, `direction_watched`, `finite_stop` | one property each | - | disagreements between code and documentation, section 6 |

Every property of a passing run has a mutant in `PROJECT.json`: a plausible mistake in
a modelled definition (a dropped guard, a missing reset, a swapped order), under
which TLC finds the property violated. They stand next to the definition they change,
and nothing else uses them.

Deadlock is checked wherever the system cannot stop. `control`, `finite_stop`, `capture`
and `component` have CHECK_DEADLOCK FALSE: the scripts end, and a component
whose `hal_exit` refused cannot be loaded again.

### Bounds, and why they are enough

- `interlock`: one speed, one configuration. The state machine looks at the speed
  only through comparisons, which `speed` covers; here every request (none, M3, M4,
  machine off), the link, the reset, four kinds of feedback (rest, turning either way,
  coasting without the operating bit) and a matching or zero readback vary
  independently. A fault of the drive differs from a lost link in its code only.
- `speed`: speeds below, at and above each RPM limit and one that is not finite; F011
  between a requested frequency and the value it rounds to (2016.67 and 2017); F005
  below F004; a frequency past 65535 in units of 0.01 Hz; feedback inside and outside
  the tolerance; F169 = 2; a drive fault. The rated speed is 240 rather than 24000 rpm
  because TLC's integers have 32 bits; the code's formula is a ratio of the two.
- `system*`: the seven reads of parameters are one entry of the list, since they
  precede all others and nothing else changes between them that they could see; the
  threshold is 2 for the driver's 5, so that a command fails once and recovers, and
  fails twice and is disabled. F169 = 0: at the finer unit only the numbers change. `system` has
  requests both ways, a status read that may fail and the reset of `hm2_modbus`, one speed
  and a drive found at rest; `system_live` one direction, and in exchange trips, a drive found
  turning, and a frequency that it shows on the way to the requested one. Together they are
  too many states; the theorems of section 5 have no such bounds. The reset button of the
  sequencer stays up: that is left to `interlock` and to the theorems.
- `control`: a turn is 50 ms on the live map and 100 ms on the others, so the sleeps of
  0.5 s are 10 or 5 turns and the 0.2 s of `close` 4. The run lasts 22 turns (1.1 s),
  the shortest for which the zero speed awaited after it cannot have been polled before
  the drive started: `StopConfirmedTrue` is a property of runs of at least that length.
- `component`: three items to register, so that a registration fails first, last and in
  between; a counter modulo 8 for 2^32, which comes round after four cycles; `MostAge`
  is the number of cycles that may publish during one reading, half the modulus less
  one. It is 2^31 - 1 cycles in the code; an observer stalled longer cannot tell.
  The decoders are compared on 0 .. 120, which holds all families with their
  neighbours, and on 65535.
- `capture`: two frames of eight bytes for the sixteen of 64, so that both loops end by
  their bound, the FIFO overflows, and echo and answer in one frame are too long; a wait
  of two periods for 150. The sleep of 15 periods is the shortest in which every capture ends when
  `halrun` takes one to raise the trigger; with the code's constants a capture takes
  1 + 5 + 150 + 1 + 2 * 16 + 1 = 190 periods of 1 ms, the trigger aside, and the sleep is
  500. Three frames arrive beside one the card may hold, one packet of the card is lost, a
  call fails with one code; an answer loses no bit, one, two, or two whole bytes. An answer
  is the output frequency or an abnormal response; a stray is noise or a write to another
  register.

### Fairness

Only `system_live` assumes any, and `direction_bit` the same. `WF(Control)`: the servo thread calls the
exported function every period. `WF(ReleaseBus \/ Transact)`: the HAL files release
the bus once, and `hm2_modbus` performs its next transaction; that it succeeds is not
fairness, the link of this run is reliable. `WF(Ramp \/ LeaveOperation)`: the drive
completes what it was told. Nothing is assumed of LinuxCNC, the operator, or trips.

## 4. What is assumed

- A cycle is atomic in `Sequencer` and `SpindleSystem`: it samples all inputs, computes and
  publishes within one call, and its writers are slower than it. `HalComponent` takes the
  publication apart for those who read it meanwhile.
- `RestIsReal`, `ReversalAfterRest`, `ClearAfterStop` and `AtSpeedTrue` say nothing of a `lost` run.
  The sequencer cannot tell the zero of a drive that has just been told to run from that of
  a drive at rest, and takes it for the end of any run that is withdrawn, refused or tripped before
  its rotation was fed back; it knows as little of a drive found turning. Without the exception
  TLC violates all four, `stop_first` being the shortest way (section 6). Nothing else is excluded:
  no patience of LinuxCNC, no order or failure of transactions, no trip and no ramp. `AtSpeedTrue` also
  takes the tolerance to be below F011; a larger one makes a standing spindle pass for one at
  speed.
- `Patient` is TRUE in `verified_frequency` only, which shows its violation even of a LinuxCNC
  that awaits the outcome of a request.
- A transaction that fails has no effect in the drive.
- `system` needs a drive that reports its direction bit; section 6 has the one that does not.
- Tool: a failed transaction raises the driver's fault pin; the initialisation list's own
  failures and delays are left out, because what `hm2_modbus` does after one is not in the
  repository; a drive that turns as soon as it is told. A session that was not closed may
  end or work on; while it does, `check_for_conflicting_processes` refuses another.
- Diagnostic: a queued read is performed by the next read function, or lost with its
  packet; a read of the sizes takes the ones counted and perhaps later ones; a frame that
  finds the FIFO full is dropped with an error; a send that fails may have sent. One servo
  period follows another without a gap. The size of a frame is a ten-bit field of a word that
  is never zero, and the buffer shorter than what that field can say. The drive answers with an
  exception or with the one register asked for; damage stays within two neighbouring bytes or is
  of a kind the CRC notices, and no other traffic reads as an answer to the request
  (`NoticedAssumption`, which only `SpecVerdictsTrue` uses, and which TLC evaluates for the
  frames of the run). Sixteen bits of CRC cannot promise that of any line whatever.
- HAL: `hal_exit` takes effect between two cycles. Writes become visible in program order, as on
  x86. An observer reads only a loaded component and starts anew when it is unloaded.

## 5. Proofs

Proved by TLAPS for every value of the constants, under the assumptions in the modules:

| Module | Theorems | Say |
|---|---|---|
| `SequencerProofs` | `SpecTypeOK`, `SpecFaultConsistent`, `SpecFrequencyHeld`, `SpecRunWordJustified` | the invariants of the sequencer |
| | `SpecFaultKept`, `SpecFrequencyRetained` | what no step may do to a latched fault and to a published frequency |
| | `SpecRunOnlyWhenPermitted`, `SpecReadyHonest`, `SpecAtSpeedHonest` | what a cycle that publishes a run word, `ready` or `at-speed` has sampled |
| `SequencerBehaviourProofs` | `HistoryNoRestartOnStandingRequest`, `HistoryNoReversalWithoutRest`, `HistoryOneResetPerPress` | no restart on a request that stood through a fault, no reversal without rest between, one reset per press |
| | `SpecImplementsContract` | `Sequencer` refines `SpindleContract` |
| `SpindleSystemProofs` | `SystemTypes`, `SystemReadyIsFresh` | the loop's types, and that `ready` needs every command below the threshold |
| | `SystemRestIsReal`, `SystemAtSpeedTrue` | what is reported of the spindle is so, for every ramp, trip, order, failure and age of the feedback, outside a `lost` run |
| | `SystemReversalAfterRest`, `SystemClearAfterStop` | what may not reach the drive while it turns, outside a `lost` run |
| `HalComponentProofs` | `SpecTypeOK`, `SpecCycleInitialised`, `SpecNothingLeftBehind` | the life of the component, any call of which may fail |
| | `SpecSnapshotConsistent`, `SpecEvidenceExplains` | what the generation counter accepts, for every even modulus |
| | `DecodersAlwaysAgree`, `SpecFaultNamed` | the Rust and the Python decoder agree on every number, and so does every accepted snapshot |
| `SpindleControlProofs` | `SpecTypeOK` | the tool, its bus and the drive keep their types |
| `SpindleControlSafetyProofs` | `SpecRunOnlyVerified`, `SpecStopConfirmedTrue` | what holds when RUN reaches the drive, and when a stop is confirmed |
| | `SpecConfigurationVerified`, `SpecConfiguredAtRest` | what a reported configuration means, and when parameters are written |
| `PktUartProofs` | `SpecTypeOK`, `SpecOnlyTheRequest`, `SpecReportInTime` | buffers of any size stay within bounds, one request at most, a report in time |
| | `SpecCaptureFaithful` | a finished capture shows the line, whole and in order, for every size of log, buffer and FIFO |
| | `SpecVerdictsTrue`, `SpecLoggedWhole` | in a log of whole frames exactly the drive's answers are taken for answers; when the log is one |
| `ProtocolProofs` | `AppendedVerifies`, `BurstNoticed` | what the CRC accepts, and which damage it notices, for frames of every length |

*Sequencer.* `TypeOK` is not inductive: the register value of a run is typed only because
every gate was passed, and the publication only because of what the context holds. The
invariant `IInv` is `TypeOK`, `Good(ctx)`, `RunWordJustified` and
`out.given_frequency = ctx.held_frequency`, where `Good` says that the context is typed,
that latch, code, record and state agree (`Consistent`) and that the held frequency and
direction suit the state (`Held`). The proof follows the cycle: `SampledGood`, `LatchGood`
and `GatedGood` show that each gate keeps `Good`; `RequestedFrequency` that a request
which passed every check has a register value in 1 .. 65535 (from `Rounding`, exact
arithmetic on the fraction); `HoldGood` and `ReleaseGood` serve the nine branches of
`CycleIInv`. The codes are found by `FirstIn`, a least element, hence `LeastElement`.
`RunOnlyWhenPermitted` and `ReadyHonest` need `BlockedOrReady`: no code blocks exactly
when the preconditions, stated independently of the order of the checks, hold. The
rounding part of `RunOnlyWhenPermitted` says that a frequency at or above F011 and at or
below F005 still is after rounding, since both are whole.

*History and contract.* The record of `SequencerHistory` means nothing without the context it
belongs to: `HistoryInv` ties the last direction turned in to the direction held, a
standing request to a latched fault, and a press spent to the reset pin
remembered. `TripOutlives` says that only a cycle at rest that accepts a reset ends a fault. The contract has four phases, read off the context (`PhaseOf`,
`PhaseAfter`); each branch of the dispatch is then one action of it or a stutter, from
`IInv`, and a change of a pin is one only when it is the feedback.

*System.* `LoopInv` is `IInv`, the types of bus and drive, and `Joined`: a disabled
command is one the sequencer is told of. `Joined` is what makes `ReadyIsFresh` true, and
needs the error counts to stay at or below the threshold. `IInv` holds in the loop because its
steps are steps of the sequencer (`ReadyCycle`) or changes of its pins (`PinsIInv`,
`OthersPins`). The other four need `Phase`, which says for each phase of `run` what drive,
sequencer and feedback have in common, and nothing of how old a pin is. In `rest` the drive rests
and the feedback shows it (`Resting`), so that whatever is read shows rest again. In `begun`
(`Begun`) the drive still rests, or it has been given the run word and does what that says, and feedback
of operation or rotation can come from this run only. In `seen` (`Seen`) a drive that has neither been told STOP
nor tripped turns, and a zero frequency or a missing operating bit in the feedback was
read from one that had been: what a stale zero of before the run can forge in `begun`, it
cannot here. The lemmas go by who moves: the cycle from phase to
phase (`CyclePhase`), each command of the list (`FetchedPhase`, `ControlPhase`,
`FrequencyPhase`), the drive (`RampPhase`, `HaltPhase`). A failing command changes the link only,
on which no phase depends (`PhaseFrame`), so that failures need no exception. `AtSpeedTrue` is
`VerifiedTurns`: no verified run is slower than F011, by the preconditions of a run, and so a frequency
within a tolerance below F011 of it is not zero.

*HAL component.* `HInv` says where the loading is and so what is registered (`Lifecycle`), of
which frame each group of pins is (`Published`), that the component's counter is the
pins' with the parity of the place in the cycle (`Counted`), and of a reading (`Reading`)
that the counter is the one first read plus twice its age, modulo `Modulus`, and that a
reading of age 0 has seen one publication. `MostAge` below half the modulus is what makes an equal counter
mean age 0 (`NoRevolution`). The decoders are compared by their arithmetic: a code lies at
most three above the base of one family, or in none, for every number.

*Commissioning tool.* `SessionInv` adds to the types which map is loaded at each place
(`Session`), that a parameter pin that has been read holds what the drive holds
(`ReadBack`), and that a reported success is one of both registers (`Done`).
`ConfigurationVerified` follows. `RunInv` adds what the bus has fetched by the turn it is at
(`Hearing`: a pin that may still be stale means that its command is yet to come in this
round), what the decision rests on (`Deciding`) and what holds while RUN is on the pin
(`Running`); `Resting` counts the turns of a run, so that a zero seen after it was read
after the start; `Writing` is the same for the maps that configure. Their hypotheses are
tight, TLC violates the properties without them:
`TurnsAssumption` gives the sleep of 0.5 s its ten turns of the live map;
`SpecStopConfirmedTrue` needs a run of 22 turns (at 21 the zero of before the run may be the one
awaited after it); `SpecConfiguredAtRest` needs the STOP and the F005 of the
initialisation list to arrive, `hm2_modbus` going on after one that did not, and a drive
that is not found with F004 above 400 Hz and does not take F004 alone.

*Diagnostic.* `PktInv` is the types, and for each stage what it says of the counters and the
log (`Staged`), of the request (`Requested`: none sent in stages 0 and 1, and the script
asleep only when the pin says what its mode says), of the trigger (`Triggered`), and of the time:
`Pace` is the period in which a capture that began as late as it may is where it is, and the
script has slept no longer (`Paced`). Each action is a lemma; `PeriodGoesOn` and
`PeriodEnded` serve all of the function. `SpecReportInTime` has the hypothesis `SleepSuffices`,
latency, wait, two periods a frame, and eight; one period less and TLC
finds the report missed.
`CaptureFaithful` needs `CaptureInv`, which holds while the capture is `Whole` (no packet lost, no
frame longer than the buffer) and says where each frame the line carried is: the frame FIFO has the
sizes of the last ones (`SizesInOrder`), the data FIFO the bytes of those that were not fetched,
each from a word on (`Placed`; where each begins is a function that exists, since a sum over a
sequence is a recursion), the log the first ones (`LoggedInOrder`), and for each stage what the
function holds between the two (`Waiting`, `Listing`, `Looking`, `Fetching`).
For the verdicts, everything received is the echo, an answer as sent or damaged, both in one, or
other traffic (`ReceivedHeard`), and the verdicts are those of the frames in the log (`LogJudged`).
`JudgedTrue` goes through the kinds: an answer is read as what the drive said (`AnswerRead`), a
damaged one is refused by `BurstNoticed` (`DamageNoticed`), an echo or a joined frame has the wrong
length, a lost read gives zeros. It needs each frame in the log to be one of those or zeros
(`LoggedWhole`), which follows from `Whole`. The bytes of the request are those of the protocol library by
`RequestAssumption`, an equation without constants or variables that TLC evaluates: its CRC is a fold
over the bytes, and no theorem says what a fold is on given numbers.

*Protocol library.* The CRC is a fold over a frame of any length. The induction principles of the
library take an operator and cannot be used, so `LeastNumber` takes the least counterexample from
`WFMin`, and `FoldExists` shows that the fold is a function on the beginnings of a sequence with the
equation expected of it (`CrcRegisters`). One division step tells any two registers apart
(`DivideApart`), hence so do eight (`EightApart`): two frames that agree but in two neighbouring
bytes have the same register before them, different ones after them, since two bytes fill the
sixteen bits (`TwoTaken`, `TwoApart`), and so to the end, whatever follows. `Residue` says that
`verify_crc` accepts exactly the frames whose register is empty after all their bytes, those of the
CRC included, which is what makes damage to the CRC bytes a case of the same argument.

*Only model-checked*: liveness (`StopReachesDrive`, `RunReachesSpeed`, `TripEndsRun`; outside the
prover's reach, as is ENABLED); and `VerdictsTrue` of a log that is not whole. After a lost packet
or a frame cut to the buffer the log may hold a mixture of two frames; that its CRC does not match
is so of the frames of the run, and cannot be so of all.

## 6. Where the code and its documentation differ

- `stop_first`: when the polled feedback still shows rest, the cycle that publishes STOP
  clears the frequency in the same cycle (`step.rs:345`); if 0200H has just had its turn, 0201H = 0
  reaches the drive before STOP. The map (`h100-spindle.mbccs:99-101`) says the order of the
  writes guarantees the opposite.
- `verified_frequency`: the readback compared before a run (`step.rs:308`) may be left over from
  an earlier run at the same frequency; the run word then reaches the drive before the
  frequency. README.md:203-204 says it is written and read back first.
- `direction_bit`: README.md:220-224 says that the drive does not assert its direction bit and that
  `at-speed` does not need it; the code (`step.rs:333`) needs it for M3, which never becomes
  `at-speed` with such a drive.
- `direction_watched`: the direction is compared in Running only (`step.rs:266`); a confirmed run
  whose speed changes is in Starting, where a changed direction is not latched as
  README.md:213-215 says.
- `finite_stop`: after an error or an interrupt during the run only `close` sets STOP, 0.2 s before the
  session ends (`spindle_control.py:257`), shorter than a round of thirteen commands at 50 ms: STOP
  may never be sent, although the tool is said to run one test "then stop" (`:486`).

Two remarks no run is about. The stale rest of `stop_first` may also end an M3 that is withdrawn before
its rotation is fed back: the direction is compared with the held one in active states only
(`step.rs:191`), and Stopped begins a run without a look at the feedback, so that the M4 after
it reaches a drive that turns the other way, even though 0210H may read in-operation by then
(README.md:223-224 has the sequencer refuse "a direction change while operating"). TLC finds it, 33 states long,
when `run # "lost"` is taken out of `ReversalAfterRest`. And
`run-readonly-capture.sh:106` writes `transmitted_bytes=8` into its
report whatever happened; when `hm2_pktuart_config` fails nothing was sent, and only `result` says so.

## 7. Not modelled

- The names, kinds and slugs of pins and the exact texts of codes and faults (checked by the
  crate's own tests), hence "partly" for the registration; the sampled values inside a fault's
  evidence; logging and the panic handler.
- The validation-only paths of the tool, which change no state; failures in the initialisation
  list (section 4); the link-diagnostic map, which nothing in the repository loads.
- Of the capture scripts, process and file handling, and an interrupt, which only unloads; of the
  diagnostic, ports, rates, filters and the transmit status, which it only shows.
- Build and verification scripts: no run-time state.

## 8. Plan

Done, in this order: `Sequencer` with its history and contract; `SpindleSystem`;
`SpindleControl`; `HalComponent`; `VfdFault` and `Protocol`; `PktUart`; and the proofs of section 5.

Left: a log that mixes frames (section 5), for which the CRC promises nothing in general; the
transactions of the initialisation lists (section 4), if `hm2_modbus` itself became part of the model.

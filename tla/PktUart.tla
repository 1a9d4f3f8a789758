------------------------------- MODULE PktUart -------------------------------
(***************************************************************************)
(* diagnostics/pktuart: the one-shot HAL component pktuart_echo_diag, which *)
(* sends at most one read request over the Mesa card and logs what the     *)
(* receiver collects, the two scripts that run it, and the decoding of the *)
(* frames it logged with the protocol library.                             *)
(*                                                                         *)
(* A servo period is two steps: hm2 read (BoardRead) samples the receive   *)
(* status and performs the reads queued in the period before; then the     *)
(* component's function runs, one action per stage and branch.  Frames     *)
(* arrive between the function and the next read.  The card and its        *)
(* driver, the line and the drive are external: a driver call may fail, a  *)
(* packet of the card may be lost, and the line may carry anything.        *)
(***************************************************************************)
EXTENDS Protocol, FiniteSetsExt

CONSTANTS
    Modes,                   \* the scripts that may be run: "passive", "readonly"
    WAIT_AFTER_SEND_CYCLES,
    MAX_CAPTURE_FRAMES,      \* also the depth of the receiver's frame FIFO
    MAX_CAPTURE_BYTES,
    SleepCycles,             \* servo periods in the script's sleep after the trigger
    Latency,                 \* of them, how many halrun may take to set the trigger
    Failures,                \* what a failing driver call returns
    Answers,                 \* payloads the drive may answer with
    Strays,                  \* frames on the line that are neither echo nor answer, with
                             \* the error flags of their size words
    MostArrivals,            \* how many frames arrive, at most
    Damages,                 \* the sets of bits that the line may flip in an answer
    MostLost                 \* how many packets of the card are lost, at most

ASSUME ModesAssumption == Modes \subseteq {"passive", "readonly"}
ASSUME SizesAssumption ==
    /\ WAIT_AFTER_SEND_CYCLES \in Nat \ {0}
    /\ MAX_CAPTURE_FRAMES \in Nat \ {0} /\ MAX_CAPTURE_BYTES \in 1 .. 1023
    /\ SleepCycles \in Nat /\ Latency \in Nat /\ MostArrivals \in Nat /\ MostLost \in Nat
ASSUME FailuresAssumption == Failures \subseteq Int /\ \A f \in Failures : f < 0
ASSUME FramesAssumption ==
    /\ \A answer \in Answers : answer \in Seq(Byte)
    /\ \A stray \in Strays :
         /\ stray.frame \in Seq(Byte) /\ stray.flags \in Nat /\ stray.flags % 1024 = 0
         /\ Len(stray.frame) + stray.flags # 0   \* the receiver gives no frame the size 0
    /\ {} \in Damages /\ \A bits \in Damages : bits \subseteq Nat

VARIABLES
    diag,   \* the component's static variables
    pins,   \* its pins
    log,    \* the frames print_frame has logged
    board,  \* the Mesa card: receiver, queued reads, what the last hm2 read sampled
    line,   \* what was sent and received since the reset, what the drive answered
    script  \* the capture script

pktuartVars == <<diag, pins, log, board, line, script>>

-----------------------------------------------------------------------------
(* The component *)

request == <<1, 4, 0, 0, 0, 1, 49, 202>>

\* The bytes of the .comp are those the protocol library builds.
ASSUME RequestAssumption ==
    request = read_registers_request(FUNCTION_READ_INPUT_REGISTERS, 0, 1, 1)

Zeros(n) == [i \in 1 .. n |-> 0]
NoSizes == Zeros(MAX_CAPTURE_FRAMES)

\* The function's first lines: the status pins, and a trigger that is low is forgotten.
now == [diag EXCEPT !.trigger_seen = @ /\ pins.trigger]

Run(d, p) ==
    /\ script.at = "sleeping" /\ board.fresh
    /\ diag' = d
    /\ pins' = [p EXCEPT !.rx_status = board.sampled, !.state = diag.stage]
    /\ UNCHANGED script

\* Stage 7 is the last: nothing leads out of it.
Finish(d, p, result) == Run([d EXCEPT !.stage = 7], [p EXCEPT !.done = TRUE, !.result = result])

Spent == board' = [board EXCEPT !.fresh = FALSE]

AwaitTrigger ==
    /\ diag.stage = 0 /\ (~pins.trigger \/ now.trigger_seen)
    /\ Run(now, pins)
    /\ Spent /\ UNCHANGED <<log, line>>

\* The receiver is reset and emptied before it is configured.
BeginCapture ==
    /\ diag.stage = 0 /\ pins.trigger /\ ~now.trigger_seen
    /\ LET d == [stage |-> 1, cycles |-> 0, current_frame |-> 0, pending_bytes |-> 0,
                 trigger_seen |-> TRUE, sizes |-> NoSizes, rx_words |-> <<>>]
           p == [pins EXCEPT !.done = FALSE, !.result = 0, !.frame_count = 0]
       IN  Run(d, p) \/ \E retval \in Failures : Finish(d, p, retval)
    /\ board' = [board EXCEPT !.fresh = FALSE, !.sizes = <<>>, !.bytes = <<>>, !.errors = {}]
    /\ line' = [line EXCEPT !.received = <<>>]
    /\ UNCHANGED log

Counted == [now EXCEPT !.cycles = @ + 1]
Settled == diag.stage = 1 /\ Counted.cycles >= 5

Settle ==
    /\ diag.stage = 1 /\ Counted.cycles < 5
    /\ Run(Counted, pins)
    /\ Spent /\ UNCHANGED <<log, line>>

ListenOnly ==
    /\ Settled /\ ~pins.send_request
    /\ Run([now EXCEPT !.cycles = 0, !.stage = 2], pins)
    /\ Spent /\ UNCHANGED <<log, line>>

\* Mutant of SendRequest: a send that reports an error is tried again.
SendRequest_mutant ==
    /\ Settled /\ pins.send_request
    /\ \/ /\ Run([now EXCEPT !.cycles = 0, !.stage = 2], pins)
          /\ line' = [line EXCEPT !.sent = Append(@, request)]
       \/ /\ Failures # {} /\ Run(now, pins)
          /\ line' \in {line, [line EXCEPT !.sent = Append(@, request)]}
    /\ Spent /\ UNCHANGED log

\* A send that reports an error may have put the request on the line or not.
SendRequest ==
    /\ Settled /\ pins.send_request
    /\ \/ /\ Run([now EXCEPT !.cycles = 0, !.stage = 2], pins)
          /\ line' = [line EXCEPT !.sent = Append(@, request)]
       \/ /\ \E retval \in Failures : Finish(Counted, pins, retval)
          /\ line' \in {line, [line EXCEPT !.sent = Append(@, request)]}
    /\ Spent /\ UNCHANGED log

Collected == diag.stage = 2 /\ Counted.cycles >= WAIT_AFTER_SEND_CYCLES

Collect ==
    /\ diag.stage = 2 /\ Counted.cycles < WAIT_AFTER_SEND_CYCLES
    /\ Run(Counted, pins)
    /\ Spent /\ UNCHANGED <<log, line>>

\* Mutant of ReceiverErrors: an overrun is not looked at.
ReceiverErrors_mutant == {"parity", "rcfifo", "startbit"}

ReceiverErrors == {"parity", "rcfifo", "overrun", "startbit"}

NoFrames ==
    /\ Collected /\ board.sampled.frames = 0
    /\ Finish(Counted, [pins EXCEPT !.frame_count = 0],
              IF board.sampled.errors \cap ReceiverErrors # {} THEN -2 ELSE 1)
    /\ Spent /\ UNCHANGED <<log, line>>

QueueSizes ==
    /\ Collected /\ board.sampled.frames > 0
    /\ LET d == [Counted EXCEPT !.sizes = NoSizes]
           p == [pins EXCEPT !.frame_count = board.sampled.frames]
       IN  \/ /\ Run([d EXCEPT !.stage = 3], p)
              /\ board' = [board EXCEPT !.fresh = FALSE, !.queued = "sizes"]
           \/ /\ \E retval \in Failures : Finish(d, p, retval)
              /\ Spent
    /\ UNCHANGED <<log, line>>

SizesRead ==
    /\ diag.stage = 3
    /\ Run([now EXCEPT !.current_frame = 0, !.stage = 4], pins)
    /\ Spent /\ UNCHANGED <<log, line>>

\* current_frame counts from 0.
Size == diag.sizes[diag.current_frame + 1]
AllRead == diag.stage = 4 /\ ~(diag.current_frame < MAX_CAPTURE_FRAMES /\ Size # 0)

Complete ==
    /\ AllRead
    /\ Finish(now, pins, 1)
    /\ Spent /\ UNCHANGED <<log, line>>

\* Mutant of Count: the length is not limited to the buffer.
Count_mutant == Size % 1024

\* The low ten bits of a size word are the length.
Count == LET length == Size % 1024
         IN  IF length > MAX_CAPTURE_BYTES THEN MAX_CAPTURE_BYTES ELSE length

QueueData ==
    /\ diag.stage = 4 /\ ~AllRead
    /\ LET d == [now EXCEPT !.pending_bytes = Count, !.rx_words = <<>>]
       IN  \/ /\ Run([d EXCEPT !.stage = 5], pins)
              /\ board' = [board EXCEPT !.fresh = FALSE, !.queued = "data"]
           \/ /\ \E retval \in Failures : Finish(d, pins, retval)
              /\ Spent
    /\ UNCHANGED <<log, line>>

\* Mutant of PrintFrame: the next frame is not moved on to.
PrintFrame_mutant ==
    /\ diag.stage = 5
    /\ log' = Append(log, SubSeq(diag.rx_words \o Zeros(diag.pending_bytes), 1, diag.pending_bytes))
    /\ Run([now EXCEPT !.stage = 4], pins)
    /\ Spent /\ UNCHANGED line

\* rx_words was cleared before it was read into.
PrintFrame ==
    /\ diag.stage = 5
    /\ log' = Append(log, SubSeq(diag.rx_words \o Zeros(diag.pending_bytes), 1, diag.pending_bytes))
    /\ Run([now EXCEPT !.current_frame = @ + 1, !.stage = 4], pins)
    /\ Spent /\ UNCHANGED line

Finished ==
    /\ diag.stage = 7
    /\ Run(now, pins)
    /\ Spent /\ UNCHANGED <<log, line>>

Function ==
    \/ AwaitTrigger \/ BeginCapture \/ Settle \/ ListenOnly \/ SendRequest \/ Collect \/ NoFrames
    \/ QueueSizes \/ SizesRead \/ Complete \/ QueueData \/ PrintFrame \/ Finished

-----------------------------------------------------------------------------
(* The card and its driver *)

RxStatus == [frames |-> Len(board.sizes), errors |-> board.errors]

\* The bytes in the words of the data FIFO that hold n; each frame starts a word.
InWords(n) == 4 * ((n + 3) \div 4)

\* What the queued read does: the sizes of the frames counted, at least, leave the frame
\* FIFO; the words that hold the pending bytes leave the data FIFO.
Performed(d, b) ==
    CASE b.queued = "sizes" ->
            {<<[d EXCEPT !.sizes = [i \in 1 .. MAX_CAPTURE_FRAMES |-> IF i <= n THEN b.sizes[i] ELSE 0]],
               [b EXCEPT !.sizes = SubSeq(@, n + 1, Len(@))]>> :
             n \in pins.frame_count .. Len(b.sizes)}
      [] b.queued = "data" ->
            LET count == Min({InWords(d.pending_bytes), Len(b.bytes)})
            IN  {<<[d EXCEPT !.rx_words = SubSeq(b.bytes, 1, count)],
                   [b EXCEPT !.bytes = SubSeq(@, count + 1, Len(@))]>>}
      [] OTHER -> {<<d, b>>}

Passing ==
    /\ script.at = "sleeping" /\ ~board.fresh /\ script.waited < SleepCycles
    /\ pins.trigger \/ script.raised \/ script.waited < Latency
    /\ script' = [script EXCEPT !.waited = @ + 1]

BoardRead ==
    /\ Passing
    /\ \E after \in Performed(diag, board) :
         /\ diag' = after[1]
         /\ board' = [after[2] EXCEPT !.fresh = TRUE, !.queued = "nothing", !.sampled = RxStatus]
    /\ UNCHANGED <<pins, log, line>>

\* A packet is lost on its way to the card, or on its way back: the status is the one of
\* the period before, and what was to be read into stays as it was. (In stage 7 nothing
\* is read any more.)
PacketLost ==
    /\ Passing /\ line.lost < MostLost /\ diag.stage # 7
    /\ \E after \in Performed(diag, board) \cup {<<diag, board>>} :
         board' = [after[2] EXCEPT !.fresh = TRUE, !.queued = "nothing"]
    /\ line' = [line EXCEPT !.lost = @ + 1]
    /\ UNCHANGED <<diag, pins, log>>

-----------------------------------------------------------------------------
(* The line and the drive *)

Flipped(frame, bits) ==
    [i \in DOMAIN frame |->
        ByteAt(Xor(Bits(frame[i]), {b - 8 * (i - 1) : b \in bits \cap (8 * (i - 1) .. 8 * i - 1)}), 0)]

\* What reads as an answer to the request: an exception, or registers as many as it says.
ReadsAsAnswer(frame) ==
    /\ Len(frame) >= 5 /\ verify_crc(frame) /\ frame[1] = 1
    /\ \/ frame[2] = FUNCTION_READ_INPUT_REGISTERS + 128 /\ Len(frame) = 5
       \/ /\ frame[2] = FUNCTION_READ_INPUT_REGISTERS
          /\ frame[3] # 0 /\ frame[3] % 2 = 0 /\ Len(frame) = frame[3] + 5

\* The drive answers with an exception or with the one register asked for.
ASSUME AnswersAssumption ==
    \A answer \in Answers :
        \/ \E code \in Byte : answer = <<1, FUNCTION_READ_INPUT_REGISTERS + 128, code>>
        \/ \E high, low \in Byte : answer = <<1, FUNCTION_READ_INPUT_REGISTERS, 2, high, low>>

\* What keeps within two neighbouring bytes.
Burst(bits, frame) == \E k \in 0 .. Len(frame) - 2 : bits \subseteq 8 * k .. 8 * k + 15

\* Sixteen bits cannot tell all frames apart: the damage is a burst, or it happens to be of
\* a kind the CRC notices, and no other traffic reads as an answer to the request.
ASSUME NoticedAssumption ==
    /\ \A answer \in Answers, bits \in Damages :
         LET sent == append_crc(answer)
             frame == Flipped(sent, bits)
         IN  Burst(bits, sent) \/ frame = sent \/ ~verify_crc(frame)
    /\ \A stray \in Strays : ~ReadsAsAnswer(stray.frame)

\* The last word of a frame is filled up.
FilledUp(frame) == SubSeq(frame \o <<0, 0, 0>>, 1, InWords(Len(frame)))

\* The line is modelled while the diagnostic works: the reset takes away what came before,
\* and what comes after stage 7 is seen by the status pins only.
Listening == script.at = "sleeping" /\ ~board.fresh /\ diag.stage \notin {0, 7}

\* A frame that finds the FIFO full is dropped, with an error. flags are those of the
\* size word.
Arrive(frame, flags, l) ==
    /\ Listening /\ line.arrivals < MostArrivals
    /\ IF Len(board.sizes) < MAX_CAPTURE_FRAMES
       THEN /\ board' = [board EXCEPT !.sizes = Append(@, Len(frame) + flags),
                                      !.bytes = @ \o FilledUp(frame)]
            /\ line' = [l EXCEPT !.arrivals = @ + 1, !.received = Append(@, frame)]
       ELSE /\ board' = [board EXCEPT !.errors = @ \cup {"rcfifo"}]
            /\ line' = [l EXCEPT !.arrivals = @ + 1]
    /\ UNCHANGED <<diag, pins, log, script>>

Echoed == [line EXCEPT !.echoed = TRUE]

\* The receiver hears what is sent.
Echo == line.sent # <<>> /\ ~line.echoed /\ Arrive(request, 0, Echoed)

\* The drive answers the request, once.
Answer ==
    /\ line.sent # <<>> /\ line.answer = <<>>
    /\ \E payload \in Answers :
       LET frame == append_crc(payload)
       IN  \E bits \in Damages :
              Arrive(Flipped(frame, bits), 0, [line EXCEPT !.answer = payload])

\* Echo and answer with too short a gap between them make one frame.
Joined ==
    /\ line.sent # <<>> /\ ~line.echoed /\ line.answer = <<>>
    /\ \E payload \in Answers :
         Arrive(request \o append_crc(payload), 0, [Echoed EXCEPT !.answer = payload])

\* Noise, marked with its errors, or the traffic of another master.
Stray == \E stray \in Strays : Arrive(stray.frame, stray.flags, line)

\* The line raises an error without making a frame.
Disturb ==
    /\ Listening /\ board.errors = {}
    /\ board' \in {[board EXCEPT !.errors = {e}] : e \in {"startbit", "overrun"}}
    /\ UNCHANGED <<diag, pins, log, line, script>>

Happen == Echo \/ Answer \/ Joined \/ Stray \/ Disturb

-----------------------------------------------------------------------------
(* The capture scripts *)

\* send-request is set, which may not be taken; the card's packet-error, what was loaded
\* and send-request are read back. The script goes to sleep as soon as it has told
\* halrun to raise the trigger.
Prepare ==
    /\ script.at = "start"
    /\ \E set \in BOOLEAN, healthy \in BOOLEAN :
         /\ pins' = [pins EXCEPT !.send_request = IF set THEN script.mode = "readonly" ELSE @]
         /\ script' = [script EXCEPT !.at =
                          IF healthy /\ (pins'.send_request = (script.mode = "readonly"))
                          THEN "sleeping" ELSE "ended"]
    /\ UNCHANGED <<diag, log, board, line>>

\* halrun takes the command.
RaiseTrigger ==
    /\ script.at = "sleeping" /\ ~script.raised /\ ~board.fresh
    /\ pins' = [pins EXCEPT !.trigger = TRUE]
    /\ script' = [script EXCEPT !.raised = TRUE]
    /\ UNCHANGED <<diag, log, board, line>>

\* Somebody lowers the trigger after the capture, and raises it again.
MoveTrigger ==
    /\ script.at = "sleeping" /\ diag.stage = 7 /\ ~board.fresh
    /\ pins' = [pins EXCEPT !.trigger = ~@]
    /\ UNCHANGED <<diag, log, board, line, script>>

\* After the sleep the script reads the pins, stops the thread and unloads everything.
Inspect ==
    /\ script.at = "sleeping" /\ ~board.fresh /\ script.waited = SleepCycles
    /\ script' = [script EXCEPT !.at = "inspected", !.done = pins.done, !.result = pins.result]
    /\ UNCHANGED <<diag, pins, log, board, line>>

\* The frames in the log are decoded as answers to the request.
Decode ==
    /\ script.at = "inspected"
    /\ script' = [script EXCEPT !.at = "ended", !.verdicts =
                     [i \in DOMAIN log |->
                         parse_register_response(log[i], FUNCTION_READ_INPUT_REGISTERS, 1)]]
    /\ UNCHANGED <<diag, pins, log, board, line>>

-----------------------------------------------------------------------------
(* The specification *)

\* The card may hold a frame and an error from before.
Init ==
    /\ diag = [stage |-> 0, cycles |-> 0, current_frame |-> 0, pending_bytes |-> 0,
               trigger_seen |-> FALSE, sizes |-> NoSizes, rx_words |-> <<>>]
    /\ pins = [trigger |-> FALSE, send_request |-> TRUE, done |-> FALSE, result |-> 0,
               state |-> 0, rx_status |-> [frames |-> 0, errors |-> {}], frame_count |-> 0]
    /\ log = <<>>
    /\ \E frame \in {<<>>} \cup {stray.frame : stray \in Strays}, errors \in {{}, {"overrun"}} :
         board = [sizes |-> IF frame = <<>> THEN <<>> ELSE <<Len(frame)>>,
                  bytes |-> FilledUp(frame),
                  errors |-> errors, queued |-> "nothing", fresh |-> FALSE,
                  sampled |-> [frames |-> 0, errors |-> {}]]
    /\ line = [sent |-> <<>>, echoed |-> FALSE, answer |-> <<>>, received |-> <<>>,
               arrivals |-> 0, lost |-> 0]
    /\ \E mode \in Modes :
         script = [at |-> "start", mode |-> mode, raised |-> FALSE, waited |-> 0, done |-> FALSE,
                   result |-> 0, verdicts |-> <<>>]

Next ==
    \/ Function \/ BoardRead \/ PacketLost \/ Happen
    \/ Prepare \/ RaiseTrigger \/ MoveTrigger \/ Inspect \/ Decode

Spec == Init /\ [][Next]_pktuartVars

-----------------------------------------------------------------------------
(* Properties *)

Status == [frames : 0 .. MAX_CAPTURE_FRAMES,
           errors : SUBSET {"parity", "rcfifo", "overrun", "startbit"}]

TypeOK ==
    /\ diag.stage \in {0, 1, 2, 3, 4, 5, 7} /\ diag.trigger_seen \in BOOLEAN
    /\ diag.cycles \in 0 .. 5 + WAIT_AFTER_SEND_CYCLES
    /\ diag.current_frame \in 0 .. MAX_CAPTURE_FRAMES
    /\ diag.pending_bytes \in 0 .. MAX_CAPTURE_BYTES
    /\ diag.sizes \in [1 .. MAX_CAPTURE_FRAMES -> Nat] /\ diag.rx_words \in Seq(Byte)
    /\ Len(diag.rx_words) <= InWords(MAX_CAPTURE_BYTES)
    /\ pins.result \in {0, 1, -2} \cup Failures /\ pins.frame_count \in 0 .. MAX_CAPTURE_FRAMES
    /\ pins.rx_status \in Status /\ board.sampled \in Status
    /\ (\A i \in DOMAIN log : log[i] \in Seq(Byte)) /\ Len(log) <= MAX_CAPTURE_FRAMES
    /\ board.queued \in {"nothing", "sizes", "data"}
    /\ line.arrivals \in 0 .. MostArrivals /\ line.lost \in 0 .. MostLost
    /\ script.waited \in 0 .. SleepCycles

\* Whatever the driver returns and the trigger does, one request goes out at most, it is
\* the read of the output frequency as the protocol library builds it, and the passive
\* script sends nothing even when the pin it sets does not take the value (README.md,
\* "exactly one possible request"; "Passive capture transmitted zero bytes").
OnlyTheRequest ==
    [][line'.sent # line.sent =>
         /\ line.sent = <<>> /\ script.mode = "readonly"
         /\ line'.sent =
              <<read_registers_request(FUNCTION_READ_INPUT_REGISTERS, 0, 1, 1)>>]_pktuartVars

\* A capture that ends with result 1, while no packet was lost, shows the line since the
\* reset: every frame counted and the ones that came until the sizes were read, whole and
\* in order; or none, when nothing had come and the receiver saw no error. A frame
\* longer than MAX_CAPTURE_BYTES leaves its rest in the way of the frames after it.
CaptureFaithful ==
    [][/\ pins'.done /\ ~pins.done /\ pins'.result = 1 /\ line.lost = 0
       /\ \A i \in DOMAIN line.received : Len(line.received[i]) <= MAX_CAPTURE_BYTES
       => IF pins'.frame_count = 0 THEN line.received = <<>> /\ board.errors = {}
          ELSE IsPrefix(log, line.received) /\ Len(log) >= pins'.frame_count]_pktuartVars

\* When the script reads the pins after its sleep, the capture is over (pin done: "Set
\* after all captured frames have been reported").
ReportInTime == script.at = "inspected" => script.done /\ script.result # 0

\* Of the logged frames exactly those are taken for an answer that are the drive's, bit
\* for bit, and they say what the drive said: never the echo, another master's request,
\* an answer that lost bits, or the zeros of a read that was lost.
Genuine(frame) == line.answer # <<>> /\ frame = append_crc(line.answer)
VerdictsTrue ==
    \A i \in DOMAIN script.verdicts :
        LET verdict == script.verdicts[i]
        IN  /\ verdict.error \in {"none", "exception"} <=> Genuine(log[i])
            /\ verdict.error = "none" =>
                 line.answer = <<1, 4, 2>> \o Words(verdict.values)
            /\ verdict.error = "exception" =>
                 verdict.exception = decode_h100_modbus_exception(line.answer[3])
=============================================================================

---------------------------- MODULE PktUartProofs ----------------------------
(***************************************************************************)
(* Proofs about the diagnostic, for buffers of any size, every wait, sleep *)
(* and failure code, and a line that carries any frames: its types, that   *)
(* one request is sent at most, that the script reads the report of a      *)
(* capture that is over, that the log shows what was on the line, and that *)
(* what is taken for the drive's answer in it is the drive's answer.       *)
(***************************************************************************)
EXTENDS PktUart, ProtocolProofs

\* What the properties need of the type of every variable; verdicts may be anything.
Diagnostics == [stage : {0, 1, 2, 3, 4, 5, 7}, cycles : 0 .. 5 + WAIT_AFTER_SEND_CYCLES,
                current_frame : 0 .. MAX_CAPTURE_FRAMES, pending_bytes : 0 .. MAX_CAPTURE_BYTES,
                trigger_seen : BOOLEAN, sizes : [1 .. MAX_CAPTURE_FRAMES -> Nat],
                rx_words : Seq(Byte)]
Results == {0, 1, -2} \cup Failures
PinValues == [trigger : BOOLEAN, send_request : BOOLEAN, done : BOOLEAN, result : Results,
              state : {0, 1, 2, 3, 4, 5, 7}, rx_status : Status,
              frame_count : 0 .. MAX_CAPTURE_FRAMES]
Logs == Seq(Seq(Byte))
Boards == [sizes : Seq(Nat), bytes : Seq(Byte), errors : SUBSET {"parity", "rcfifo", "overrun", "startbit"},
           queued : {"nothing", "sizes", "data"}, fresh : BOOLEAN, sampled : Status]
Lines == [sent : Seq({request}), echoed : BOOLEAN, answer : Answers \cup {<<>>},
          received : Seq(Seq(Byte)), arrivals : 0 .. MostArrivals, lost : 0 .. MostLost]
Scripts == [at : {"start", "sleeping", "inspected", "ended"}, mode : Modes, raised : BOOLEAN,
            waited : 0 .. SleepCycles, done : BOOLEAN, result : Results,
            verdicts : {script.verdicts}]

Typed ==
    /\ diag \in Diagnostics /\ pins \in PinValues /\ log \in Logs
    /\ board \in Boards /\ line \in Lines /\ script \in Scripts
    /\ Len(diag.rx_words) <= InWords(MAX_CAPTURE_BYTES)
    /\ Len(board.sizes) <= MAX_CAPTURE_FRAMES

\* What each stage says of the counters and of the log.
Staged ==
    /\ diag.stage = 1 => diag.cycles < 5
    /\ diag.stage = 2 => diag.cycles < WAIT_AFTER_SEND_CYCLES
    /\ diag.stage \in {0, 1, 2, 3} => log = <<>>
    /\ diag.stage \in {4, 5} => Len(log) = diag.current_frame
    /\ diag.stage = 5 => diag.current_frame < MAX_CAPTURE_FRAMES
    /\ Len(log) <= MAX_CAPTURE_FRAMES

Requested ==
    /\ line.sent # <<>> => diag.stage \notin {0, 1}
    /\ script.at = "sleeping" => (pins.send_request <=> script.mode = "readonly")

\* The trigger before the capture ends: up once halrun has raised it.
Triggered ==
    /\ diag.stage = 0 => ~diag.trigger_seen
    /\ diag.stage \notin {0, 7} => pins.trigger
    /\ diag.stage # 7 => (pins.trigger <=> script.raised)

\* The period in which a capture that began as late as it may is where it is.
Pace ==
    CASE diag.stage = 0 -> Latency
      [] diag.stage = 1 -> Latency + 1 + diag.cycles
      [] diag.stage = 2 -> Latency + 6 + diag.cycles
      [] diag.stage = 3 -> Latency + 6 + WAIT_AFTER_SEND_CYCLES
      [] diag.stage = 4 -> Latency + 7 + WAIT_AFTER_SEND_CYCLES + 2 * diag.current_frame
      [] diag.stage = 5 -> Latency + 8 + WAIT_AFTER_SEND_CYCLES + 2 * diag.current_frame

Paced ==
    /\ diag.stage # 7 =>
         script.waited <= Pace + IF board.fresh /\ pins.trigger THEN 1 ELSE 0
    /\ diag.stage = 7 => pins.done /\ pins.result # 0

PktInv == Typed /\ Staged /\ Requested /\ Triggered /\ Paced

-----------------------------------------------------------------------------
(* Operators *)

\* The smaller of two numbers.
LEMMA MinOfTwo ==
    ASSUME NEW a \in Nat, NEW b \in Nat
    PROVE  Min({a, b}) = IF a <= b THEN a ELSE b
<1>1. \E m \in {a, b} : \A n \in {a, b} : m <= n BY SMT
<1>2. Min({a, b}) \in {a, b} /\ \A n \in {a, b} : Min({a, b}) <= n BY <1>1 DEF Min
<1>. HIDE DEF Min
<1>. QED BY <1>2

\* The words that hold more bytes are more.
LEMMA InWordsMonotone ==
    ASSUME NEW n \in Nat, NEW m \in Nat, n <= m
    PROVE  InWords(n) \in Nat /\ InWords(n) <= InWords(m) /\ InWords(n) <= n + 3 /\ n <= InWords(n)
BY DEF InWords

\* What is filled up is bytes.
LEMMA FilledUpType ==
    ASSUME NEW frame \in Seq(Byte)
    PROVE  FilledUp(frame) \in Seq(Byte)
<1>. DEFINE longer == frame \o <<0, 0, 0>>
<1>1. longer \in Seq(Byte) /\ Len(longer) = Len(frame) + 3 BY DEF Byte
<1>2. InWords(Len(frame)) \in Nat /\ InWords(Len(frame)) <= Len(longer)
    BY <1>1, InWordsMonotone
<1>. HIDE DEF longer
<1>3. SubSeq(longer, 1, InWords(Len(frame))) \in Seq(Byte) BY <1>1, <1>2
<1>. QED BY <1>3 DEF FilledUp, longer

\* A byte is put together from eight bits.
LEMMA ByteAtType == \A register, first : ByteAt(register, first) \in Byte
BY DEF ByteAt, Byte

\* An answer that is damaged is still bytes.
LEMMA FlippedType ==
    ASSUME NEW frame \in Seq(Byte), NEW bits
    PROVE  Flipped(frame, bits) \in Seq(Byte)
<1>. DEFINE byte(i) ==
        ByteAt(Xor(Bits(frame[i]), {b - 8 * (i - 1) : b \in bits \cap (8 * (i - 1) .. 8 * i - 1)}), 0)
<1>1. \A i \in DOMAIN frame : byte(i) \in Byte BY ByteAtType
<1>2. Flipped(frame, bits) = [i \in DOMAIN frame |-> byte(i)] BY DEF Flipped
<1>. HIDE DEF byte
<1>3. [i \in DOMAIN frame |-> byte(i)] \in Seq(Byte) BY <1>1
<1>. QED BY <1>2, <1>3

\* append_crc adds two bytes.
LEMMA AppendCrcType ==
    ASSUME NEW payload \in Seq(Byte)
    PROVE  append_crc(payload) \in Seq(Byte)
<1>. DEFINE crc == crc16_modbus(payload)
<1>1. ByteAt(crc, 0) \in Byte /\ ByteAt(crc, 8) \in Byte BY ByteAtType
<1>2. append_crc(payload) = payload \o <<ByteAt(crc, 0), ByteAt(crc, 8)>> BY DEF append_crc
<1>. HIDE DEF crc
<1>. QED BY <1>1, <1>2

\* The request is eight bytes.
LEMMA RequestType == request \in Seq(Byte) /\ Len(request) = 8
BY DEF request, Byte

\* A frame that is logged is cut out of bytes.
LEMMA LoggedType ==
    ASSUME NEW words \in Seq(Byte), NEW n \in Nat
    PROVE  SubSeq(words \o Zeros(n), 1, n) \in Seq(Byte)
<1>1. Zeros(n) \in Seq(Byte) /\ Len(Zeros(n)) = n BY DEF Zeros, Byte
<1>2. words \o Zeros(n) \in Seq(Byte) /\ Len(words \o Zeros(n)) = Len(words) + n BY <1>1
<1>. HIDE DEF Zeros
<1>. QED BY <1>2

-----------------------------------------------------------------------------
(* What a period of the function does, field by field *)

\* The diagnostic's state at the end of a period.
Moved(stage, cycles, frame) ==
    /\ diag'.stage = stage /\ diag'.cycles = cycles /\ diag'.current_frame = frame
    /\ diag'.trigger_seen = (diag.trigger_seen /\ pins.trigger)

Reported(done, result, count) ==
    /\ pins'.trigger = pins.trigger /\ pins'.send_request = pins.send_request
    /\ pins'.done = done /\ pins'.result = result /\ pins'.frame_count = count

\* What every period leaves typed, and leaves alone.
Period ==
    /\ script.at = "sleeping" /\ board.fresh /\ script' = script
    /\ diag' \in Diagnostics /\ pins' \in PinValues
    /\ Len(diag'.rx_words) <= InWords(MAX_CAPTURE_BYTES)

\* A trigger that is low is forgotten, and nothing else changes.
LEMMA NowFields ==
    ASSUME Typed
    PROVE  /\ now \in Diagnostics
           /\ now.stage = diag.stage /\ now.cycles = diag.cycles
           /\ now.current_frame = diag.current_frame /\ now.pending_bytes = diag.pending_bytes
           /\ now.sizes = diag.sizes /\ now.rx_words = diag.rx_words
           /\ now.trigger_seen = (diag.trigger_seen /\ pins.trigger)
<1>1. now = [diag EXCEPT !.trigger_seen = diag.trigger_seen /\ pins.trigger] BY DEF now
<1>2. diag \in Diagnostics /\ pins \in PinValues BY DEF Typed
<1>3. (diag.trigger_seen /\ pins.trigger) \in BOOLEAN OBVIOUS
<1>. QED BY <1>1, <1>2, <1>3 DEF Diagnostics

\* A period ends as the stage says, the script sleeping on.
LEMMA RunFields ==
    ASSUME Typed, NEW d \in Diagnostics, NEW p \in PinValues, Run(d, p),
           Len(d.rx_words) <= InWords(MAX_CAPTURE_BYTES)
    PROVE  /\ Period /\ diag' = d
           /\ pins'.trigger = p.trigger /\ pins'.send_request = p.send_request
           /\ pins'.done = p.done /\ pins'.result = p.result /\ pins'.frame_count = p.frame_count
<1>1. /\ script.at = "sleeping" /\ board.fresh /\ diag' = d /\ script' = script
      /\ pins' = [p EXCEPT !.rx_status = board.sampled, !.state = diag.stage]
    BY DEF Run
<1>2. board.sampled \in Status /\ diag.stage \in {0, 1, 2, 3, 4, 5, 7}
    BY DEF Typed, Boards, Diagnostics
<1>3. /\ pins' \in PinValues
      /\ pins'.trigger = p.trigger /\ pins'.send_request = p.send_request
      /\ pins'.done = p.done /\ pins'.result = p.result /\ pins'.frame_count = p.frame_count
    BY <1>1, <1>2 DEF PinValues
<1>. QED BY <1>1, <1>3 DEF Period

\* The capture ends with its result.
LEMMA FinishFields ==
    ASSUME Typed, NEW d \in Diagnostics, NEW p \in PinValues, NEW result \in Results,
           Finish(d, p, result), Len(d.rx_words) <= InWords(MAX_CAPTURE_BYTES)
    PROVE  /\ Period
           /\ diag'.stage = 7
           /\ pins'.trigger = p.trigger /\ pins'.send_request = p.send_request
           /\ pins'.done /\ pins'.result = result /\ pins'.frame_count = p.frame_count
<1>. DEFINE last == [d EXCEPT !.stage = 7]
<1>. DEFINE told == [p EXCEPT !.done = TRUE, !.result = result]
<1>1. last \in Diagnostics /\ last.stage = 7 /\ last.rx_words = d.rx_words BY DEF Diagnostics
<1>2. /\ told \in PinValues /\ told.done /\ told.result = result
      /\ told.trigger = p.trigger /\ told.send_request = p.send_request
      /\ told.frame_count = p.frame_count
    BY DEF PinValues
<1>3. Run(last, told) BY DEF Finish
<1>. HIDE DEF last, told
<1>. QED BY <1>1, <1>2, <1>3, RunFields

\* A period in which the card is only read from.
LEMMA SpentFields ==
    ASSUME Typed, Spent
    PROVE  /\ board' \in Boards /\ ~board'.fresh /\ Len(board'.sizes) <= MAX_CAPTURE_FRAMES
<1>1. board \in Boards /\ Len(board.sizes) <= MAX_CAPTURE_FRAMES BY DEF Typed
<1>2. board' = [board EXCEPT !.fresh = FALSE] BY DEF Spent
<1>. QED BY <1>1, <1>2 DEF Boards

\* A read is queued on the card.
LEMMA QueuedFields ==
    ASSUME Typed, NEW read \in {"sizes", "data"},
           board' = [board EXCEPT !.fresh = FALSE, !.queued = read]
    PROVE  /\ board' \in Boards /\ ~board'.fresh /\ Len(board'.sizes) <= MAX_CAPTURE_FRAMES
<1>1. board \in Boards /\ Len(board.sizes) <= MAX_CAPTURE_FRAMES BY DEF Typed
<1>. QED BY <1>1 DEF Boards

\* A period that keeps each part of the state typed keeps the state typed.
LEMMA PeriodTyped ==
    ASSUME Typed, Period, board' \in Boards, Len(board'.sizes) <= MAX_CAPTURE_FRAMES,
           log' \in Logs, line' \in Lines
    PROVE  Typed'
<1>1. script \in Scripts BY DEF Typed
<1>2. script' \in Scripts' BY <1>1 DEF Period, Scripts, Results
<1>3. /\ diag' \in Diagnostics' /\ pins' \in PinValues' /\ log' \in Logs'
      /\ board' \in Boards' /\ line' \in Lines'
    BY DEF Period, Diagnostics, PinValues, Results, Status, Logs, Boards, Lines, request
<1>4. Len(diag'.rx_words) <= InWords(MAX_CAPTURE_BYTES) BY DEF Period
<1>. QED BY <1>2, <1>3, <1>4 DEF Typed, InWords

\* A failure is a result, and no success.
LEMMA FailureResult ==
    \A retval \in Failures : retval \in Results /\ retval # 0
BY FailuresAssumption DEF Results

\* The period of every stage is a number.
LEMMA PaceType ==
    ASSUME Typed
    PROVE  diag.stage # 7 => Pace \in Nat
<1>1. diag.stage \in {0, 1, 2, 3, 4, 5, 7} /\ diag.cycles \in Nat /\ diag.current_frame \in Nat
    BY SizesAssumption DEF Typed, Diagnostics
<1>. QED BY <1>1, SizesAssumption DEF Pace

\* The same at the end of a step.
LEMMA PaceTypeAfter ==
    ASSUME Typed'
    PROVE  diag'.stage # 7 => Pace' \in Nat
<1>1. diag'.stage \in {0, 1, 2, 3, 4, 5, 7} /\ diag'.cycles \in Nat
      /\ diag'.current_frame \in Nat
    BY SizesAssumption DEF Typed, Diagnostics
<1>. QED BY <1>1, SizesAssumption DEF Pace

\* A capture that ends keeps the invariant, whatever it has done in its last period.
LEMMA PeriodEnded ==
    ASSUME PktInv, Typed', Period, diag'.stage = 7, ~board'.fresh, log' = log,
           pins'.trigger = pins.trigger, pins'.send_request = pins.send_request,
           pins'.done, pins'.result # 0
    PROVE  PktInv'
<1>1. Staged' BY DEF PktInv, Staged
<1>2. Requested' BY DEF PktInv, Requested, Period
<1>3. Triggered' BY DEF PktInv, Triggered
<1>4. Paced' BY DEF Paced
<1>. QED BY <1>1, <1>2, <1>3, <1>4 DEF PktInv

\* A capture that goes on keeps the invariant when its stage keeps up with the script.
LEMMA PeriodGoesOn ==
    ASSUME PktInv, Typed', Period, Staged', diag.stage # 7, diag'.stage # 7, ~board'.fresh,
           pins'.trigger = pins.trigger, pins'.send_request = pins.send_request,
           line'.sent # <<>> => diag'.stage \notin {0, 1},
           diag'.stage = 0 => ~diag'.trigger_seen,
           diag'.stage # 0 => pins.trigger,
           Pace' >= Pace + IF pins.trigger THEN 1 ELSE 0
    PROVE  PktInv'
<1>1. Requested' BY DEF PktInv, Requested, Period
<1>2. Triggered' BY DEF PktInv, Triggered, Period
<1>3. script'.waited = script.waited /\ board.fresh BY DEF Period
<1>4. Pace \in Nat /\ Pace' \in Nat
    <2>1. Typed BY DEF PktInv
    <2>2. Pace \in Nat BY <2>1, PaceType
    <2>3. Pace' \in Nat BY PaceTypeAfter
    <2>. QED BY <2>2, <2>3
<1>5. script.waited <= Pace + IF pins.trigger THEN 1 ELSE 0
    BY <1>3 DEF PktInv, Paced
<1>6. script.waited \in Nat BY SizesAssumption DEF PktInv, Typed, Scripts
<1>7. Paced'
    <2>1. script'.waited <= Pace' BY <1>3, <1>4, <1>5, <1>6
    <2>. QED BY <2>1, <1>4 DEF Paced
<1>. QED BY <1>1, <1>2, <1>7 DEF PktInv

\* A period that changes nothing but the diagnostic's own state, and the log.
LEMMA QuietPeriod ==
    ASSUME Typed, NEW d \in Diagnostics, Run(d, pins), Spent, line' = line, log' \in Logs,
           Len(d.rx_words) <= InWords(MAX_CAPTURE_BYTES)
    PROVE  /\ Typed' /\ Period /\ diag' = d /\ ~board'.fresh
           /\ pins'.trigger = pins.trigger /\ pins'.send_request = pins.send_request
           /\ pins'.done = pins.done /\ pins'.result = pins.result
<1>1. pins \in PinValues /\ line' \in Lines BY DEF Typed
<1>2. /\ Period /\ diag' = d
      /\ pins'.trigger = pins.trigger /\ pins'.send_request = pins.send_request
      /\ pins'.done = pins.done /\ pins'.result = pins.result
    BY <1>1, RunFields
<1>3. board' \in Boards /\ ~board'.fresh /\ Len(board'.sizes) <= MAX_CAPTURE_FRAMES
    BY SpentFields
<1>4. Typed' BY <1>1, <1>2, <1>3, PeriodTyped
<1>. QED BY <1>2, <1>3, <1>4

-----------------------------------------------------------------------------
(* The periods of the function *)

\* A period that waits for the trigger.
LEMMA AwaitTriggerStep == ASSUME PktInv, AwaitTrigger PROVE PktInv'
<1>1. Typed /\ log \in Logs BY DEF PktInv, Typed
<1>2. /\ diag.stage = 0 /\ (~pins.trigger \/ now.trigger_seen)
      /\ Run(now, pins) /\ Spent /\ log' = log /\ line' = line
    BY DEF AwaitTrigger
<1>3. now \in Diagnostics /\ Len(now.rx_words) <= InWords(MAX_CAPTURE_BYTES)
    BY <1>1, NowFields DEF Typed
<1>4. /\ Typed' /\ Period /\ diag' = now /\ ~board'.fresh
      /\ pins'.trigger = pins.trigger /\ pins'.send_request = pins.send_request
    BY <1>1, <1>2, <1>3, QuietPeriod
<1>5. /\ diag'.stage = 0 /\ diag'.trigger_seen = (diag.trigger_seen /\ pins.trigger)
    BY <1>1, <1>2, <1>4, NowFields
<1>6. ~diag.trigger_seen /\ log = <<>> BY <1>2 DEF PktInv, Triggered, Staged
<1>7. ~pins.trigger BY <1>1, <1>2, <1>6, NowFields
<1>8. Staged' BY <1>2, <1>5, <1>6 DEF PktInv, Staged
<1>9. Pace' = Pace /\ Pace \in Nat BY <1>1, <1>2, <1>5, PaceType DEF Pace
<1>10. line'.sent # <<>> => diag'.stage \notin {0, 1} BY <1>2 DEF PktInv, Requested
<1>11. Pace' >= Pace + IF pins.trigger THEN 1 ELSE 0 BY <1>7, <1>9
<1>12. diag'.stage = 0 => ~diag'.trigger_seen BY <1>5, <1>6
<1>13. diag.stage # 7 /\ diag'.stage # 7 /\ (diag'.stage # 0 => pins.trigger) BY <1>2, <1>5
<1>. QED BY <1>4, <1>8, <1>10, <1>11, <1>12, <1>13, PeriodGoesOn

\* A capture in one of its stages has its trigger up.
LEMMA TriggerUp == ASSUME PktInv, diag.stage \notin {0, 7} PROVE pins.trigger
BY DEF PktInv, Triggered

\* A period more is counted.
LEMMA CountedFields ==
    ASSUME Typed, diag.cycles < 5 \/ diag.cycles < WAIT_AFTER_SEND_CYCLES
    PROVE  /\ Counted \in Diagnostics
           /\ Counted.stage = diag.stage /\ Counted.cycles = diag.cycles + 1
           /\ Counted.current_frame = diag.current_frame /\ Counted.rx_words = diag.rx_words
<1>1. now \in Diagnostics /\ now.cycles = diag.cycles /\ now.cycles + 1 \in 0 .. 5 + WAIT_AFTER_SEND_CYCLES
    BY NowFields, SizesAssumption DEF Diagnostics
<1>2. Counted = [now EXCEPT !.cycles = now.cycles + 1] BY DEF Counted
<1>3. /\ Counted \in Diagnostics /\ Counted.stage = now.stage /\ Counted.cycles = now.cycles + 1
      /\ Counted.current_frame = now.current_frame /\ Counted.rx_words = now.rx_words
    BY <1>1, <1>2 DEF Diagnostics
<1>. QED BY <1>1, <1>3, NowFields

\* The receiver settles for five periods.
LEMMA SettleStep == ASSUME PktInv, Settle PROVE PktInv'
<1>1. Typed /\ log \in Logs BY DEF PktInv, Typed
<1>2. /\ diag.stage = 1 /\ Counted.cycles < 5
      /\ Run(Counted, pins) /\ Spent /\ log' = log /\ line' = line
    BY DEF Settle
<1>3. diag.cycles < 5 /\ log = <<>> /\ line.sent = <<>> BY <1>2 DEF PktInv, Staged, Requested
<1>4. /\ Counted \in Diagnostics /\ Len(Counted.rx_words) <= InWords(MAX_CAPTURE_BYTES)
      /\ Counted.stage = 1 /\ Counted.cycles = diag.cycles + 1
    BY <1>1, <1>2, <1>3, CountedFields DEF Typed
<1>5. /\ Typed' /\ Period /\ diag' = Counted /\ ~board'.fresh
      /\ pins'.trigger = pins.trigger /\ pins'.send_request = pins.send_request
    BY <1>1, <1>2, <1>4, QuietPeriod
<1>6. diag'.stage = 1 /\ diag'.cycles = diag.cycles + 1 /\ diag'.cycles < 5 BY <1>2, <1>4, <1>5
<1>7. Staged' BY <1>2, <1>3, <1>6 DEF PktInv, Staged
<1>8. Pace' >= Pace + 1
    <2>1. diag.cycles \in Nat BY <1>1, SizesAssumption DEF Typed, Diagnostics
    <2>. QED BY <1>2, <1>6, <2>1, SizesAssumption DEF Pace
<1>9. pins.trigger BY <1>2, TriggerUp
<1>10. line'.sent = <<>> BY <1>2, <1>3
<1>. QED BY <1>2, <1>5, <1>6, <1>7, <1>8, <1>9, <1>10, PeriodGoesOn

\* The five periods are over: five are counted.
LEMMA SettledFacts ==
    ASSUME PktInv, Settled
    PROVE  /\ diag.stage = 1 /\ diag.cycles = 4 /\ log = <<>> /\ line.sent = <<>> /\ pins.trigger
           /\ Counted \in Diagnostics /\ Counted.rx_words = diag.rx_words
<1>1. Typed /\ diag.stage = 1 /\ Counted.cycles >= 5 BY DEF PktInv, Settled
<1>2. diag.cycles < 5 /\ log = <<>> /\ line.sent = <<>> BY <1>1 DEF PktInv, Staged, Requested
<1>3. Counted \in Diagnostics /\ Counted.rx_words = diag.rx_words /\ Counted.cycles = diag.cycles + 1
    BY <1>1, <1>2, CountedFields
<1>4. diag.cycles \in Nat BY <1>1, SizesAssumption DEF Typed, Diagnostics
<1>5. diag.cycles = 4 BY <1>1, <1>2, <1>3, <1>4
<1>. QED BY <1>1, <1>2, <1>3, <1>5, TriggerUp

\* The wait for the answer begins.
LEMMA WaitFields ==
    ASSUME Typed, NEW d, d = [now EXCEPT !.cycles = 0, !.stage = 2]
    PROVE  /\ d \in Diagnostics /\ d.stage = 2 /\ d.cycles = 0 /\ d.rx_words = diag.rx_words
<1>1. now \in Diagnostics /\ now.rx_words = diag.rx_words BY NowFields
<1>2. 0 \in 0 .. 5 + WAIT_AFTER_SEND_CYCLES BY SizesAssumption
<1>3. /\ d \in Diagnostics /\ d.stage = 2 /\ d.cycles = 0
      /\ d.rx_words = now.rx_words
    BY <1>1, <1>2 DEF Diagnostics
<1>. QED BY <1>1, <1>3

\* The wait begins in the period after the fourth one counted.
LEMMA WaitBegun ==
    ASSUME PktInv, Settled, Typed', Period, ~board'.fresh, log' = log,
           diag'.stage = 2, diag'.cycles = 0,
           pins'.trigger = pins.trigger, pins'.send_request = pins.send_request
    PROVE  PktInv'
<1>1. diag.stage = 1 /\ diag.cycles = 4 /\ log = <<>> /\ pins.trigger BY SettledFacts
<1>2. Staged' BY <1>1, SizesAssumption DEF PktInv, Staged
<1>3. Pace' >= Pace + 1 BY <1>1, SizesAssumption DEF Pace
<1>. QED BY <1>1, <1>2, <1>3, PeriodGoesOn

\* Nothing is sent when the pin says so.
LEMMA ListenOnlyStep == ASSUME PktInv, ListenOnly PROVE PktInv'
<1>. DEFINE d == [now EXCEPT !.cycles = 0, !.stage = 2]
<1>1. Typed /\ log \in Logs /\ Len(diag.rx_words) <= InWords(MAX_CAPTURE_BYTES) BY DEF PktInv, Typed
<1>2. Settled /\ Run(d, pins) /\ Spent /\ log' = log /\ line' = line BY DEF ListenOnly
<1>3. d \in Diagnostics /\ d.stage = 2 /\ d.cycles = 0 /\ d.rx_words = diag.rx_words
    BY <1>1, WaitFields
<1>. HIDE DEF d
<1>4. /\ Typed' /\ Period /\ diag' = d /\ ~board'.fresh
      /\ pins'.trigger = pins.trigger /\ pins'.send_request = pins.send_request
    BY <1>1, <1>2, <1>3, QuietPeriod
<1>. QED BY <1>2, <1>3, <1>4, WaitBegun

\* One request more has been sent.
LEMMA SentFields ==
    ASSUME Typed, line' \in {line, [line EXCEPT !.sent = Append(@, request)]}
    PROVE  line' \in Lines
<1>1. line \in Lines BY DEF Typed
<1>2. Append(line.sent, request) \in Seq({request}) BY <1>1 DEF Lines
<1>3. [line EXCEPT !.sent = Append(line.sent, request)] \in Lines BY <1>1, <1>2 DEF Lines
<1>. QED BY <1>1, <1>3

\* The request is sent, or the driver reports an error, and the capture is over.
LEMMA SendRequestStep == ASSUME PktInv, SendRequest PROVE PktInv'
<1>. DEFINE d == [now EXCEPT !.cycles = 0, !.stage = 2]
<1>. DEFINE sent == [line EXCEPT !.sent = Append(@, request)]
<1>1. /\ Typed /\ log \in Logs /\ Len(diag.rx_words) <= InWords(MAX_CAPTURE_BYTES)
      /\ pins \in PinValues
    BY DEF PktInv, Typed
<1>2. Settled /\ Spent /\ log' = log BY DEF SendRequest
<1>3. \/ Run(d, pins) /\ line' = sent
      \/ (\E retval \in Failures : Finish(Counted, pins, retval)) /\ line' \in {line, sent}
    BY DEF SendRequest
<1>4. d \in Diagnostics /\ d.stage = 2 /\ d.cycles = 0 /\ d.rx_words = diag.rx_words
    BY <1>1, WaitFields
<1>5. line' \in Lines BY <1>1, <1>3, SentFields
<1>6. board' \in Boards /\ ~board'.fresh /\ Len(board'.sizes) <= MAX_CAPTURE_FRAMES
    BY <1>1, <1>2, SpentFields
<1>. HIDE DEF d, sent
<1>7. CASE Run(d, pins)
    <2>1. /\ Period /\ diag' = d
          /\ pins'.trigger = pins.trigger /\ pins'.send_request = pins.send_request
        BY <1>1, <1>4, <1>7, RunFields
    <2>2. Typed' BY <1>1, <1>2, <1>5, <1>6, <2>1, PeriodTyped
    <2>. QED BY <1>2, <1>4, <1>6, <2>1, <2>2, WaitBegun
<1>8. CASE \E retval \in Failures : Finish(Counted, pins, retval)
    <2>1. PICK retval \in Failures : Finish(Counted, pins, retval) BY <1>8
    <2>2. retval \in Results /\ retval # 0 BY FailureResult
    <2>3. Counted \in Diagnostics /\ Counted.rx_words = diag.rx_words BY <1>2, SettledFacts
    <2>4. /\ Period /\ diag'.stage = 7 /\ pins'.done /\ pins'.result = retval
          /\ pins'.trigger = pins.trigger /\ pins'.send_request = pins.send_request
        BY <1>1, <2>1, <2>2, <2>3, FinishFields
    <2>5. Typed' BY <1>1, <1>2, <1>5, <1>6, <2>4, PeriodTyped
    <2>. QED BY <1>2, <1>6, <2>2, <2>4, <2>5, PeriodEnded
<1>. QED BY <1>3, <1>7, <1>8

\* The answer is waited for.
LEMMA CollectStep == ASSUME PktInv, Collect PROVE PktInv'
<1>1. Typed /\ log \in Logs BY DEF PktInv, Typed
<1>2. /\ diag.stage = 2 /\ Counted.cycles < WAIT_AFTER_SEND_CYCLES
      /\ Run(Counted, pins) /\ Spent /\ log' = log /\ line' = line
    BY DEF Collect
<1>3. diag.cycles < WAIT_AFTER_SEND_CYCLES /\ log = <<>> BY <1>2 DEF PktInv, Staged
<1>4. /\ Counted \in Diagnostics /\ Len(Counted.rx_words) <= InWords(MAX_CAPTURE_BYTES)
      /\ Counted.stage = 2 /\ Counted.cycles = diag.cycles + 1
    BY <1>1, <1>2, <1>3, CountedFields DEF Typed
<1>5. /\ Typed' /\ Period /\ diag' = Counted /\ ~board'.fresh
      /\ pins'.trigger = pins.trigger /\ pins'.send_request = pins.send_request
    BY <1>1, <1>2, <1>4, QuietPeriod
<1>6. /\ diag'.stage = 2 /\ diag'.cycles = diag.cycles + 1
      /\ diag'.cycles < WAIT_AFTER_SEND_CYCLES
    BY <1>2, <1>4, <1>5
<1>7. Staged' BY <1>2, <1>3, <1>6 DEF PktInv, Staged
<1>8. Pace' >= Pace + 1
    <2>1. diag.cycles \in Nat BY <1>1, SizesAssumption DEF Typed, Diagnostics
    <2>. QED BY <1>2, <1>6, <2>1, SizesAssumption DEF Pace
<1>9. pins.trigger BY <1>2, TriggerUp
<1>. QED BY <1>2, <1>5, <1>6, <1>7, <1>8, <1>9, PeriodGoesOn

\* The wait is over: all its periods are counted.
LEMMA CollectedFacts ==
    ASSUME PktInv, Collected
    PROVE  /\ diag.stage = 2 /\ diag.cycles + 1 = WAIT_AFTER_SEND_CYCLES /\ log = <<>>
           /\ diag.cycles \in Nat /\ pins.trigger
           /\ Counted \in Diagnostics /\ Counted.rx_words = diag.rx_words
<1>1. Typed /\ diag.stage = 2 /\ Counted.cycles >= WAIT_AFTER_SEND_CYCLES BY DEF PktInv, Collected
<1>2. diag.cycles < WAIT_AFTER_SEND_CYCLES /\ log = <<>> BY <1>1 DEF PktInv, Staged
<1>3. Counted \in Diagnostics /\ Counted.rx_words = diag.rx_words /\ Counted.cycles = diag.cycles + 1
    BY <1>1, <1>2, CountedFields
<1>4. diag.cycles \in Nat BY <1>1, SizesAssumption DEF Typed, Diagnostics
<1>5. diag.cycles + 1 = WAIT_AFTER_SEND_CYCLES BY <1>1, <1>2, <1>3, <1>4, SizesAssumption
<1>. QED BY <1>1, <1>2, <1>3, <1>4, <1>5, TriggerUp

\* Nothing was received, or the receiver saw an error.
LEMMA NoFramesStep == ASSUME PktInv, NoFrames PROVE PktInv'
<1>. DEFINE p == [pins EXCEPT !.frame_count = 0]
<1>. DEFINE result == IF board.sampled.errors \cap ReceiverErrors # {} THEN -2 ELSE 1
<1>1. /\ Typed /\ log \in Logs /\ line \in Lines /\ pins \in PinValues
      /\ Len(diag.rx_words) <= InWords(MAX_CAPTURE_BYTES)
    BY DEF PktInv, Typed
<1>2. Collected /\ Spent /\ log' = log /\ line' = line /\ Finish(Counted, p, result)
    BY DEF NoFrames
<1>3. Counted \in Diagnostics /\ Counted.rx_words = diag.rx_words BY <1>2, CollectedFacts
<1>4. result \in Results /\ result # 0 BY DEF Results
<1>5. /\ p \in PinValues /\ p.trigger = pins.trigger /\ p.send_request = pins.send_request
    BY <1>1, SizesAssumption DEF PinValues
<1>6. board' \in Boards /\ ~board'.fresh /\ Len(board'.sizes) <= MAX_CAPTURE_FRAMES
    BY <1>1, <1>2, SpentFields
<1>. HIDE DEF p, result
<1>7. /\ Period /\ diag'.stage = 7 /\ pins'.done /\ pins'.result = result
      /\ pins'.trigger = pins.trigger /\ pins'.send_request = pins.send_request
    BY <1>1, <1>2, <1>3, <1>4, <1>5, FinishFields
<1>8. Typed' BY <1>1, <1>2, <1>6, <1>7, PeriodTyped
<1>. QED BY <1>2, <1>4, <1>6, <1>7, <1>8, PeriodEnded

\* The sizes of the frames counted are asked for, or the driver reports an error.
LEMMA QueueSizesStep == ASSUME PktInv, QueueSizes PROVE PktInv'
<1>. DEFINE d == [Counted EXCEPT !.sizes = NoSizes]
<1>. DEFINE next == [d EXCEPT !.stage = 3]
<1>. DEFINE p == [pins EXCEPT !.frame_count = board.sampled.frames]
<1>1. /\ Typed /\ log \in Logs /\ line \in Lines /\ pins \in PinValues /\ board.sampled \in Status
      /\ Len(diag.rx_words) <= InWords(MAX_CAPTURE_BYTES)
    BY DEF PktInv, Typed, Boards
<1>2. Collected /\ log' = log /\ line' = line BY DEF QueueSizes
<1>3. \/ Run(next, p) /\ board' = [board EXCEPT !.fresh = FALSE, !.queued = "sizes"]
      \/ (\E retval \in Failures : Finish(d, p, retval)) /\ Spent
    BY DEF QueueSizes
<1>4. Counted \in Diagnostics /\ Counted.rx_words = diag.rx_words BY <1>2, CollectedFacts
<1>5. NoSizes \in [1 .. MAX_CAPTURE_FRAMES -> Nat] BY DEF NoSizes, Zeros
<1>6. /\ d \in Diagnostics /\ d.rx_words = diag.rx_words
      /\ next \in Diagnostics /\ next.rx_words = diag.rx_words /\ next.stage = 3
    BY <1>4, <1>5 DEF Diagnostics
<1>7. p \in PinValues /\ p.trigger = pins.trigger /\ p.send_request = pins.send_request
    BY <1>1 DEF PinValues, Status
<1>. HIDE DEF d, next, p
<1>8. CASE Run(next, p) /\ board' = [board EXCEPT !.fresh = FALSE, !.queued = "sizes"]
    <2>1. /\ Period /\ diag' = next
          /\ pins'.trigger = pins.trigger /\ pins'.send_request = pins.send_request
        BY <1>1, <1>6, <1>7, <1>8, RunFields
    <2>2. board' \in Boards /\ ~board'.fresh /\ Len(board'.sizes) <= MAX_CAPTURE_FRAMES
        BY <1>1, <1>8, QueuedFields
    <2>3. Typed' BY <1>1, <1>2, <2>1, <2>2, PeriodTyped
    <2>4. /\ diag.stage = 2 /\ diag.cycles + 1 = WAIT_AFTER_SEND_CYCLES /\ log = <<>>
          /\ diag.cycles \in Nat /\ pins.trigger
        BY <1>2, CollectedFacts
    <2>5. diag'.stage = 3 BY <1>6, <2>1
    <2>6. Staged' BY <1>2, <2>4, <2>5 DEF PktInv, Staged
    <2>7. Pace' >= Pace + 1 BY <2>4, <2>5, SizesAssumption DEF Pace
    <2>. QED BY <2>1, <2>2, <2>3, <2>4, <2>5, <2>6, <2>7, PeriodGoesOn
<1>9. CASE (\E retval \in Failures : Finish(d, p, retval)) /\ Spent
    <2>1. PICK retval \in Failures : Finish(d, p, retval) BY <1>9
    <2>2. retval \in Results /\ retval # 0 BY FailureResult
    <2>3. /\ Period /\ diag'.stage = 7 /\ pins'.done /\ pins'.result = retval
          /\ pins'.trigger = pins.trigger /\ pins'.send_request = pins.send_request
        BY <1>1, <1>6, <1>7, <2>1, <2>2, FinishFields
    <2>4. board' \in Boards /\ ~board'.fresh /\ Len(board'.sizes) <= MAX_CAPTURE_FRAMES
        BY <1>1, <1>9, SpentFields
    <2>5. Typed' BY <1>1, <1>2, <2>3, <2>4, PeriodTyped
    <2>. QED BY <1>2, <2>2, <2>3, <2>4, <2>5, PeriodEnded
<1>. QED BY <1>3, <1>8, <1>9

\* The sizes are there: the first frame is next.
LEMMA SizesReadStep == ASSUME PktInv, SizesRead PROVE PktInv'
<1>. DEFINE d == [now EXCEPT !.current_frame = 0, !.stage = 4]
<1>1. Typed /\ log \in Logs /\ Len(diag.rx_words) <= InWords(MAX_CAPTURE_BYTES) BY DEF PktInv, Typed
<1>2. diag.stage = 3 /\ Run(d, pins) /\ Spent /\ log' = log /\ line' = line BY DEF SizesRead
<1>3. now \in Diagnostics /\ now.rx_words = diag.rx_words BY <1>1, NowFields
<1>4. 0 \in 0 .. MAX_CAPTURE_FRAMES BY SizesAssumption
<1>5. d \in Diagnostics /\ d.stage = 4 /\ d.current_frame = 0 /\ d.rx_words = diag.rx_words
    BY <1>3, <1>4 DEF Diagnostics
<1>. HIDE DEF d
<1>6. /\ Typed' /\ Period /\ diag' = d /\ ~board'.fresh
      /\ pins'.trigger = pins.trigger /\ pins'.send_request = pins.send_request
    BY <1>1, <1>2, <1>5, QuietPeriod
<1>7. log = <<>> /\ pins.trigger BY <1>2, TriggerUp DEF PktInv, Staged
<1>8. Len(log') = 0 BY <1>2, <1>7
<1>9. Staged' BY <1>5, <1>6, <1>8, SizesAssumption DEF Staged
<1>10. Pace' >= Pace + 1 BY <1>2, <1>5, <1>6, SizesAssumption DEF Pace
<1>. QED BY <1>2, <1>5, <1>6, <1>7, <1>9, <1>10, PeriodGoesOn

\* Every frame has been printed.
LEMMA CompleteStep == ASSUME PktInv, Complete PROVE PktInv'
<1>1. /\ Typed /\ log \in Logs /\ line \in Lines /\ pins \in PinValues
      /\ Len(diag.rx_words) <= InWords(MAX_CAPTURE_BYTES)
    BY DEF PktInv, Typed
<1>2. Finish(now, pins, 1) /\ Spent /\ log' = log /\ line' = line BY DEF Complete
<1>3. now \in Diagnostics /\ now.rx_words = diag.rx_words /\ 1 \in Results
    BY <1>1, NowFields DEF Results
<1>4. /\ Period /\ diag'.stage = 7 /\ pins'.done /\ pins'.result = 1
      /\ pins'.trigger = pins.trigger /\ pins'.send_request = pins.send_request
    BY <1>1, <1>2, <1>3, FinishFields
<1>5. board' \in Boards /\ ~board'.fresh /\ Len(board'.sizes) <= MAX_CAPTURE_FRAMES
    BY <1>1, <1>2, SpentFields
<1>6. Typed' BY <1>1, <1>2, <1>4, <1>5, PeriodTyped
<1>. QED BY <1>2, <1>4, <1>5, <1>6, PeriodEnded

\* The length read is limited to the buffer.
LEMMA CountType ==
    ASSUME Typed, diag.current_frame < MAX_CAPTURE_FRAMES
    PROVE  Count \in 0 .. MAX_CAPTURE_BYTES
<1>1. diag.sizes \in [1 .. MAX_CAPTURE_FRAMES -> Nat] /\ diag.current_frame \in Nat
    BY DEF Typed, Diagnostics
<1>2. diag.current_frame + 1 \in 1 .. MAX_CAPTURE_FRAMES BY <1>1, SizesAssumption
<1>3. Size \in Nat BY <1>1, <1>2 DEF Size
<1>4. Size % 1024 \in Nat BY <1>3
<1>. HIDE DEF Size
<1>. QED BY <1>4, SizesAssumption DEF Count

\* The bytes of a frame are asked for, or the driver reports an error.
LEMMA QueueDataStep == ASSUME PktInv, QueueData PROVE PktInv'
<1>. DEFINE d == [now EXCEPT !.pending_bytes = Count, !.rx_words = <<>>]
<1>. DEFINE next == [d EXCEPT !.stage = 5]
<1>1. Typed /\ log \in Logs /\ line \in Lines /\ pins \in PinValues BY DEF PktInv, Typed
<1>2. diag.stage = 4 /\ diag.current_frame < MAX_CAPTURE_FRAMES /\ log' = log /\ line' = line
    BY DEF QueueData, AllRead
<1>3. \/ Run(next, pins) /\ board' = [board EXCEPT !.fresh = FALSE, !.queued = "data"]
      \/ (\E retval \in Failures : Finish(d, pins, retval)) /\ Spent
    BY DEF QueueData
<1>4. now \in Diagnostics /\ now.current_frame = diag.current_frame BY <1>1, NowFields
<1>5. Count \in 0 .. MAX_CAPTURE_BYTES BY <1>1, <1>2, CountType
<1>6. <<>> \in Seq(Byte) /\ Len(<<>>) = 0 OBVIOUS
<1>. HIDE DEF Count
<1>7. /\ d \in Diagnostics /\ d.rx_words = <<>>
      /\ next \in Diagnostics /\ next.rx_words = <<>> /\ next.stage = 5
      /\ next.current_frame = diag.current_frame
    BY <1>4, <1>5, <1>6 DEF Diagnostics
<1>8. Len(d.rx_words) <= InWords(MAX_CAPTURE_BYTES) /\ Len(next.rx_words) <= InWords(MAX_CAPTURE_BYTES)
    BY <1>6, <1>7, SizesAssumption DEF InWords
<1>. HIDE DEF d, next
<1>9. CASE Run(next, pins) /\ board' = [board EXCEPT !.fresh = FALSE, !.queued = "data"]
    <2>1. /\ Period /\ diag' = next
          /\ pins'.trigger = pins.trigger /\ pins'.send_request = pins.send_request
        BY <1>1, <1>7, <1>8, <1>9, RunFields
    <2>2. board' \in Boards /\ ~board'.fresh /\ Len(board'.sizes) <= MAX_CAPTURE_FRAMES
        BY <1>1, <1>9, QueuedFields
    <2>3. Typed' BY <1>1, <1>2, <2>1, <2>2, PeriodTyped
    <2>4. diag'.stage = 5 /\ diag'.current_frame = diag.current_frame BY <1>7, <2>1
    <2>5. Len(log) = diag.current_frame /\ pins.trigger BY <1>2, TriggerUp DEF PktInv, Staged
    <2>6. Staged' BY <1>2, <2>4, <2>5 DEF PktInv, Staged
    <2>7. diag.current_frame \in Nat BY <1>1, SizesAssumption DEF Typed, Diagnostics
    <2>8. Pace' >= Pace + 1 BY <1>2, <2>4, <2>7, SizesAssumption DEF Pace
    <2>. QED BY <1>2, <2>1, <2>2, <2>3, <2>4, <2>5, <2>6, <2>8, PeriodGoesOn
<1>10. CASE (\E retval \in Failures : Finish(d, pins, retval)) /\ Spent
    <2>1. PICK retval \in Failures : Finish(d, pins, retval) BY <1>10
    <2>2. retval \in Results /\ retval # 0 BY FailureResult
    <2>3. /\ Period /\ diag'.stage = 7 /\ pins'.done /\ pins'.result = retval
          /\ pins'.trigger = pins.trigger /\ pins'.send_request = pins.send_request
        BY <1>1, <1>7, <1>8, <2>1, <2>2, FinishFields
    <2>4. board' \in Boards /\ ~board'.fresh /\ Len(board'.sizes) <= MAX_CAPTURE_FRAMES
        BY <1>1, <1>10, SpentFields
    <2>5. Typed' BY <1>1, <1>2, <2>3, <2>4, PeriodTyped
    <2>. QED BY <1>2, <2>2, <2>3, <2>4, <2>5, PeriodEnded
<1>. QED BY <1>3, <1>9, <1>10

\* A frame is printed, and the next one is looked at.
LEMMA PrintFrameStep == ASSUME PktInv, PrintFrame PROVE PktInv'
<1>. DEFINE d == [now EXCEPT !.current_frame = @ + 1, !.stage = 4]
<1>. DEFINE frame == SubSeq(diag.rx_words \o Zeros(diag.pending_bytes), 1, diag.pending_bytes)
<1>1. /\ Typed /\ log \in Logs /\ Len(diag.rx_words) <= InWords(MAX_CAPTURE_BYTES)
      /\ diag.rx_words \in Seq(Byte) /\ diag.pending_bytes \in Nat
      /\ diag.current_frame \in Nat
    BY SizesAssumption DEF PktInv, Typed, Diagnostics
<1>2. diag.stage = 5 /\ Run(d, pins) /\ Spent /\ log' = Append(log, frame) /\ line' = line
    BY DEF PrintFrame
<1>3. frame \in Seq(Byte) BY <1>1, LoggedType
<1>. HIDE DEF frame
<1>4. log' \in Logs /\ Len(log') = Len(log) + 1 /\ Len(log) \in Nat BY <1>1, <1>2, <1>3 DEF Logs
<1>5. now \in Diagnostics /\ now.rx_words = diag.rx_words /\ now.current_frame = diag.current_frame
    BY <1>1, NowFields
<1>6. diag.current_frame < MAX_CAPTURE_FRAMES /\ Len(log) = diag.current_frame /\ pins.trigger
    BY <1>2, TriggerUp DEF PktInv, Staged
<1>7. diag.current_frame + 1 \in 0 .. MAX_CAPTURE_FRAMES BY <1>1, <1>6, SizesAssumption
<1>8. /\ d \in Diagnostics /\ d.stage = 4 /\ d.current_frame = diag.current_frame + 1
      /\ d.rx_words = diag.rx_words
    BY <1>5, <1>7 DEF Diagnostics
<1>. HIDE DEF d
<1>9. /\ Typed' /\ Period /\ diag' = d /\ ~board'.fresh
      /\ pins'.trigger = pins.trigger /\ pins'.send_request = pins.send_request
    BY <1>1, <1>2, <1>4, <1>8, QuietPeriod
<1>10. Staged' BY <1>4, <1>6, <1>7, <1>8, <1>9 DEF Staged
<1>11. diag'.stage = 4 /\ diag'.current_frame = diag.current_frame + 1 BY <1>8, <1>9
<1>12. Pace' >= Pace + 1
    <2>1. diag.stage = 5 /\ diag.current_frame \in Nat BY <1>1, <1>2
    <2>2. Pace = Latency + 8 + WAIT_AFTER_SEND_CYCLES + 2 * diag.current_frame BY <2>1 DEF Pace
    <2>3. Pace' = Latency + 7 + WAIT_AFTER_SEND_CYCLES + 2 * (diag.current_frame + 1)
        BY <1>11 DEF Pace
    <2>. QED BY SMTT(30), <2>1, <2>2, <2>3, SizesAssumption
<1>. QED BY <1>2, <1>6, <1>9, <1>10, <1>11, <1>12, PeriodGoesOn

\* After the capture nothing changes but the status.
LEMMA FinishedStep == ASSUME PktInv, Finished PROVE PktInv'
<1>1. Typed /\ log \in Logs /\ Len(diag.rx_words) <= InWords(MAX_CAPTURE_BYTES) BY DEF PktInv, Typed
<1>2. diag.stage = 7 /\ Run(now, pins) /\ Spent /\ log' = log /\ line' = line BY DEF Finished
<1>3. now \in Diagnostics /\ now.rx_words = diag.rx_words /\ now.stage = 7 BY <1>1, <1>2, NowFields
<1>4. /\ Typed' /\ Period /\ diag' = now /\ ~board'.fresh
      /\ pins'.trigger = pins.trigger /\ pins'.send_request = pins.send_request
      /\ pins'.done = pins.done /\ pins'.result = pins.result
    BY <1>1, <1>2, <1>3, QuietPeriod
<1>5. pins.done /\ pins.result # 0 BY <1>2 DEF PktInv, Paced
<1>6. diag'.stage = 7 BY <1>3, <1>4
<1>. QED BY <1>2, <1>4, <1>5, <1>6, PeriodEnded

\* The receiver is emptied, and what was received is forgotten.
LEMMA ResetFields ==
    ASSUME Typed, line' = [line EXCEPT !.received = <<>>],
           board' = [board EXCEPT !.fresh = FALSE, !.sizes = <<>>, !.bytes = <<>>, !.errors = {}]
    PROVE  /\ board' \in Boards /\ ~board'.fresh /\ Len(board'.sizes) <= MAX_CAPTURE_FRAMES
           /\ line' \in Lines /\ line'.sent = line.sent
<1>1. board \in Boards /\ line \in Lines BY DEF Typed
<1>2. <<>> \in Seq(Nat) /\ <<>> \in Seq(Byte) /\ <<>> \in Seq(Seq(Byte)) /\ Len(<<>>) = 0 OBVIOUS
<1>3. line' \in Lines /\ line'.sent = line.sent BY <1>1, <1>2 DEF Lines
<1>4. board' \in Boards /\ ~board'.fresh /\ board'.sizes = <<>> BY <1>1, <1>2 DEF Boards
<1>. QED BY <1>2, <1>3, <1>4, SizesAssumption

\* A capture begins with everything reset, or ends at once with the driver's error.
LEMMA BeginCaptureStep == ASSUME PktInv, BeginCapture PROVE PktInv'
<1>. DEFINE d == [stage |-> 1, cycles |-> 0, current_frame |-> 0, pending_bytes |-> 0,
                  trigger_seen |-> TRUE, sizes |-> NoSizes, rx_words |-> <<>>]
<1>. DEFINE p == [pins EXCEPT !.done = FALSE, !.result = 0, !.frame_count = 0]
<1>1. /\ Typed /\ log \in Logs /\ line \in Lines /\ pins \in PinValues /\ board \in Boards
    BY DEF PktInv, Typed
<1>2. /\ diag.stage = 0 /\ pins.trigger /\ log' = log
      /\ Run(d, p) \/ \E retval \in Failures : Finish(d, p, retval)
      /\ board' = [board EXCEPT !.fresh = FALSE, !.sizes = <<>>, !.bytes = <<>>, !.errors = {}]
      /\ line' = [line EXCEPT !.received = <<>>]
    BY DEF BeginCapture
<1>3. NoSizes \in [1 .. MAX_CAPTURE_FRAMES -> Nat] BY DEF NoSizes, Zeros
<1>4. /\ 0 \in 0 .. 5 + WAIT_AFTER_SEND_CYCLES /\ 0 \in 0 .. MAX_CAPTURE_FRAMES
      /\ 0 \in 0 .. MAX_CAPTURE_BYTES /\ <<>> \in Seq(Byte)
    BY SizesAssumption
<1>5. d \in Diagnostics BY <1>3, <1>4 DEF Diagnostics
<1>6. p \in PinValues /\ p.trigger = pins.trigger /\ p.send_request = pins.send_request
    BY <1>1, <1>4 DEF PinValues, Results
<1>7. Len(d.rx_words) <= InWords(MAX_CAPTURE_BYTES) BY SizesAssumption DEF InWords
<1>8. board' \in Boards /\ ~board'.fresh /\ Len(board'.sizes) <= MAX_CAPTURE_FRAMES
    BY <1>1, <1>2, ResetFields
<1>9. line' \in Lines /\ line'.sent = line.sent BY <1>1, <1>2, ResetFields
<1>10. line.sent = <<>> /\ log = <<>> BY <1>2 DEF PktInv, Staged, Requested
<1>11. d.stage = 1 /\ d.cycles = 0 OBVIOUS
<1>. HIDE DEF d, p
<1>12. CASE Run(d, p)
    <2>1. /\ Period /\ diag' = d
          /\ pins'.trigger = pins.trigger /\ pins'.send_request = pins.send_request
        BY <1>1, <1>5, <1>6, <1>7, <1>12, RunFields
    <2>2. Typed' BY <1>1, <1>2, <1>8, <1>9, <2>1, PeriodTyped
    <2>3. diag'.stage = 1 /\ diag'.cycles = 0 BY <1>11, <2>1
    <2>4. Staged' BY <1>2, <1>10, <2>3 DEF PktInv, Staged
    <2>5. Pace' >= Pace + 1 BY <1>2, <2>3, SizesAssumption DEF Pace
    <2>6. line'.sent = <<>> BY <1>9, <1>10
    <2>. QED BY <1>2, <1>8, <2>1, <2>2, <2>3, <2>4, <2>5, <2>6, PeriodGoesOn
<1>13. CASE \E retval \in Failures : Finish(d, p, retval)
    <2>1. PICK retval \in Failures : Finish(d, p, retval) BY <1>13
    <2>2. retval \in Results /\ retval # 0 BY FailureResult
    <2>3. /\ Period /\ diag'.stage = 7 /\ pins'.done /\ pins'.result = retval
          /\ pins'.trigger = pins.trigger /\ pins'.send_request = pins.send_request
        BY <1>1, <1>5, <1>6, <1>7, <2>1, <2>2, FinishFields
    <2>4. Typed' BY <1>1, <1>2, <1>8, <1>9, <2>3, PeriodTyped
    <2>. QED BY <1>2, <1>8, <2>2, <2>3, <2>4, PeriodEnded
<1>. QED BY <1>2, <1>12, <1>13

\* No period of the function breaks the invariant.
LEMMA FunctionStep == ASSUME PktInv, Function PROVE PktInv'
BY AwaitTriggerStep, BeginCaptureStep, SettleStep, ListenOnlyStep, SendRequestStep, CollectStep,
   NoFramesStep, QueueSizesStep, SizesReadStep, CompleteStep, QueueDataStep, PrintFrameStep,
   FinishedStep
   DEF Function

-----------------------------------------------------------------------------
(* The card *)

\* The queued read leaves the diagnostic where it is, and both of them typed.
LEMMA PerformedFields ==
    ASSUME Typed, NEW after \in Performed(diag, board)
    PROVE  /\ after[1] \in Diagnostics
           /\ after[1].stage = diag.stage /\ after[1].cycles = diag.cycles
           /\ after[1].current_frame = diag.current_frame
           /\ after[1].trigger_seen = diag.trigger_seen
           /\ Len(after[1].rx_words) <= InWords(MAX_CAPTURE_BYTES)
           /\ after[2] \in Boards /\ Len(after[2].sizes) <= MAX_CAPTURE_FRAMES
<1>1. /\ diag \in Diagnostics /\ board \in Boards
      /\ Len(diag.rx_words) <= InWords(MAX_CAPTURE_BYTES) /\ Len(board.sizes) <= MAX_CAPTURE_FRAMES
    BY DEF Typed
<1>2. /\ board.sizes \in Seq(Nat) /\ board.bytes \in Seq(Byte) /\ diag.pending_bytes \in Nat
      /\ diag.pending_bytes <= MAX_CAPTURE_BYTES /\ pins.frame_count \in Nat
    BY SizesAssumption DEF Typed, Boards, Diagnostics, PinValues
<1>3. CASE board.queued = "sizes"
    <2>. DEFINE sizes(n) == [i \in 1 .. MAX_CAPTURE_FRAMES |-> IF i <= n THEN board.sizes[i] ELSE 0]
    <2>. DEFINE rest(n) == SubSeq(board.sizes, n + 1, Len(board.sizes))
    <2>1. PICK n \in pins.frame_count .. Len(board.sizes) :
              after = <<[diag EXCEPT !.sizes = sizes(n)], [board EXCEPT !.sizes = rest(n)]>>
        BY <1>3 DEF Performed
    <2>2. n \in Nat /\ n <= Len(board.sizes) BY <1>2, <2>1
    <2>3. \A i \in 1 .. MAX_CAPTURE_FRAMES : i <= n => board.sizes[i] \in Nat BY <1>2, <2>2
    <2>4. sizes(n) \in [1 .. MAX_CAPTURE_FRAMES -> Nat] BY <2>3
    <2>5. rest(n) \in Seq(Nat) /\ Len(rest(n)) <= Len(board.sizes) BY <1>2, <2>2
    <2>. HIDE DEF sizes, rest
    <2>6. /\ after[1] = [diag EXCEPT !.sizes = sizes(n)]
          /\ after[2] = [board EXCEPT !.sizes = rest(n)]
        BY <2>1
    <2>7. /\ after[1] \in Diagnostics /\ after[1].rx_words = diag.rx_words
          /\ after[1].stage = diag.stage /\ after[1].cycles = diag.cycles
          /\ after[1].current_frame = diag.current_frame
          /\ after[1].trigger_seen = diag.trigger_seen
        BY <1>1, <2>4, <2>6 DEF Diagnostics
    <2>8. after[2] \in Boards /\ after[2].sizes = rest(n) BY <1>1, <2>5, <2>6 DEF Boards
    <2>9. Len(rest(n)) \in Nat /\ Len(board.sizes) \in Nat BY <1>2, <2>5
    <2>10. Len(after[2].sizes) <= MAX_CAPTURE_FRAMES BY <1>1, <2>5, <2>8, <2>9, SizesAssumption
    <2>. QED BY <1>1, <2>7, <2>8, <2>10
<1>4. CASE board.queued = "data"
    <2>. DEFINE count == Min({InWords(diag.pending_bytes), Len(board.bytes)})
    <2>. DEFINE taken == SubSeq(board.bytes, 1, count)
    <2>. DEFINE rest == SubSeq(board.bytes, count + 1, Len(board.bytes))
    <2>1. after = <<[diag EXCEPT !.rx_words = taken], [board EXCEPT !.bytes = rest]>>
        BY <1>4 DEF Performed
    <2>2. Len(board.bytes) \in Nat /\ MAX_CAPTURE_BYTES \in Nat BY <1>2, SizesAssumption
    <2>3. /\ InWords(diag.pending_bytes) \in Nat /\ InWords(MAX_CAPTURE_BYTES) \in Nat
          /\ InWords(diag.pending_bytes) <= InWords(MAX_CAPTURE_BYTES)
        <3>1. diag.pending_bytes \in Nat /\ diag.pending_bytes <= MAX_CAPTURE_BYTES BY <1>2
        <3>2. MAX_CAPTURE_BYTES <= MAX_CAPTURE_BYTES BY <2>2
        <3>3. InWords(MAX_CAPTURE_BYTES) \in Nat BY <2>2, <3>2, InWordsMonotone
        <3>. QED BY <2>2, <3>1, <3>3, InWordsMonotone
    <2>4. count = IF InWords(diag.pending_bytes) <= Len(board.bytes)
                  THEN InWords(diag.pending_bytes) ELSE Len(board.bytes)
        BY <2>2, <2>3, MinOfTwo
    <2>. HIDE DEF count
    <2>5. /\ count \in Nat /\ count <= Len(board.bytes) /\ count <= InWords(MAX_CAPTURE_BYTES)
        BY <2>2, <2>3, <2>4
    <2>6. taken \in Seq(Byte) /\ Len(taken) = count /\ rest \in Seq(Byte) BY <1>2, <2>5
    <2>. HIDE DEF taken, rest
    <2>7. after[1] = [diag EXCEPT !.rx_words = taken] /\ after[2] = [board EXCEPT !.bytes = rest]
        BY <2>1
    <2>8. /\ after[1] \in Diagnostics /\ after[1].rx_words = taken
          /\ after[1].stage = diag.stage /\ after[1].cycles = diag.cycles
          /\ after[1].current_frame = diag.current_frame
          /\ after[1].trigger_seen = diag.trigger_seen
        BY <1>1, <2>6, <2>7 DEF Diagnostics
    <2>9. after[2] \in Boards /\ after[2].sizes = board.sizes BY <1>1, <2>6, <2>7 DEF Boards
    <2>. QED BY <1>1, <2>5, <2>6, <2>8, <2>9
<1>5. CASE board.queued \notin {"sizes", "data"}
    <2>1. after = <<diag, board>> BY <1>5 DEF Performed
    <2>2. after[1] = diag /\ after[2] = board BY <2>1
    <2>. QED BY <1>1, <2>2
<1>. QED BY <1>3, <1>4, <1>5

\* A period begins: the script has slept one period more.
LEMMA PeriodBegins ==
    ASSUME PktInv, Passing, diag' \in Diagnostics, board' \in Boards, line' \in Lines,
           Len(diag'.rx_words) <= InWords(MAX_CAPTURE_BYTES), Len(board'.sizes) <= MAX_CAPTURE_FRAMES,
           board'.fresh, pins' = pins, log' = log, line'.sent = line.sent,
           diag'.stage = diag.stage, diag'.cycles = diag.cycles,
           diag'.current_frame = diag.current_frame, diag'.trigger_seen = diag.trigger_seen
    PROVE  PktInv'
<1>1. /\ script.at = "sleeping" /\ ~board.fresh /\ script.waited < SleepCycles
      /\ pins.trigger \/ script.raised \/ script.waited < Latency
      /\ script' = [script EXCEPT !.waited = script.waited + 1]
    BY DEF Passing
<1>2. script \in Scripts /\ pins \in PinValues /\ log \in Logs BY DEF PktInv, Typed
<1>3. script.waited \in Nat /\ script.waited + 1 \in 0 .. SleepCycles
    BY <1>1, <1>2, SizesAssumption DEF Scripts
<1>4. /\ script' \in Scripts /\ script'.verdicts = script.verdicts
      /\ script'.waited = script.waited + 1
      /\ script'.at = script.at /\ script'.mode = script.mode /\ script'.raised = script.raised
    BY <1>1, <1>2, <1>3 DEF Scripts
<1>5. script' \in Scripts' BY <1>4 DEF Scripts, Results
<1>6. /\ diag' \in Diagnostics' /\ board' \in Boards' /\ line' \in Lines'
      /\ pins' \in PinValues' /\ log' \in Logs'
    BY <1>2 DEF Diagnostics, Boards, Lines, PinValues, Logs, Status, Results, request
<1>7. Typed' BY <1>5, <1>6 DEF Typed, InWords
<1>8. Staged' BY DEF PktInv, Staged
<1>9. Requested' BY <1>4 DEF PktInv, Requested
<1>10. Triggered' BY <1>4 DEF PktInv, Triggered
<1>11. Pace' = Pace BY DEF Pace
<1>12. diag.stage # 7 => Pace \in Nat BY PaceType DEF PktInv
<1>13. Paced'
    <2>1. diag'.stage = 7 => pins'.done /\ pins'.result # 0 BY DEF PktInv, Paced
    <2>2. CASE diag.stage # 7
        <3>1. script.waited <= Pace BY <1>1, <1>12, <2>2 DEF PktInv, Paced
        <3>2. CASE pins.trigger
            <4>1. script'.waited <= Pace' + 1 BY <1>3, <1>4, <1>11, <1>12, <2>2, <3>1
            <4>. QED BY <2>1, <3>2, <4>1 DEF Paced
        <3>3. CASE ~pins.trigger
            <4>1. diag.stage = 0 /\ ~script.raised BY <2>2, <3>3 DEF PktInv, Triggered
            <4>2. script.waited < Latency /\ Pace = Latency BY <1>1, <3>3, <4>1 DEF Pace
            <4>3. script'.waited <= Pace' BY <1>3, <1>4, <1>11, <4>2, SizesAssumption
            <4>4. Pace' + 0 = Pace' BY <1>11, <4>2, SizesAssumption
            <4>. QED BY <2>1, <3>3, <4>3, <4>4 DEF Paced
        <3>. QED BY <3>2, <3>3
    <2>3. CASE diag.stage = 7 BY <2>1, <2>3 DEF Paced
    <2>. QED BY <2>2, <2>3
<1>. QED BY <1>7, <1>8, <1>9, <1>10, <1>13 DEF PktInv

\* hm2 read.
LEMMA BoardReadStep == ASSUME PktInv, BoardRead PROVE PktInv'
<1>1. Typed /\ board \in Boards /\ line \in Lines /\ Len(board.sizes) <= MAX_CAPTURE_FRAMES
    BY DEF PktInv, Typed
<1>2. Passing /\ pins' = pins /\ log' = log /\ line' = line BY DEF BoardRead
<1>3. PICK after \in Performed(diag, board) :
          /\ diag' = after[1]
          /\ board' = [after[2] EXCEPT !.fresh = TRUE, !.queued = "nothing", !.sampled = RxStatus]
    BY DEF BoardRead
<1>4. /\ after[1] \in Diagnostics
      /\ after[1].stage = diag.stage /\ after[1].cycles = diag.cycles
      /\ after[1].current_frame = diag.current_frame
      /\ after[1].trigger_seen = diag.trigger_seen
      /\ Len(after[1].rx_words) <= InWords(MAX_CAPTURE_BYTES)
      /\ after[2] \in Boards /\ Len(after[2].sizes) <= MAX_CAPTURE_FRAMES
    BY <1>1, PerformedFields
<1>5. RxStatus \in Status
    <2>1. Len(board.sizes) \in 0 .. MAX_CAPTURE_FRAMES BY <1>1, SizesAssumption DEF Boards
    <2>. QED BY <1>1, <2>1 DEF RxStatus, Status, Boards
<1>6. /\ board' \in Boards /\ board'.fresh /\ board'.sizes = after[2].sizes
    BY <1>3, <1>4, <1>5 DEF Boards
<1>. QED BY <1>1, <1>2, <1>3, <1>4, <1>6, PeriodBegins

\* A lost packet.
LEMMA PacketLostStep == ASSUME PktInv, PacketLost PROVE PktInv'
<1>1. /\ Typed /\ diag \in Diagnostics /\ board \in Boards /\ line \in Lines
      /\ Len(board.sizes) <= MAX_CAPTURE_FRAMES /\ Len(diag.rx_words) <= InWords(MAX_CAPTURE_BYTES)
    BY DEF PktInv, Typed
<1>2. /\ Passing /\ diag' = diag /\ pins' = pins /\ log' = log
      /\ line.lost < MostLost /\ line' = [line EXCEPT !.lost = line.lost + 1]
    BY DEF PacketLost
<1>3. PICK after \in Performed(diag, board) \cup {<<diag, board>>} :
          board' = [after[2] EXCEPT !.fresh = TRUE, !.queued = "nothing"]
    BY DEF PacketLost
<1>4. after[2] \in Boards /\ Len(after[2].sizes) <= MAX_CAPTURE_FRAMES
    <2>1. CASE after \in Performed(diag, board) BY <1>1, <2>1, PerformedFields
    <2>2. CASE after = <<diag, board>> BY <1>1, <2>2
    <2>. QED BY <1>3, <2>1, <2>2
<1>5. board' \in Boards /\ board'.fresh /\ board'.sizes = after[2].sizes BY <1>3, <1>4 DEF Boards
<1>6. line.lost + 1 \in 0 .. MostLost BY <1>1, <1>2, SizesAssumption DEF Lines
<1>7. line' \in Lines /\ line'.sent = line.sent BY <1>1, <1>2, <1>6 DEF Lines
<1>. QED BY <1>1, <1>2, <1>4, <1>5, <1>7, PeriodBegins

-----------------------------------------------------------------------------
(* The line *)

\* What happens on the line changes the receiver, and what is noted of the line.
LEMMA LineKeeps ==
    ASSUME PktInv, board' \in Boards, Len(board'.sizes) <= MAX_CAPTURE_FRAMES, line' \in Lines,
           board'.fresh = board.fresh, line'.sent = line.sent,
           diag' = diag, pins' = pins, log' = log, script' = script
    PROVE  PktInv'
<1>1. /\ diag \in Diagnostics /\ pins \in PinValues /\ log \in Logs /\ script \in Scripts
      /\ Len(diag.rx_words) <= InWords(MAX_CAPTURE_BYTES)
    BY DEF PktInv, Typed
<1>2. /\ diag' \in Diagnostics' /\ board' \in Boards' /\ line' \in Lines'
      /\ pins' \in PinValues' /\ log' \in Logs' /\ script' \in Scripts'
    BY <1>1 DEF Diagnostics, Boards, Lines, PinValues, Logs, Scripts, Status, Results, request
<1>3. Typed' BY <1>1, <1>2 DEF Typed, InWords
<1>4. Staged' BY DEF PktInv, Staged
<1>5. Requested' BY DEF PktInv, Requested
<1>6. Triggered' BY DEF PktInv, Triggered
<1>7. Paced' BY DEF PktInv, Paced, Pace
<1>. QED BY <1>3, <1>4, <1>5, <1>6, <1>7 DEF PktInv

\* A frame arrives, and is received or finds the FIFO full.
LEMMA ArriveStep ==
    ASSUME PktInv, NEW frame \in Seq(Byte), NEW flags \in Nat, NEW l \in Lines,
           l.sent = line.sent, l.arrivals = line.arrivals, Arrive(frame, flags, l)
    PROVE  PktInv'
<1>1. board \in Boards /\ line \in Lines /\ Len(board.sizes) <= MAX_CAPTURE_FRAMES
    BY DEF PktInv, Typed
<1>2. /\ line.arrivals < MostArrivals
      /\ diag' = diag /\ pins' = pins /\ log' = log /\ script' = script
    BY DEF Arrive
<1>3. l.arrivals + 1 \in 0 .. MostArrivals BY <1>1, <1>2, SizesAssumption DEF Lines
<1>4. CASE Len(board.sizes) < MAX_CAPTURE_FRAMES
    <2>. DEFINE sizes == Append(board.sizes, Len(frame) + flags)
    <2>. DEFINE bytes == board.bytes \o FilledUp(frame)
    <2>. DEFINE received == Append(l.received, frame)
    <2>1. board' = [board EXCEPT !.sizes = sizes, !.bytes = bytes] BY <1>4 DEF Arrive
    <2>2. line' = [l EXCEPT !.arrivals = l.arrivals + 1, !.received = received] BY <1>4 DEF Arrive
    <2>3. FilledUp(frame) \in Seq(Byte) BY FilledUpType
    <2>4. board.sizes \in Seq(Nat) /\ board.bytes \in Seq(Byte) /\ l.received \in Seq(Seq(Byte))
        BY <1>1 DEF Boards, Lines
    <2>5. Len(frame) + flags \in Nat OBVIOUS
    <2>6. sizes \in Seq(Nat) /\ Len(sizes) = Len(board.sizes) + 1 /\ Len(board.sizes) \in Nat
        BY <2>4, <2>5
    <2>7. bytes \in Seq(Byte) BY <2>3, <2>4
    <2>8. received \in Seq(Seq(Byte)) BY <2>4
    <2>. HIDE DEF sizes, bytes, received
    <2>9. board' \in Boards /\ board'.fresh = board.fresh /\ board'.sizes = sizes
        BY <1>1, <2>1, <2>6, <2>7 DEF Boards
    <2>10. line' \in Lines /\ line'.sent = line.sent BY <1>3, <2>2, <2>8 DEF Lines
    <2>11. Len(board'.sizes) <= MAX_CAPTURE_FRAMES BY <1>4, <2>6, <2>9, SizesAssumption
    <2>. QED BY <1>2, <2>9, <2>10, <2>11, LineKeeps
<1>5. CASE ~(Len(board.sizes) < MAX_CAPTURE_FRAMES)
    <2>1. board' = [board EXCEPT !.errors = board.errors \cup {"rcfifo"}] BY <1>5 DEF Arrive
    <2>2. line' = [l EXCEPT !.arrivals = l.arrivals + 1] BY <1>5 DEF Arrive
    <2>3. board' \in Boards /\ board'.fresh = board.fresh /\ board'.sizes = board.sizes
        BY <1>1, <2>1 DEF Boards
    <2>4. line' \in Lines /\ line'.sent = line.sent BY <1>3, <2>2 DEF Lines
    <2>. QED BY <1>1, <1>2, <2>3, <2>4, LineKeeps
<1>. QED BY <1>4, <1>5

\* Echo, answer, both in one frame, or anything else.
LEMMA HappenStep == ASSUME PktInv, Happen PROVE PktInv'
<1>1. line \in Lines /\ board \in Boards /\ Len(board.sizes) <= MAX_CAPTURE_FRAMES
    BY DEF PktInv, Typed
<1>2. request \in Seq(Byte) BY RequestType
<1>3. /\ Echoed \in Lines /\ Echoed.sent = line.sent /\ Echoed.arrivals = line.arrivals
    BY <1>1 DEF Echoed, Lines
<1>4. ASSUME NEW payload \in Answers, NEW l \in {line, Echoed}
      PROVE  /\ [l EXCEPT !.answer = payload] \in Lines
             /\ [l EXCEPT !.answer = payload].sent = line.sent
             /\ [l EXCEPT !.answer = payload].arrivals = line.arrivals
             /\ append_crc(payload) \in Seq(Byte)
    <2>1. l \in Lines /\ l.sent = line.sent /\ l.arrivals = line.arrivals BY <1>1, <1>3
    <2>2. payload \in Seq(Byte) BY FramesAssumption
    <2>3. append_crc(payload) \in Seq(Byte) BY <2>2, AppendCrcType
    <2>. QED BY <2>1, <2>3 DEF Lines
<1>5. CASE Echo
    <2>1. Arrive(request, 0, Echoed) BY <1>5 DEF Echo
    <2>. QED BY <1>2, <1>3, <2>1, ArriveStep
<1>6. CASE Answer
    <2>1. PICK payload \in Answers, bits \in Damages :
              Arrive(Flipped(append_crc(payload), bits), 0, [line EXCEPT !.answer = payload])
        BY <1>6 DEF Answer
    <2>2. Flipped(append_crc(payload), bits) \in Seq(Byte) BY <1>4, FlippedType
    <2>. QED BY <1>4, <2>1, <2>2, ArriveStep
<1>7. CASE Joined
    <2>1. PICK payload \in Answers :
              Arrive(request \o append_crc(payload), 0, [Echoed EXCEPT !.answer = payload])
        BY <1>7 DEF Joined
    <2>2. append_crc(payload) \in Seq(Byte) BY <1>4
    <2>3. request \o append_crc(payload) \in Seq(Byte) BY <1>2, <2>2
    <2>. QED BY <1>4, <2>1, <2>3, ArriveStep
<1>8. CASE Stray
    <2>1. PICK stray \in Strays : Arrive(stray.frame, stray.flags, line) BY <1>8 DEF Stray
    <2>2. stray.frame \in Seq(Byte) /\ stray.flags \in Nat BY FramesAssumption
    <2>. QED BY <1>1, <2>1, <2>2, ArriveStep
<1>9. CASE Disturb
    <2>1. /\ board' \in {[board EXCEPT !.errors = {e}] : e \in {"startbit", "overrun"}}
          /\ diag' = diag /\ pins' = pins /\ log' = log /\ line' = line /\ script' = script
        BY <1>9 DEF Disturb
    <2>2. PICK e \in {"startbit", "overrun"} : board' = [board EXCEPT !.errors = {e}] BY <2>1
    <2>3. board' \in Boards /\ board'.fresh = board.fresh /\ board'.sizes = board.sizes
        BY <1>1, <2>2 DEF Boards
    <2>. QED BY <1>1, <2>1, <2>3, LineKeeps
<1>. QED BY <1>5, <1>6, <1>7, <1>8, <1>9 DEF Happen

-----------------------------------------------------------------------------
(* The script *)

\* A step of the script, or a pin that is set, leaves the rest alone.
LEMMA ScriptKeeps ==
    ASSUME PktInv, pins' \in PinValues, script' \in Scripts', diag' = diag, log' = log,
           board' = board, line' = line, Requested', Triggered', Paced'
    PROVE  PktInv'
<1>1. /\ diag \in Diagnostics /\ board \in Boards /\ line \in Lines /\ log \in Logs
      /\ Len(diag.rx_words) <= InWords(MAX_CAPTURE_BYTES) /\ Len(board.sizes) <= MAX_CAPTURE_FRAMES
    BY DEF PktInv, Typed
<1>2. /\ diag' \in Diagnostics' /\ board' \in Boards' /\ line' \in Lines'
      /\ pins' \in PinValues' /\ log' \in Logs'
    BY <1>1 DEF Diagnostics, Boards, Lines, PinValues, Logs, Status, Results, request
<1>3. Typed' BY <1>1, <1>2 DEF Typed, InWords
<1>4. Staged' BY DEF PktInv, Staged
<1>. QED BY <1>3, <1>4 DEF PktInv

\* The script sleeps only once send-request says what its mode says.
LEMMA PrepareStep == ASSUME PktInv, Prepare PROVE PktInv'
<1>1. pins \in PinValues /\ script \in Scripts BY DEF PktInv, Typed
<1>2. script.at = "start" /\ diag' = diag /\ log' = log /\ board' = board /\ line' = line
    BY DEF Prepare
<1>3. PICK set \in BOOLEAN, healthy \in BOOLEAN :
          /\ pins' = [pins EXCEPT !.send_request =
                         IF set THEN script.mode = "readonly" ELSE pins.send_request]
          /\ script' = [script EXCEPT !.at =
                           IF healthy /\ (pins'.send_request = (script.mode = "readonly"))
                           THEN "sleeping" ELSE "ended"]
    BY DEF Prepare
<1>4. (IF set THEN script.mode = "readonly" ELSE pins.send_request) \in BOOLEAN
    BY <1>1 DEF PinValues
<1>5. /\ pins' \in PinValues /\ pins'.trigger = pins.trigger /\ pins'.done = pins.done
      /\ pins'.result = pins.result
    BY <1>1, <1>3, <1>4 DEF PinValues
<1>6. /\ script' \in Scripts /\ script'.verdicts = script.verdicts /\ script'.mode = script.mode
      /\ script'.raised = script.raised /\ script'.waited = script.waited
      /\ script'.at = "sleeping" => pins'.send_request = (script.mode = "readonly")
    BY <1>1, <1>3 DEF Scripts
<1>7. script' \in Scripts' BY <1>6 DEF Scripts, Results
<1>8. Requested' BY <1>2, <1>6 DEF PktInv, Requested
<1>9. Triggered' BY <1>2, <1>5, <1>6 DEF PktInv, Triggered
<1>10. Pace' = Pace BY <1>2 DEF Pace
<1>11. Paced' BY <1>2, <1>5, <1>6, <1>10 DEF PktInv, Paced
<1>. QED BY <1>2, <1>5, <1>7, <1>8, <1>9, <1>11, ScriptKeeps

\* halrun raises the trigger: no period has begun meanwhile.
LEMMA RaiseTriggerStep == ASSUME PktInv, RaiseTrigger PROVE PktInv'
<1>1. pins \in PinValues /\ script \in Scripts BY DEF PktInv, Typed
<1>2. /\ ~board.fresh /\ diag' = diag /\ log' = log /\ board' = board /\ line' = line
      /\ pins' = [pins EXCEPT !.trigger = TRUE] /\ script' = [script EXCEPT !.raised = TRUE]
    BY DEF RaiseTrigger
<1>3. /\ pins' \in PinValues /\ pins'.trigger /\ pins'.done = pins.done
      /\ pins'.result = pins.result /\ pins'.send_request = pins.send_request
    BY <1>1, <1>2 DEF PinValues
<1>4. /\ script' \in Scripts /\ script'.verdicts = script.verdicts /\ script'.mode = script.mode
      /\ script'.raised /\ script'.waited = script.waited /\ script'.at = script.at
    BY <1>1, <1>2 DEF Scripts
<1>5. script' \in Scripts' BY <1>4 DEF Scripts, Results
<1>6. Requested' BY <1>2, <1>3, <1>4 DEF PktInv, Requested
<1>7. Triggered' BY <1>2, <1>3, <1>4 DEF PktInv, Triggered
<1>8. Pace' = Pace BY <1>2 DEF Pace
<1>9. Paced' BY <1>2, <1>3, <1>4, <1>8 DEF PktInv, Paced
<1>. QED BY <1>2, <1>3, <1>5, <1>6, <1>7, <1>9, ScriptKeeps

\* The trigger moves when the capture is over.
LEMMA MoveTriggerStep == ASSUME PktInv, MoveTrigger PROVE PktInv'
<1>1. pins \in PinValues /\ script \in Scripts BY DEF PktInv, Typed
<1>2. /\ diag.stage = 7 /\ pins' = [pins EXCEPT !.trigger = ~pins.trigger]
      /\ diag' = diag /\ log' = log /\ board' = board /\ line' = line /\ script' = script
    BY DEF MoveTrigger
<1>3. /\ pins' \in PinValues /\ pins'.done = pins.done
      /\ pins'.result = pins.result /\ pins'.send_request = pins.send_request
    BY <1>1, <1>2 DEF PinValues
<1>4. script' \in Scripts' BY <1>1, <1>2 DEF Scripts, Results
<1>5. Requested' BY <1>2, <1>3 DEF PktInv, Requested
<1>6. Triggered' BY <1>2 DEF Triggered
<1>7. Paced' BY <1>2, <1>3 DEF PktInv, Paced
<1>. QED BY <1>2, <1>3, <1>4, <1>5, <1>6, <1>7, ScriptKeeps

\* The pins are read.
LEMMA InspectStep == ASSUME PktInv, Inspect PROVE PktInv'
<1>1. pins \in PinValues /\ script \in Scripts BY DEF PktInv, Typed
<1>2. /\ script' = [script EXCEPT !.at = "inspected", !.done = pins.done, !.result = pins.result]
      /\ diag' = diag /\ log' = log /\ board' = board /\ line' = line /\ pins' = pins
    BY DEF Inspect
<1>3. pins.done \in BOOLEAN /\ pins.result \in Results BY <1>1 DEF PinValues
<1>4. /\ script' \in Scripts /\ script'.verdicts = script.verdicts /\ script'.at = "inspected"
      /\ script'.raised = script.raised /\ script'.waited = script.waited
    BY <1>1, <1>2, <1>3 DEF Scripts
<1>5. script' \in Scripts' BY <1>4 DEF Scripts, Results
<1>6. Requested' BY <1>2, <1>4 DEF PktInv, Requested
<1>7. Triggered' BY <1>2, <1>4 DEF PktInv, Triggered
<1>8. Pace' = Pace BY <1>2 DEF Pace
<1>9. Paced' BY <1>2, <1>4, <1>8 DEF PktInv, Paced
<1>. QED BY <1>1, <1>2, <1>5, <1>6, <1>7, <1>9, ScriptKeeps

\* The log is decoded.
LEMMA DecodeStep == ASSUME PktInv, Decode PROVE PktInv'
<1>. DEFINE verdicts == [i \in DOMAIN log |->
                            parse_register_response(log[i], FUNCTION_READ_INPUT_REGISTERS, 1)]
<1>1. pins \in PinValues /\ script \in Scripts BY DEF PktInv, Typed
<1>2. /\ script' = [script EXCEPT !.at = "ended", !.verdicts = verdicts]
      /\ diag' = diag /\ log' = log /\ board' = board /\ line' = line /\ pins' = pins
    BY DEF Decode
<1>. HIDE DEF verdicts
<1>3. /\ script' \in [at : {"start", "sleeping", "inspected", "ended"}, mode : Modes,
                      raised : BOOLEAN, waited : 0 .. SleepCycles, done : BOOLEAN,
                      result : Results, verdicts : {script'.verdicts}]
      /\ script'.at = "ended" /\ script'.raised = script.raised /\ script'.waited = script.waited
    BY <1>1, <1>2 DEF Scripts
<1>4. script' \in Scripts' BY <1>3 DEF Scripts, Results
<1>5. Requested' BY <1>2, <1>3 DEF PktInv, Requested
<1>6. Triggered' BY <1>2, <1>3 DEF PktInv, Triggered
<1>7. Pace' = Pace BY <1>2 DEF Pace
<1>8. Paced' BY <1>2, <1>3, <1>7 DEF PktInv, Paced
<1>. QED BY <1>1, <1>2, <1>4, <1>5, <1>6, <1>8, ScriptKeeps

-----------------------------------------------------------------------------
(* The invariant *)

\* The invariant holds at the start, a frame of before in the receiver or not.
LEMMA PktInit == ASSUME Init PROVE PktInv
<1>1. /\ 0 \in 0 .. 5 + WAIT_AFTER_SEND_CYCLES /\ 0 \in 0 .. MAX_CAPTURE_FRAMES
      /\ 0 \in 0 .. MAX_CAPTURE_BYTES /\ 0 \in 0 .. MostArrivals /\ 0 \in 0 .. MostLost
      /\ 0 \in 0 .. SleepCycles /\ 0 \in Results
    BY SizesAssumption DEF Results
<1>2. /\ <<>> \in Seq(Byte) /\ <<>> \in Seq(Seq(Byte)) /\ <<>> \in Seq({request})
      /\ <<>> \in Seq(Nat) /\ Len(<<>>) = 0
    OBVIOUS
<1>3. NoSizes \in [1 .. MAX_CAPTURE_FRAMES -> Nat] BY DEF NoSizes, Zeros
<1>4. diag = [stage |-> 0, cycles |-> 0, current_frame |-> 0, pending_bytes |-> 0,
              trigger_seen |-> FALSE, sizes |-> NoSizes, rx_words |-> <<>>]
    BY DEF Init
<1>5. diag \in Diagnostics /\ diag.stage = 0 /\ ~diag.trigger_seen /\ diag.rx_words = <<>>
    BY <1>1, <1>2, <1>3, <1>4 DEF Diagnostics
<1>6. [frames |-> 0, errors |-> {}] \in Status BY <1>1 DEF Status
<1>7. pins = [trigger |-> FALSE, send_request |-> TRUE, done |-> FALSE, result |-> 0,
              state |-> 0, rx_status |-> [frames |-> 0, errors |-> {}], frame_count |-> 0]
    BY DEF Init
<1>8. pins \in PinValues /\ ~pins.trigger BY <1>1, <1>6, <1>7 DEF PinValues
<1>9. log = <<>> BY DEF Init
<1>10. PICK frame \in {<<>>} \cup {stray.frame : stray \in Strays}, errors \in {{}, {"overrun"}} :
          board = [sizes |-> IF frame = <<>> THEN <<>> ELSE <<Len(frame)>>,
                   bytes |-> FilledUp(frame),
                   errors |-> errors, queued |-> "nothing", fresh |-> FALSE,
                   sampled |-> [frames |-> 0, errors |-> {}]]
    BY DEF Init
<1>11. frame \in Seq(Byte)
    <2>1. CASE frame = <<>> BY <1>2, <2>1
    <2>2. CASE \E stray \in Strays : frame = stray.frame BY <2>2, FramesAssumption
    <2>. QED BY <2>1, <2>2
<1>12. FilledUp(frame) \in Seq(Byte) BY <1>11, FilledUpType
<1>. DEFINE sizes == IF frame = <<>> THEN <<>> ELSE <<Len(frame)>>
<1>13. sizes \in Seq(Nat) /\ Len(sizes) \in Nat /\ Len(sizes) <= 1
    <2>1. Len(frame) \in Nat BY <1>11
    <2>2. CASE frame = <<>> BY <1>2, <2>2
    <2>3. CASE frame # <<>>
        <3>1. sizes = <<Len(frame)>> BY <2>3
        <3>. HIDE DEF sizes
        <3>2. <<Len(frame)>> \in Seq(Nat) /\ Len(<<Len(frame)>>) = 1 BY <2>1
        <3>. QED BY <3>1, <3>2
    <2>. QED BY <2>2, <2>3
<1>14. board \in Boards /\ board.sizes = sizes /\ ~board.fresh
    BY <1>6, <1>10, <1>12, <1>13 DEF Boards
<1>15. line = [sent |-> <<>>, echoed |-> FALSE, answer |-> <<>>, received |-> <<>>,
               arrivals |-> 0, lost |-> 0]
    BY DEF Init
<1>16. line \in Lines /\ line.sent = <<>> BY <1>1, <1>2, <1>15 DEF Lines
<1>17. PICK mode \in Modes :
          script = [at |-> "start", mode |-> mode, raised |-> FALSE, waited |-> 0, done |-> FALSE,
                    result |-> 0, verdicts |-> <<>>]
    BY DEF Init
<1>18. script \in Scripts /\ script.at = "start" /\ ~script.raised /\ script.waited = 0
    BY <1>1, <1>17 DEF Scripts
<1>19. InWords(MAX_CAPTURE_BYTES) >= 0 BY SizesAssumption DEF InWords
<1>20. Len(board.sizes) <= MAX_CAPTURE_FRAMES BY <1>13, <1>14, SizesAssumption
<1>21. Typed BY <1>2, <1>5, <1>8, <1>9, <1>14, <1>16, <1>18, <1>19, <1>20 DEF Typed, Logs
<1>22. Staged BY <1>2, <1>5, <1>9, SizesAssumption DEF Staged
<1>23. Requested BY <1>16, <1>18 DEF Requested
<1>24. Triggered BY <1>5, <1>8, <1>18 DEF Triggered
<1>25. Pace = Latency BY <1>5 DEF Pace
<1>26. Paced BY <1>5, <1>8, <1>14, <1>18, <1>25, SizesAssumption DEF Paced
<1>. QED BY <1>21, <1>22, <1>23, <1>24, <1>26 DEF PktInv

\* A stutter changes nothing.
LEMMA PktStutter == ASSUME PktInv, UNCHANGED pktuartVars PROVE PktInv'
<1>1. /\ diag' = diag /\ pins' = pins /\ log' = log /\ board' = board /\ line' = line
      /\ script' = script
    BY DEF pktuartVars
<1>2. board \in Boards /\ line \in Lines /\ Len(board.sizes) <= MAX_CAPTURE_FRAMES
    BY DEF PktInv, Typed
<1>. QED BY <1>1, <1>2, LineKeeps

\* No step breaks the invariant.
LEMMA PktNext == ASSUME PktInv, [Next]_pktuartVars PROVE PktInv'
BY FunctionStep, BoardReadStep, PacketLostStep, HappenStep, PrepareStep, RaiseTriggerStep,
   MoveTriggerStep, InspectStep, DecodeStep, PktStutter
   DEF Next

\* The invariant holds in every state that is reached.
THEOREM SpecPktInv == Spec => []PktInv
<1>1. Init => PktInv BY PktInit
<1>2. PktInv /\ [Next]_pktuartVars => PktInv' BY PktNext
<1>. QED BY <1>1, <1>2, PTL DEF Spec

-----------------------------------------------------------------------------
(* What follows *)

\* Whatever arrives, whatever the driver reports and whatever is lost, the counters, the
\* buffers and the log stay within their sizes, and every value within its type.
THEOREM SpecTypeOK == Spec => []TypeOK
<1>1. PktInv => TypeOK
    <2>. SUFFICES ASSUME PktInv PROVE TypeOK OBVIOUS
    <2>1. Typed /\ Len(log) <= MAX_CAPTURE_FRAMES BY DEF PktInv, Staged
    <2>2. /\ diag.stage \in {0, 1, 2, 3, 4, 5, 7} /\ diag.trigger_seen \in BOOLEAN
          /\ diag.cycles \in 0 .. 5 + WAIT_AFTER_SEND_CYCLES
          /\ diag.current_frame \in 0 .. MAX_CAPTURE_FRAMES
          /\ diag.pending_bytes \in 0 .. MAX_CAPTURE_BYTES
          /\ diag.sizes \in [1 .. MAX_CAPTURE_FRAMES -> Nat] /\ diag.rx_words \in Seq(Byte)
          /\ Len(diag.rx_words) <= InWords(MAX_CAPTURE_BYTES)
        BY <2>1 DEF Typed, Diagnostics
    <2>3. /\ pins.result \in {0, 1, -2} \cup Failures
          /\ pins.frame_count \in 0 .. MAX_CAPTURE_FRAMES /\ pins.rx_status \in Status
        BY <2>1 DEF Typed, PinValues, Results
    <2>4. \A i \in DOMAIN log : log[i] \in Seq(Byte) BY <2>1 DEF Typed, Logs
    <2>5. board.sampled \in Status /\ board.queued \in {"nothing", "sizes", "data"}
        BY <2>1 DEF Typed, Boards
    <2>6. line.arrivals \in 0 .. MostArrivals /\ line.lost \in 0 .. MostLost
        BY <2>1 DEF Typed, Lines
    <2>7. script.waited \in 0 .. SleepCycles BY <2>1 DEF Typed, Scripts
    <2>. QED BY <2>1, <2>2, <2>3, <2>4, <2>5, <2>6, <2>7 DEF TypeOK
<1>. QED BY <1>1, SpecPktInv, PTL

\* What arrives leaves alone what was sent.
LEMMA ArriveSent ==
    ASSUME NEW frame, NEW flags, NEW l \in Lines, l.sent = line.sent, Arrive(frame, flags, l)
    PROVE  line'.sent = line.sent
<1>1. \/ line' = [l EXCEPT !.arrivals = l.arrivals + 1, !.received = Append(l.received, frame)]
      \/ line' = [l EXCEPT !.arrivals = l.arrivals + 1]
    BY DEF Arrive
<1>. QED BY <1>1 DEF Lines

\* Nothing else that happens on the line does either.
LEMMA HappenSent == ASSUME PktInv, Happen PROVE line'.sent = line.sent
<1>1. line \in Lines BY DEF PktInv, Typed
<1>2. Echoed \in Lines /\ Echoed.sent = line.sent BY <1>1 DEF Echoed, Lines
<1>3. ASSUME NEW payload \in Answers, NEW l \in {line, Echoed}
      PROVE  [l EXCEPT !.answer = payload] \in Lines /\ [l EXCEPT !.answer = payload].sent = line.sent
    BY <1>1, <1>2 DEF Lines
<1>4. CASE Echo BY <1>2, <1>4, ArriveSent DEF Echo
<1>5. CASE Answer
    <2>1. PICK payload \in Answers, bits \in Damages :
              Arrive(Flipped(append_crc(payload), bits), 0, [line EXCEPT !.answer = payload])
        BY <1>5 DEF Answer
    <2>. QED BY <1>3, <2>1, ArriveSent
<1>6. CASE Joined
    <2>1. PICK payload \in Answers :
              Arrive(request \o append_crc(payload), 0, [Echoed EXCEPT !.answer = payload])
        BY <1>6 DEF Joined
    <2>. QED BY <1>3, <2>1, ArriveSent
<1>7. CASE Stray BY <1>1, <1>7, ArriveSent DEF Stray
<1>8. CASE Disturb BY <1>8 DEF Disturb
<1>. QED BY <1>4, <1>5, <1>6, <1>7, <1>8 DEF Happen

\* Only the step that sends changes what was sent.
LEMMA OnlySendRequest ==
    ASSUME PktInv, [Next]_pktuartVars, line'.sent # line.sent
    PROVE  SendRequest
<1>1. line \in Lines BY DEF PktInv, Typed
<1>2. ~BeginCapture /\ ~PacketLost BY <1>1 DEF BeginCapture, PacketLost, Lines
<1>3. ~Happen BY HappenSent
<1>4. line' # line OBVIOUS
<1>5. ~(AwaitTrigger \/ Settle \/ ListenOnly \/ Collect \/ NoFrames \/ QueueSizes \/ SizesRead
        \/ Complete \/ QueueData \/ PrintFrame \/ Finished)
    BY <1>4 DEF AwaitTrigger, Settle, ListenOnly, Collect, NoFrames, QueueSizes, SizesRead,
                Complete, QueueData, PrintFrame, Finished
<1>6. ~(BoardRead \/ Prepare \/ RaiseTrigger \/ MoveTrigger \/ Inspect \/ Decode \/ UNCHANGED pktuartVars)
    BY <1>4 DEF BoardRead, Prepare, RaiseTrigger, MoveTrigger, Inspect, Decode, pktuartVars
<1>. QED BY <1>2, <1>3, <1>5, <1>6 DEF Next, Function

\* Whatever the driver reports, what is lost, and how often the trigger moves: one request
\* at most goes out, the read of the output frequency, and never from the passive script.
THEOREM SpecOnlyTheRequest == Spec => OnlyTheRequest
<1>1. PktInv /\ [Next]_pktuartVars =>
        (line'.sent # line.sent =>
           /\ line.sent = <<>> /\ script.mode = "readonly"
           /\ line'.sent = <<read_registers_request(FUNCTION_READ_INPUT_REGISTERS, 0, 1, 1)>>)
    <2>. SUFFICES ASSUME PktInv, [Next]_pktuartVars, line'.sent # line.sent
                  PROVE  /\ line.sent = <<>> /\ script.mode = "readonly"
                         /\ line'.sent = <<request>>
        BY RequestAssumption
    <2>1. SendRequest BY OnlySendRequest
    <2>2. Settled /\ pins.send_request /\ script.at = "sleeping"
        BY <2>1 DEF SendRequest, Run, Finish
    <2>3. line.sent = <<>> /\ script.mode = "readonly" BY <2>2, SettledFacts DEF PktInv, Requested
    <2>4. line' \in {line, [line EXCEPT !.sent = Append(line.sent, request)]}
        BY <2>1 DEF SendRequest
    <2>5. line \in Lines BY DEF PktInv, Typed
    <2>6. line'.sent = Append(line.sent, request) BY <2>4, <2>5 DEF Lines
    <2>. QED BY <2>3, <2>6
<1>. QED BY <1>1, SpecPktInv, PTL DEF Spec, OnlyTheRequest

\* The sleep that is long enough: for the periods until the trigger is seen, the five in
\* which the receiver settles, the wait, and two for every frame the buffer has room for.
SleepSuffices == SleepCycles >= Latency + 8 + WAIT_AFTER_SEND_CYCLES + 2 * MAX_CAPTURE_FRAMES

\* A capture that is not over keeps the script asleep.
LEMMA OverInTime ==
    ASSUME SleepSuffices, PktInv, Inspect
    PROVE  diag.stage = 7
<1>1. SUFFICES ASSUME diag.stage # 7 PROVE FALSE OBVIOUS
<1>2. ~board.fresh /\ script.waited = SleepCycles BY DEF Inspect
<1>3. Pace \in Nat /\ script.waited <= Pace BY <1>1, <1>2, PaceType DEF PktInv, Paced
<1>4. /\ diag.stage \in {0, 1, 2, 3, 4, 5} /\ diag.cycles \in Nat /\ diag.current_frame \in Nat
      /\ diag.current_frame <= MAX_CAPTURE_FRAMES
    BY <1>1, SizesAssumption DEF PktInv, Typed, Diagnostics
<1>5. /\ diag.stage = 1 => diag.cycles < 5
      /\ diag.stage = 2 => diag.cycles < WAIT_AFTER_SEND_CYCLES
      /\ diag.stage = 5 => diag.current_frame < MAX_CAPTURE_FRAMES
    BY DEF PktInv, Staged
<1>6. Pace < SleepCycles BY <1>1, <1>4, <1>5, SizesAssumption DEF Pace, SleepSuffices
<1>. QED BY <1>2, <1>3, <1>6, SizesAssumption

\* When the sleep is long enough, the script reads the pins of a capture that is over,
\* with packets lost, the driver failing, or the trigger moved after it.
THEOREM SpecReportInTime == SleepSuffices => (Spec => []ReportInTime)
<1>. SUFFICES ASSUME SleepSuffices PROVE Spec => []ReportInTime OBVIOUS
<1>1. Init => ReportInTime
    <2>1. Init => script.at # "inspected" BY DEF Init
    <2>. QED BY <2>1 DEF ReportInTime
<1>2. PktInv /\ ReportInTime /\ [Next]_pktuartVars => ReportInTime'
    <2>. SUFFICES ASSUME PktInv, ReportInTime, [Next]_pktuartVars PROVE ReportInTime' OBVIOUS
    <2>1. script \in Scripts BY DEF PktInv, Typed
    <2>2. CASE script' = script BY <2>2 DEF ReportInTime
    <2>3. CASE Inspect
        <3>1. diag.stage = 7 BY <2>3, OverInTime
        <3>2. pins.done /\ pins.result # 0 BY <3>1 DEF PktInv, Paced
        <3>3. script' = [script EXCEPT !.at = "inspected", !.done = pins.done, !.result = pins.result]
            BY <2>3 DEF Inspect
        <3>4. script'.done = pins.done /\ script'.result = pins.result BY <2>1, <3>3 DEF Scripts
        <3>. QED BY <3>2, <3>4 DEF ReportInTime
    <2>4. CASE Passing \/ RaiseTrigger
        <3>1. script.at = "sleeping" /\ script'.at = script.at
            BY <2>1, <2>4 DEF Passing, RaiseTrigger, Scripts
        <3>. QED BY <3>1 DEF ReportInTime
    <2>5. CASE Prepare \/ Decode
        <3>1. script'.at \in {"sleeping", "ended"} BY <2>1, <2>5 DEF Prepare, Decode, Scripts
        <3>. QED BY <3>1 DEF ReportInTime
    <2>6. script' = script \/ Inspect \/ Passing \/ RaiseTrigger \/ Prepare \/ Decode
        <3>1. CASE Function
            BY <3>1 DEF Function, AwaitTrigger, BeginCapture, Settle, ListenOnly, SendRequest,
                        Collect, NoFrames, QueueSizes, SizesRead, Complete, QueueData, PrintFrame,
                        Finished, Finish, Run
        <3>2. CASE Happen
            BY <3>2 DEF Happen, Echo, Answer, Joined, Stray, Disturb, Arrive
        <3>3. CASE BoardRead \/ PacketLost BY <3>3 DEF BoardRead, PacketLost
        <3>4. CASE MoveTrigger \/ UNCHANGED pktuartVars BY <3>4 DEF MoveTrigger, pktuartVars
        <3>. QED BY <3>1, <3>2, <3>3, <3>4 DEF Next
    <2>. QED BY <2>2, <2>3, <2>4, <2>5, <2>6
<1>. QED BY <1>1, <1>2, SpecPktInv, PTL DEF Spec

-----------------------------------------------------------------------------
(* The frames on their way from the line to the log *)

\* The capture so far has lost no packet, and no frame is longer than the buffer.
Whole ==
    /\ line.lost = 0
    /\ \A i \in DOMAIN line.received : Len(line.received[i]) <= MAX_CAPTURE_BYTES

\* The frames whose size has left the frame FIFO, and those whose bytes have left the other.
Listed == Len(line.received) - Len(board.sizes)
Passed == Len(log) + IF diag.stage = 5 /\ board.fresh THEN 1 ELSE 0

Says(word, frame) == word # 0 /\ word % 1024 = Len(frame)

\* The frame FIFO holds the sizes of the last frames, in order.
SizesInOrder ==
    /\ Listed >= 0
    /\ \A i \in 1 .. Len(board.sizes) : Says(board.sizes[i], line.received[Listed + i])

\* bytes are those of the frames after the first skip, each from a word on; end says where
\* each frame ends.
Placed(end, skip, bytes, frames) ==
    /\ end \in [skip .. Len(frames) -> Nat]
    /\ end[skip] = 0 /\ end[Len(frames)] = Len(bytes)
    /\ \A i, j \in skip .. Len(frames) : i <= j => end[i] <= end[j]
    /\ \A i \in skip .. Len(frames) - 1 :
         /\ end[i + 1] = end[i] + InWords(Len(frames[i + 1]))
         /\ \A j \in 1 .. Len(frames[i + 1]) : bytes[end[i] + j] = frames[i + 1][j]

BytesInOrder ==
    /\ Passed <= Len(line.received)
    /\ \E end : Placed(end, Passed, board.bytes, line.received)

\* What has been logged is what was received first.
LoggedInOrder ==
    /\ Len(log) <= Len(line.received)
    /\ \A i \in 1 .. Len(log) : log[i] = line.received[i]

\* The list of sizes read is that of all the frames counted, at least, and ends with zeros.
SizesListed ==
    /\ 1 <= pins.frame_count /\ pins.frame_count <= Listed /\ Listed <= MAX_CAPTURE_FRAMES
    /\ \A i \in 1 .. MAX_CAPTURE_FRAMES :
         IF i <= Listed THEN Says(diag.sizes[i], line.received[i]) ELSE diag.sizes[i] = 0

\* Nothing is read before the sizes are asked for, and the status is that of the period.
Waiting ==
    /\ Listed = 0 /\ board.queued = "nothing"
    /\ board.fresh => board.sampled = RxStatus

Listing ==
    IF board.fresh THEN SizesListed /\ board.queued = "nothing"
    ELSE /\ board.queued = "sizes" /\ Listed = 0
         /\ 1 <= pins.frame_count /\ pins.frame_count <= Len(board.sizes)

Looking == SizesListed /\ board.queued = "nothing" /\ Len(log) <= Listed

\* The bytes asked for are those of the next frame.
Fetching ==
    /\ SizesListed /\ Len(log) < Listed
    /\ diag.pending_bytes = Len(line.received[Len(log) + 1])
    /\ IF board.fresh
       THEN /\ board.queued = "nothing" /\ Len(diag.rx_words) >= diag.pending_bytes
            /\ \A j \in 1 .. diag.pending_bytes :
                 diag.rx_words[j] = line.received[Len(log) + 1][j]
       ELSE board.queued = "data"

InOrder ==
    /\ SizesInOrder /\ BytesInOrder
    /\ diag.stage \in {1, 2} => Waiting
    /\ diag.stage = 3 => Listing
    /\ diag.stage = 4 => Looking
    /\ diag.stage = 5 => Fetching

CaptureInv ==
    /\ diag.stage = 0 => board.queued = "nothing"
    /\ Whole => LoggedInOrder /\ (diag.stage \notin {0, 7} => InOrder)

\* What fills up the last word of a frame comes after its bytes.
LEMMA FilledUpAt ==
    ASSUME NEW frame \in Seq(Byte)
    PROVE  /\ Len(FilledUp(frame)) = InWords(Len(frame)) /\ InWords(Len(frame)) \in Nat
           /\ Len(frame) <= InWords(Len(frame))
           /\ \A j \in 1 .. Len(frame) : FilledUp(frame)[j] = frame[j]
<1>. DEFINE longer == frame \o <<0, 0, 0>>
<1>1. /\ longer \in Seq(Byte) /\ Len(longer) = Len(frame) + 3
      /\ \A j \in 1 .. Len(frame) : longer[j] = frame[j]
    BY DEF Byte
<1>2. /\ InWords(Len(frame)) \in Nat /\ InWords(Len(frame)) <= Len(longer)
      /\ Len(frame) <= InWords(Len(frame))
    BY <1>1, InWordsMonotone
<1>. HIDE DEF longer
<1>3. /\ Len(SubSeq(longer, 1, InWords(Len(frame)))) = InWords(Len(frame))
      /\ \A j \in 1 .. InWords(Len(frame)) : SubSeq(longer, 1, InWords(Len(frame)))[j] = longer[j]
    BY <1>1, <1>2
<1>4. FilledUp(frame) = SubSeq(longer, 1, InWords(Len(frame))) BY DEF FilledUp, longer
<1>. QED BY <1>1, <1>2, <1>3, <1>4

\* The types of what the frames pass through.
LEMMA WayType ==
    ASSUME Typed
    PROVE  /\ board.sizes \in Seq(Nat) /\ board.bytes \in Seq(Byte)
           /\ line.received \in Seq(Seq(Byte)) /\ log \in Seq(Seq(Byte))
           /\ line.lost \in Nat /\ board.fresh \in BOOLEAN
           /\ Len(board.sizes) <= MAX_CAPTURE_FRAMES /\ diag.stage \in {0, 1, 2, 3, 4, 5, 7}
           /\ pins.frame_count \in Nat
BY SizesAssumption DEF Typed, Boards, Lines, Logs, Diagnostics, PinValues

\* Bytes that stay where they are are where they were.
LEMMA PlacesKept ==
    ASSUME line'.received = line.received, board'.bytes = board.bytes, Passed' = Passed
    PROVE  BytesInOrder => BytesInOrder'
BY DEF BytesInOrder

\* A step that takes no frame and adds none leaves the frames in order.
LEMMA OrderKept ==
    ASSUME line'.received = line.received, board'.sizes = board.sizes,
           board'.bytes = board.bytes, Passed' = Passed
    PROVE  /\ Listed' = Listed
           /\ (SizesInOrder => SizesInOrder') /\ (BytesInOrder => BytesInOrder')
<1>1. Listed' = Listed BY DEF Listed
<1>2. SizesInOrder => SizesInOrder' BY <1>1 DEF SizesInOrder, Says
<1>. QED BY <1>1, <1>2, PlacesKept

\* What was logged was received, as long as both stay.
LEMMA LoggedKept ==
    ASSUME line'.received = line.received, log' = log
    PROVE  LoggedInOrder => LoggedInOrder'
BY DEF LoggedInOrder

\* A capture that was not whole does not become so.
LEMMA WholeBefore ==
    ASSUME line'.received = line.received, line'.lost = line.lost, Whole'
    PROVE  Whole
BY DEF Whole

\* A capture that ends.
LEMMA CaptureEnded ==
    ASSUME CaptureInv, diag'.stage = 7, line'.received = line.received, line'.lost = line.lost,
           log' = log
    PROVE  CaptureInv'
<1>1. Whole' => LoggedInOrder' BY WholeBefore, LoggedKept DEF CaptureInv
<1>. QED BY <1>1 DEF CaptureInv

\* A capture that goes on while its frames stay where they are.
LEMMA CaptureGoesOn ==
    ASSUME CaptureInv, line'.received = line.received, line'.lost = line.lost, log' = log,
           board'.sizes = board.sizes, board'.bytes = board.bytes, Passed' = Passed,
           diag.stage \notin {0, 7}, diag'.stage # 0,
           Whole /\ LoggedInOrder /\ InOrder =>
              /\ diag'.stage \in {1, 2} => Waiting'
              /\ diag'.stage = 3 => Listing'
              /\ diag'.stage = 4 => Looking'
              /\ diag'.stage = 5 => Fetching'
    PROVE  CaptureInv'
<1>1. SUFFICES ASSUME Whole' PROVE LoggedInOrder' /\ (diag'.stage \notin {0, 7} => InOrder')
    BY DEF CaptureInv
<1>2. Whole /\ LoggedInOrder /\ InOrder BY <1>1, WholeBefore DEF CaptureInv
<1>3. LoggedInOrder' BY <1>2, LoggedKept
<1>4. SizesInOrder' /\ BytesInOrder' BY <1>2, OrderKept DEF InOrder
<1>. QED BY <1>2, <1>3, <1>4 DEF InOrder

\* A period that leaves the card as it is, but for the status.
LEMMA SpentWay ==
    ASSUME Typed, Spent
    PROVE  /\ board'.sizes = board.sizes /\ board'.bytes = board.bytes
           /\ board'.queued = board.queued /\ ~board'.fresh
<1>1. board \in Boards BY DEF Typed
<1>2. board' = [board EXCEPT !.fresh = FALSE] BY DEF Spent
<1>. QED BY <1>1, <1>2 DEF Boards

\* A read is queued.
LEMMA QueuedWay ==
    ASSUME Typed, NEW read \in {"sizes", "data"},
           board' = [board EXCEPT !.fresh = FALSE, !.queued = read]
    PROVE  /\ board'.sizes = board.sizes /\ board'.bytes = board.bytes
           /\ board'.queued = read /\ ~board'.fresh
<1>1. board \in Boards BY DEF Typed
<1>. QED BY <1>1 DEF Boards

\* A wait that goes on.
LEMMA WaitGoesOn ==
    ASSUME PktInv, CaptureInv, Spent, diag.stage \in {1, 2}, diag'.stage \in {1, 2},
           log' = log, line'.received = line.received, line'.lost = line.lost
    PROVE  CaptureInv'
<1>1. Typed /\ log = <<>> BY DEF PktInv, Staged
<1>2. /\ board'.sizes = board.sizes /\ board'.bytes = board.bytes
      /\ board'.queued = board.queued /\ ~board'.fresh
    BY <1>1, SpentWay
<1>3. Passed' = Passed BY DEF Passed
<1>4. InOrder => Waiting' BY <1>2 DEF InOrder, Waiting, Listed
<1>. QED BY <1>2, <1>3, <1>4, CaptureGoesOn

\* A capture the driver ends, and one the component ends.
LEMMA FinishStage ==
    ASSUME NEW d, NEW p, NEW result, "stage" \in DOMAIN d, Finish(d, p, result)
    PROVE  diag'.stage = 7
<1>1. diag' = [d EXCEPT !.stage = 7] BY DEF Finish, Run
<1>. QED BY <1>1

\* The trigger is waited for.
LEMMA AwaitTriggerWay == ASSUME PktInv, CaptureInv, AwaitTrigger PROVE CaptureInv'
<1>1. Typed BY DEF PktInv
<1>2. /\ diag.stage = 0 /\ diag' = now /\ Spent /\ log' = log /\ line' = line
    BY DEF AwaitTrigger, Run
<1>3. diag'.stage = 0 BY <1>1, <1>2, NowFields
<1>4. board'.queued = board.queued BY <1>1, <1>2, SpentWay
<1>5. Whole' => LoggedInOrder' BY <1>2, WholeBefore, LoggedKept DEF CaptureInv
<1>. QED BY <1>2, <1>3, <1>4, <1>5 DEF CaptureInv

\* The receiver is emptied, and nothing has been received since.
LEMMA BeginCaptureWay == ASSUME PktInv, CaptureInv, BeginCapture PROVE CaptureInv'
<1>. DEFINE d == [stage |-> 1, cycles |-> 0, current_frame |-> 0, pending_bytes |-> 0,
                  trigger_seen |-> TRUE, sizes |-> NoSizes, rx_words |-> <<>>]
<1>. DEFINE p == [pins EXCEPT !.done = FALSE, !.result = 0, !.frame_count = 0]
<1>1. board \in Boards /\ line \in Lines BY DEF PktInv, Typed
<1>2. /\ diag.stage = 0 /\ log' = log
      /\ Run(d, p) \/ \E retval \in Failures : Finish(d, p, retval)
      /\ board' = [board EXCEPT !.fresh = FALSE, !.sizes = <<>>, !.bytes = <<>>, !.errors = {}]
      /\ line' = [line EXCEPT !.received = <<>>]
    BY DEF BeginCapture
<1>3. log' = <<>> BY <1>2 DEF PktInv, Staged
<1>4. board.queued = "nothing" BY <1>2 DEF CaptureInv
<1>5. /\ board'.sizes = <<>> /\ board'.bytes = <<>> /\ board'.queued = "nothing" /\ ~board'.fresh
      /\ line'.received = <<>>
    BY <1>1, <1>2, <1>4 DEF Boards, Lines
<1>6. diag'.stage \in {1, 7}
    <2>1. d.stage = 1 /\ "stage" \in DOMAIN d OBVIOUS
    <2>. HIDE DEF d, p
    <2>. QED BY <1>2, <2>1, FinishStage DEF Run
<1>. HIDE DEF d, p
<1>7. LoggedInOrder' BY <1>3, <1>5 DEF LoggedInOrder
<1>8. ASSUME diag'.stage = 1 PROVE InOrder'
    <2>1. Listed' = 0 BY <1>5 DEF Listed
    <2>2. Passed' = 0 BY <1>3, <1>8 DEF Passed
    <2>3. SizesInOrder' BY <1>5, <2>1 DEF SizesInOrder
    <2>4. BytesInOrder'
        <3>. DEFINE end == [k \in 0 .. 0 |-> 0]
        <3>1. end \in [0 .. 0 -> Nat] /\ end[0] = 0 OBVIOUS
        <3>. HIDE DEF end
        <3>2. Placed(end, 0, <<>>, <<>>) BY <3>1 DEF Placed
        <3>. QED BY <1>5, <2>2, <3>2 DEF BytesInOrder
    <2>5. Waiting' BY <1>5, <2>1 DEF Waiting
    <2>. QED BY <1>8, <2>3, <2>4, <2>5 DEF InOrder
<1>. QED BY <1>6, <1>7, <1>8 DEF CaptureInv

\* The receiver settles.
LEMMA SettleWay == ASSUME PktInv, CaptureInv, Settle PROVE CaptureInv'
<1>1. /\ diag.stage = 1 /\ diag' = Counted /\ Spent /\ log' = log /\ line' = line
    BY DEF Settle, Run
<1>2. Typed /\ diag.cycles < 5 BY <1>1 DEF PktInv, Staged
<1>3. diag'.stage = 1 BY <1>1, <1>2, CountedFields
<1>. QED BY <1>1, <1>3, WaitGoesOn

\* Nothing is sent.
LEMMA ListenOnlyWay == ASSUME PktInv, CaptureInv, ListenOnly PROVE CaptureInv'
<1>. DEFINE d == [now EXCEPT !.cycles = 0, !.stage = 2]
<1>1. Typed BY DEF PktInv
<1>2. Settled /\ diag' = d /\ Spent /\ log' = log /\ line' = line BY DEF ListenOnly, Run
<1>3. d.stage = 2 BY <1>1, WaitFields
<1>. HIDE DEF d
<1>4. diag.stage = 1 BY <1>2 DEF Settled
<1>. QED BY <1>2, <1>3, <1>4, WaitGoesOn

\* What is sent is not received yet.
LEMMA SendRequestWay == ASSUME PktInv, CaptureInv, SendRequest PROVE CaptureInv'
<1>. DEFINE d == [now EXCEPT !.cycles = 0, !.stage = 2]
<1>1. Typed /\ line \in Lines BY DEF PktInv, Typed
<1>2. Settled /\ Spent /\ log' = log BY DEF SendRequest
<1>3. \/ diag' = d
      \/ \E retval \in Failures : Finish(Counted, pins, retval)
    BY DEF SendRequest, Run
<1>4. line' \in {line, [line EXCEPT !.sent = Append(line.sent, request)]} BY DEF SendRequest
<1>5. line'.received = line.received /\ line'.lost = line.lost BY <1>1, <1>4 DEF Lines
<1>6. d.stage = 2 BY <1>1, WaitFields
<1>. HIDE DEF d
<1>7. CASE diag' = d
    <2>1. diag.stage = 1 BY <1>2 DEF Settled
    <2>. QED BY <1>2, <1>5, <1>6, <1>7, <2>1, WaitGoesOn
<1>8. CASE \E retval \in Failures : Finish(Counted, pins, retval)
    <2>1. PICK retval \in Failures : Finish(Counted, pins, retval) BY <1>8
    <2>2. "stage" \in DOMAIN Counted
        <3>1. Counted \in Diagnostics BY <1>2, SettledFacts
        <3>. QED BY <3>1 DEF Diagnostics
    <2>3. diag'.stage = 7 BY <2>1, <2>2, FinishStage
    <2>. QED BY <1>2, <1>5, <2>3, CaptureEnded
<1>. QED BY <1>3, <1>7, <1>8

\* The answer is waited for.
LEMMA CollectWay == ASSUME PktInv, CaptureInv, Collect PROVE CaptureInv'
<1>1. /\ diag.stage = 2 /\ diag' = Counted /\ Spent /\ log' = log /\ line' = line
    BY DEF Collect, Run
<1>2. Typed /\ diag.cycles < WAIT_AFTER_SEND_CYCLES BY <1>1 DEF PktInv, Staged
<1>3. diag'.stage = 2 BY <1>1, <1>2, CountedFields
<1>. QED BY <1>1, <1>3, WaitGoesOn

\* Nothing was received.
LEMMA NoFramesWay == ASSUME PktInv, CaptureInv, NoFrames PROVE CaptureInv'
<1>. DEFINE p == [pins EXCEPT !.frame_count = 0]
<1>. DEFINE result == IF board.sampled.errors \cap ReceiverErrors # {} THEN -2 ELSE 1
<1>1. Collected /\ Finish(Counted, p, result) /\ log' = log /\ line' = line BY DEF NoFrames
<1>2. Counted \in Diagnostics BY <1>1, CollectedFacts
<1>3. "stage" \in DOMAIN Counted BY <1>2 DEF Diagnostics
<1>. HIDE DEF p, result
<1>4. diag'.stage = 7 BY <1>1, <1>3, FinishStage
<1>. QED BY <1>1, <1>4, CaptureEnded

\* The sizes of the frames counted are asked for; all of them are still there.
LEMMA QueueSizesWay == ASSUME PktInv, CaptureInv, QueueSizes PROVE CaptureInv'
<1>. DEFINE d == [Counted EXCEPT !.sizes = NoSizes]
<1>. DEFINE next == [d EXCEPT !.stage = 3]
<1>. DEFINE p == [pins EXCEPT !.frame_count = board.sampled.frames]
<1>1. Typed /\ pins \in PinValues BY DEF PktInv, Typed
<1>2. Collected /\ board.sampled.frames > 0 /\ log' = log /\ line' = line BY DEF QueueSizes
<1>3. \/ Run(next, p) /\ board' = [board EXCEPT !.fresh = FALSE, !.queued = "sizes"]
      \/ (\E retval \in Failures : Finish(d, p, retval)) /\ Spent
    BY DEF QueueSizes
<1>4. Counted \in Diagnostics BY <1>2, CollectedFacts
<1>5. "stage" \in DOMAIN d /\ next.stage = 3 BY <1>4 DEF Diagnostics
<1>6. p.frame_count = board.sampled.frames BY <1>1 DEF PinValues
<1>. HIDE DEF d, next, p
<1>7. CASE Run(next, p) /\ board' = [board EXCEPT !.fresh = FALSE, !.queued = "sizes"]
    <2>1. diag.stage = 2 /\ log = <<>> BY <1>2, CollectedFacts
    <2>2. /\ board.fresh /\ diag' = next
          /\ pins' = [p EXCEPT !.rx_status = board.sampled, !.state = diag.stage]
        BY <1>7 DEF Run
    <2>3. pins'.frame_count = board.sampled.frames BY <1>1, <1>6, <2>2 DEF PinValues, p
    <2>4. /\ board'.sizes = board.sizes /\ board'.bytes = board.bytes
          /\ board'.queued = "sizes" /\ ~board'.fresh
        BY <1>1, <1>7, QueuedWay
    <2>5. diag'.stage = 3 BY <1>5, <2>2
    <2>6. Passed' = Passed BY <1>2, <2>1, <2>5 DEF Passed
    <2>7. InOrder => Listing'
        <3>1. SUFFICES ASSUME Waiting PROVE Listing' BY <2>1 DEF InOrder
        <3>2. board.sampled.frames = Len(board.sizes) /\ Listed = 0
            BY <2>2, <3>1 DEF Waiting, RxStatus
        <3>3. Listed' = 0 BY <1>2, <2>4, <3>2 DEF Listed
        <3>4. board.sizes \in Seq(Nat) BY <1>1, WayType
        <3>. QED BY <1>2, <2>3, <2>4, <3>2, <3>3, <3>4 DEF Listing
    <2>. QED BY <1>2, <2>1, <2>4, <2>5, <2>6, <2>7, CaptureGoesOn
<1>8. CASE \E retval \in Failures : Finish(d, p, retval)
    <2>1. PICK retval \in Failures : Finish(d, p, retval) BY <1>8
    <2>2. diag'.stage = 7 BY <1>5, <2>1, FinishStage
    <2>. QED BY <1>2, <2>2, CaptureEnded
<1>. QED BY <1>3, <1>7, <1>8

\* How many sizes have been read is a number, and the others are still there.
LEMMA ListedType ==
    ASSUME Typed, SizesInOrder
    PROVE  /\ Listed \in Nat /\ Listed <= Len(line.received)
           /\ Listed + Len(board.sizes) = Len(line.received)
<1>. DEFINE all == Len(line.received)
<1>. DEFINE left == Len(board.sizes)
<1>1. all \in Nat /\ left \in Nat BY WayType
<1>2. Listed >= 0 BY DEF SizesInOrder
<1>3. Listed = all - left BY DEF Listed
<1>. HIDE DEF all, left
<1>4. Listed \in Nat /\ Listed <= all /\ Listed + left = all BY <1>1, <1>2, <1>3
<1>. QED BY <1>4 DEF all, left

\* The list of sizes stays while the frames do.
LEMMA ListKept ==
    ASSUME SizesListed, Listed' = Listed, diag'.sizes = diag.sizes,
           pins'.frame_count = pins.frame_count,
           \A i \in 1 .. Listed : line'.received[i] = line.received[i]
    PROVE  SizesListed'
BY DEF SizesListed, Says

\* The sizes are there.
LEMMA SizesReadWay == ASSUME PktInv, CaptureInv, SizesRead PROVE CaptureInv'
<1>. DEFINE d == [now EXCEPT !.current_frame = 0, !.stage = 4]
<1>1. Typed /\ pins \in PinValues BY DEF PktInv, Typed
<1>2. diag.stage = 3 /\ Run(d, pins) /\ Spent /\ log' = log /\ line' = line BY DEF SizesRead
<1>3. now \in Diagnostics /\ now.sizes = diag.sizes BY <1>1, NowFields
<1>4. d.stage = 4 /\ d.sizes = diag.sizes BY <1>3 DEF Diagnostics
<1>. HIDE DEF d
<1>5. /\ board.fresh /\ diag' = d
      /\ pins' = [pins EXCEPT !.rx_status = board.sampled, !.state = diag.stage]
    BY <1>2 DEF Run
<1>6. pins'.frame_count = pins.frame_count BY <1>1, <1>5 DEF PinValues
<1>7. log = <<>> BY <1>2 DEF PktInv, Staged
<1>8. /\ board'.sizes = board.sizes /\ board'.bytes = board.bytes
      /\ board'.queued = board.queued /\ ~board'.fresh
    BY <1>1, <1>2, SpentWay
<1>9. Passed' = Passed BY <1>2, <1>4, <1>5 DEF Passed
<1>10. ASSUME SizesInOrder, Listing PROVE Looking'
    <2>1. SizesListed /\ board.queued = "nothing" BY <1>5, <1>10 DEF Listing
    <2>2. Listed' = Listed BY <1>2, <1>8 DEF Listed
    <2>3. SizesListed' BY <1>2, <1>4, <1>5, <1>6, <2>1, <2>2, ListKept
    <2>4. Len(log') <= Listed' BY <1>2, <1>7, <1>10, <2>2 DEF SizesInOrder
    <2>. QED BY <1>8, <2>1, <2>3, <2>4 DEF Looking
<1>11. diag'.stage = 4 BY <1>4, <1>5
<1>. QED BY <1>2, <1>8, <1>9, <1>10, <1>11, CaptureGoesOn DEF InOrder

\* Every frame has been printed.
LEMMA CompleteWay == ASSUME PktInv, CaptureInv, Complete PROVE CaptureInv'
<1>1. Typed /\ Finish(now, pins, 1) /\ log' = log /\ line' = line BY DEF PktInv, Complete
<1>2. "stage" \in DOMAIN now BY <1>1, NowFields DEF Diagnostics
<1>3. diag'.stage = 7 BY <1>1, <1>2, FinishStage
<1>. QED BY <1>1, <1>3, CaptureEnded

\* The length in the size word of a frame that fits into the buffer is its length.
LEMMA CountRead ==
    ASSUME PktInv, Whole, SizesInOrder, SizesListed, diag.stage = 4, ~AllRead
    PROVE  Len(log) < Listed /\ Count = Len(line.received[Len(log) + 1])
<1>1. Typed BY DEF PktInv
<1>2. /\ line.received \in Seq(Seq(Byte)) /\ board.sizes \in Seq(Nat) /\ log \in Seq(Seq(Byte))
    BY <1>1, WayType
<1>3. /\ Len(log) = diag.current_frame /\ diag.current_frame < MAX_CAPTURE_FRAMES /\ Size # 0
    BY DEF PktInv, Staged, AllRead
<1>4. Len(log) + 1 \in 1 .. MAX_CAPTURE_FRAMES BY <1>2, <1>3, SizesAssumption
<1>5. Len(line.received) \in Nat /\ Len(board.sizes) \in Nat BY <1>2
<1>6. Listed \in Nat /\ Listed <= Len(line.received) BY <1>1, ListedType
<1>7. Size = diag.sizes[Len(log) + 1] BY <1>3 DEF Size
<1>8. Len(log) + 1 <= Listed BY <1>3, <1>4, <1>7 DEF SizesListed
<1>9. Size % 1024 = Len(line.received[Len(log) + 1])
    BY <1>4, <1>7, <1>8 DEF SizesListed, Says
<1>10. Len(log) + 1 \in DOMAIN line.received BY <1>2, <1>4, <1>5, <1>6, <1>8
<1>11. Len(line.received[Len(log) + 1]) <= MAX_CAPTURE_BYTES BY <1>10 DEF Whole
<1>12. Len(line.received[Len(log) + 1]) \in Nat BY <1>2, <1>10
<1>. HIDE DEF Size
<1>13. Count = Len(line.received[Len(log) + 1])
    BY <1>9, <1>11, <1>12, SizesAssumption DEF Count
<1>14. Len(log) < Listed BY <1>2, <1>6, <1>8
<1>. QED BY <1>13, <1>14

\* The bytes of the next frame are asked for.
LEMMA QueueDataWay == ASSUME PktInv, CaptureInv, QueueData PROVE CaptureInv'
<1>. DEFINE d == [now EXCEPT !.pending_bytes = Count, !.rx_words = <<>>]
<1>. DEFINE next == [d EXCEPT !.stage = 5]
<1>1. Typed /\ pins \in PinValues BY DEF PktInv, Typed
<1>2. diag.stage = 4 /\ ~AllRead /\ log' = log /\ line' = line BY DEF QueueData
<1>3. \/ Run(next, pins) /\ board' = [board EXCEPT !.fresh = FALSE, !.queued = "data"]
      \/ (\E retval \in Failures : Finish(d, pins, retval)) /\ Spent
    BY DEF QueueData
<1>4. now \in Diagnostics /\ now.sizes = diag.sizes BY <1>1, NowFields
<1>. HIDE DEF Count
<1>5. /\ "stage" \in DOMAIN d /\ next.stage = 5 /\ next.pending_bytes = Count
      /\ next.sizes = diag.sizes
    BY <1>4 DEF Diagnostics
<1>. HIDE DEF d, next
<1>6. CASE Run(next, pins) /\ board' = [board EXCEPT !.fresh = FALSE, !.queued = "data"]
    <2>1. /\ diag' = next
          /\ pins' = [pins EXCEPT !.rx_status = board.sampled, !.state = diag.stage]
        BY <1>6 DEF Run
    <2>2. pins'.frame_count = pins.frame_count BY <1>1, <2>1 DEF PinValues
    <2>3. /\ board'.sizes = board.sizes /\ board'.bytes = board.bytes
          /\ board'.queued = "data" /\ ~board'.fresh
        BY <1>1, <1>6, QueuedWay
    <2>4. Passed' = Passed BY <1>2, <2>3 DEF Passed
    <2>5. ASSUME Whole, SizesInOrder, Looking PROVE Fetching'
        <3>1. SizesListed BY <2>5 DEF Looking
        <3>2. Len(log) < Listed /\ Count = Len(line.received[Len(log) + 1])
            BY <1>2, <2>5, <3>1, CountRead
        <3>3. Listed' = Listed BY <1>2, <2>3 DEF Listed
        <3>4. SizesListed' BY <1>2, <1>5, <2>1, <2>2, <3>1, <3>3, ListKept
        <3>. QED BY <1>2, <1>5, <2>1, <2>3, <3>2, <3>3, <3>4 DEF Fetching
    <2>6. diag'.stage = 5 BY <1>5, <2>1
    <2>. QED BY <1>2, <2>3, <2>4, <2>5, <2>6, CaptureGoesOn DEF InOrder
<1>7. CASE \E retval \in Failures : Finish(d, pins, retval)
    <2>1. PICK retval \in Failures : Finish(d, pins, retval) BY <1>7
    <2>2. diag'.stage = 7 BY <1>5, <2>1, FinishStage
    <2>. QED BY <1>2, <2>2, CaptureEnded
<1>. QED BY <1>3, <1>6, <1>7

\* What is printed of a frame whose bytes were read is the frame.
LEMMA Printed ==
    ASSUME NEW words \in Seq(Byte), NEW frame \in Seq(Byte), Len(words) >= Len(frame),
           \A j \in 1 .. Len(frame) : words[j] = frame[j]
    PROVE  SubSeq(words \o Zeros(Len(frame)), 1, Len(frame)) = frame
<1>1. Zeros(Len(frame)) \in Seq(Byte) /\ Len(Zeros(Len(frame))) = Len(frame) BY DEF Zeros, Byte
<1>. DEFINE longer == words \o Zeros(Len(frame))
<1>2. /\ longer \in Seq(Byte) /\ Len(longer) = Len(words) + Len(frame)
      /\ \A j \in 1 .. Len(words) : longer[j] = words[j]
    BY <1>1
<1>. HIDE DEF longer
<1>3. \A j \in 1 .. Len(frame) : longer[j] = frame[j] BY <1>2
<1>4. /\ Len(SubSeq(longer, 1, Len(frame))) = Len(frame)
      /\ SubSeq(longer, 1, Len(frame)) \in Seq(Byte)
      /\ \A j \in 1 .. Len(frame) : SubSeq(longer, 1, Len(frame))[j] = frame[j]
    BY <1>2, <1>3
<1>5. SubSeq(longer, 1, Len(frame)) = frame BY <1>4
<1>. QED BY <1>5 DEF longer

\* The next frame is printed.
LEMMA PrintFrameWay == ASSUME PktInv, CaptureInv, PrintFrame PROVE CaptureInv'
<1>. DEFINE d == [now EXCEPT !.current_frame = @ + 1, !.stage = 4]
<1>. DEFINE frame == SubSeq(diag.rx_words \o Zeros(diag.pending_bytes), 1, diag.pending_bytes)
<1>1. Typed /\ pins \in PinValues /\ diag.rx_words \in Seq(Byte) BY DEF PktInv, Typed, Diagnostics
<1>2. /\ diag.stage = 5 /\ Run(d, pins) /\ Spent /\ log' = Append(log, frame) /\ line' = line
    BY DEF PrintFrame
<1>. HIDE DEF frame
<1>3. now \in Diagnostics /\ now.sizes = diag.sizes BY <1>1, NowFields
<1>4. d.stage = 4 /\ d.sizes = diag.sizes BY <1>3 DEF Diagnostics
<1>. HIDE DEF d
<1>5. /\ board.fresh /\ diag' = d
      /\ pins' = [pins EXCEPT !.rx_status = board.sampled, !.state = diag.stage]
    BY <1>2 DEF Run
<1>6. pins'.frame_count = pins.frame_count BY <1>1, <1>5 DEF PinValues
<1>7. /\ board'.sizes = board.sizes /\ board'.bytes = board.bytes
      /\ board'.queued = board.queued /\ ~board'.fresh
    BY <1>1, <1>2, SpentWay
<1>8. line.received \in Seq(Seq(Byte)) /\ log \in Seq(Seq(Byte)) /\ board.sizes \in Seq(Nat)
    BY <1>1, WayType
<1>9. Len(log') = Len(log) + 1 /\ log'[Len(log) + 1] = frame
      /\ \A i \in 1 .. Len(log) : log'[i] = log[i]
    BY <1>2, <1>8
<1>10. SUFFICES ASSUME Whole' PROVE LoggedInOrder' /\ InOrder'
    BY <1>4, <1>5 DEF CaptureInv
<1>11. Whole /\ LoggedInOrder /\ SizesInOrder /\ BytesInOrder /\ Fetching
    BY <1>2, <1>10, WholeBefore DEF CaptureInv, InOrder
<1>12. /\ SizesListed /\ Len(log) < Listed /\ board.queued = "nothing"
       /\ diag.pending_bytes = Len(line.received[Len(log) + 1])
       /\ Len(diag.rx_words) >= diag.pending_bytes
       /\ \A j \in 1 .. diag.pending_bytes : diag.rx_words[j] = line.received[Len(log) + 1][j]
    BY <1>5, <1>11 DEF Fetching
<1>13. Listed <= Len(line.received) /\ Listed \in Nat /\ Len(log) \in Nat
    BY <1>1, <1>8, <1>11, ListedType
<1>14. Len(log) + 1 <= Listed BY <1>12, <1>13
<1>15. Len(log) + 1 \in DOMAIN line.received BY <1>8, <1>13, <1>14
<1>16. line.received[Len(log) + 1] \in Seq(Byte) BY <1>8, <1>15
<1>17. frame = line.received[Len(log) + 1] BY <1>1, <1>12, <1>16, Printed DEF frame
<1>18. LoggedInOrder'
    <2>1. Len(log') <= Len(line'.received) BY <1>2, <1>8, <1>9, <1>13, <1>14
    <2>2. \A i \in 1 .. Len(log') : log'[i] = line'.received[i]
        BY <1>2, <1>8, <1>9, <1>11, <1>17 DEF LoggedInOrder
    <2>. QED BY <2>1, <2>2 DEF LoggedInOrder
<1>19. diag'.stage = 4 BY <1>4, <1>5
<1>20. Passed' = Passed BY <1>2, <1>5, <1>9, <1>13, <1>19 DEF Passed
<1>21. Listed' = Listed /\ SizesInOrder' /\ BytesInOrder' BY <1>2, <1>7, <1>11, <1>20, OrderKept
<1>22. SizesListed' BY <1>2, <1>4, <1>5, <1>6, <1>12, <1>21, ListKept
<1>23. Looking' BY <1>7, <1>9, <1>12, <1>14, <1>21, <1>22 DEF Looking
<1>. QED BY <1>18, <1>19, <1>21, <1>23 DEF InOrder

\* The capture is over.
LEMMA FinishedWay == ASSUME PktInv, CaptureInv, Finished PROVE CaptureInv'
<1>1. Typed /\ diag.stage = 7 /\ diag' = now /\ log' = log /\ line' = line
    BY DEF PktInv, Finished, Run
<1>2. diag'.stage = 7 BY <1>1, NowFields
<1>. QED BY <1>1, <1>2, CaptureEnded

\* The sizes read leave the frame FIFO.
LEMMA SizesTaken ==
    ASSUME Typed, SizesInOrder, Listed = 0, NEW n \in Nat, 1 <= n, n <= Len(board.sizes),
           pins'.frame_count = pins.frame_count, 1 <= pins.frame_count, pins.frame_count <= n,
           board'.sizes = SubSeq(board.sizes, n + 1, Len(board.sizes)),
           diag'.sizes = [i \in 1 .. MAX_CAPTURE_FRAMES |-> IF i <= n THEN board.sizes[i] ELSE 0],
           line'.received = line.received
    PROVE  SizesInOrder' /\ SizesListed'
<1>1. /\ board.sizes \in Seq(Nat) /\ Len(board.sizes) <= MAX_CAPTURE_FRAMES
      /\ line.received \in Seq(Seq(Byte))
    BY WayType
<1>2. Len(board.sizes) = Len(line.received)
    <2>1. Listed + Len(board.sizes) = Len(line.received) BY ListedType
    <2>. QED BY <1>1, <2>1
<1>3. /\ Len(board'.sizes) = Len(board.sizes) - n
      /\ \A i \in 1 .. Len(board'.sizes) : board'.sizes[i] = board.sizes[n + i]
    BY <1>1
<1>4. Listed' = n BY <1>1, <1>2, <1>3 DEF Listed
<1>5. \A i \in 1 .. Len(board.sizes) : Says(board.sizes[i], line.received[i])
    <2>1. \A i \in 1 .. Len(board.sizes) : Says(board.sizes[i], line.received[0 + i])
        BY DEF SizesInOrder
    <2>. QED BY <1>1, <2>1
<1>6. SizesInOrder'
    <2>1. \A i \in 1 .. Len(board'.sizes) : Says(board'.sizes[i], line'.received[n + i])
        <3>1. SUFFICES ASSUME NEW i \in 1 .. Len(board'.sizes)
                       PROVE  Says(board'.sizes[i], line'.received[n + i])
            OBVIOUS
        <3>2. n + i \in 1 .. Len(board.sizes) BY <1>1, <1>3
        <3>. QED BY <1>3, <1>5, <3>2
    <2>. QED BY <1>4, <2>1 DEF SizesInOrder, Says
<1>7. SizesListed'
    <2>1. \A i \in 1 .. MAX_CAPTURE_FRAMES :
            IF i <= n THEN Says(diag'.sizes[i], line.received[i]) ELSE diag'.sizes[i] = 0
        BY <1>1, <1>5, SizesAssumption
    <2>2. n <= MAX_CAPTURE_FRAMES BY <1>1, SizesAssumption
    <2>. QED BY <1>4, <2>1, <2>2 DEF SizesListed, Says
<1>. QED BY <1>6, <1>7

\* What the places of frames say of one of them.
LEMMA PlaceOf ==
    ASSUME NEW frames \in Seq(Seq(Byte)), NEW bytes \in Seq(Byte), NEW skip \in Nat, NEW end,
           Placed(end, skip, bytes, frames), NEW i \in Nat, skip <= i, i < Len(frames)
    PROVE  /\ end[i] \in Nat /\ end[i + 1] \in Nat /\ end[i + 1] <= Len(bytes)
           /\ Len(frames[i + 1]) \in Nat /\ InWords(Len(frames[i + 1])) \in Nat
           /\ Len(frames[i + 1]) <= InWords(Len(frames[i + 1]))
           /\ end[i + 1] = end[i] + InWords(Len(frames[i + 1]))
           /\ \A j \in 1 .. Len(frames[i + 1]) : bytes[end[i] + j] = frames[i + 1][j]
<1>1. Len(frames) \in Nat /\ Len(bytes) \in Nat OBVIOUS
<1>2. /\ i \in skip .. Len(frames) - 1 /\ i \in skip .. Len(frames)
      /\ i + 1 \in skip .. Len(frames) /\ Len(frames) \in skip .. Len(frames)
      /\ i + 1 <= Len(frames) /\ i + 1 \in 1 .. Len(frames)
    BY <1>1
<1>3. frames[i + 1] \in Seq(Byte) BY <1>2
<1>4. end[i] \in Nat /\ end[i + 1] \in Nat BY <1>2 DEF Placed
<1>5. end[i + 1] <= Len(bytes) BY <1>2 DEF Placed
<1>6. /\ end[i + 1] = end[i] + InWords(Len(frames[i + 1]))
      /\ \A j \in 1 .. Len(frames[i + 1]) : bytes[end[i] + j] = frames[i + 1][j]
    BY <1>2 DEF Placed
<1>7. /\ InWords(Len(frames[i + 1])) \in Nat
      /\ Len(frames[i + 1]) <= InWords(Len(frames[i + 1]))
    BY <1>3, FilledUpAt
<1>. QED BY <1>3, <1>4, <1>5, <1>6, <1>7

\* The words that hold the next frame are its bytes, and they are there.
LEMMA NextFrame ==
    ASSUME NEW frames \in Seq(Seq(Byte)), NEW bytes \in Seq(Byte), NEW skip \in Nat, NEW end,
           Placed(end, skip, bytes, frames), skip < Len(frames)
    PROVE  /\ Min({InWords(Len(frames[skip + 1])), Len(bytes)}) = end[skip + 1]
           /\ end[skip + 1] \in Nat /\ Len(frames[skip + 1]) <= end[skip + 1]
           /\ end[skip + 1] <= Len(bytes)
           /\ \A j \in 1 .. Len(frames[skip + 1]) : bytes[j] = frames[skip + 1][j]
<1>1. /\ end[skip + 1] \in Nat /\ end[skip + 1] <= Len(bytes)
      /\ Len(frames[skip + 1]) \in Nat /\ InWords(Len(frames[skip + 1])) \in Nat
      /\ Len(frames[skip + 1]) <= InWords(Len(frames[skip + 1]))
      /\ end[skip + 1] = end[skip] + InWords(Len(frames[skip + 1]))
      /\ \A j \in 1 .. Len(frames[skip + 1]) : bytes[end[skip] + j] = frames[skip + 1][j]
    BY PlaceOf
<1>2. end[skip] = 0 BY DEF Placed
<1>3. end[skip + 1] = InWords(Len(frames[skip + 1])) BY <1>1, <1>2
<1>4. Len(bytes) \in Nat OBVIOUS
<1>5. Min({InWords(Len(frames[skip + 1])), Len(bytes)}) = end[skip + 1]
    BY <1>1, <1>3, <1>4, MinOfTwo
<1>6. \A j \in 1 .. Len(frames[skip + 1]) : bytes[0 + j] = frames[skip + 1][j] BY <1>1, <1>2
<1>7. \A j \in 1 .. Len(frames[skip + 1]) : 0 + j = j BY <1>1
<1>. QED BY <1>1, <1>3, <1>5, <1>6, <1>7

\* What is left of the bytes when the first n are taken.
LeftAfter(n, bytes, rest) ==
    /\ rest \in Seq(Byte) /\ Len(bytes) = n + Len(rest)
    /\ \A j \in 1 .. Len(rest) : rest[j] = bytes[n + j]

\* It is the part of them that starts after the first n.
LEMMA Remainder ==
    ASSUME NEW bytes \in Seq(Byte), NEW n \in Nat, n <= Len(bytes)
    PROVE  LeftAfter(n, bytes, SubSeq(bytes, n + 1, Len(bytes)))
<1>1. /\ SubSeq(bytes, n + 1, Len(bytes)) \in Seq(Byte)
      /\ Len(SubSeq(bytes, n + 1, Len(bytes))) = Len(bytes) - n
      /\ \A j \in 1 .. Len(bytes) - n :
           SubSeq(bytes, n + 1, Len(bytes))[j] = bytes[n + j]
    OBVIOUS
<1>2. Len(bytes) = n + (Len(bytes) - n) OBVIOUS
<1>. QED BY <1>1, <1>2 DEF LeftAfter

\* When they are taken, the other frames move up.
LEMMA MovedUp ==
    ASSUME NEW frames \in Seq(Seq(Byte)), NEW bytes \in Seq(Byte), NEW skip \in Nat, NEW end,
           Placed(end, skip, bytes, frames), skip < Len(frames),
           NEW rest, LeftAfter(end[skip + 1], bytes, rest)
    PROVE  \E moved : Placed(moved, skip + 1, rest, frames)
<1>1. PICK count \in Nat : count = end[skip + 1] /\ count <= Len(bytes) BY PlaceOf
<1>2. PICK all \in Nat : all = Len(frames) OBVIOUS
<1>. DEFINE moved == [k \in skip + 1 .. all |-> end[k] - count]
<1>12. ASSUME NEW i \in Nat, skip <= i, i < all
       PROVE  /\ end[i] \in Nat /\ end[i + 1] \in Nat /\ end[i + 1] <= Len(bytes)
              /\ Len(frames[i + 1]) \in Nat /\ InWords(Len(frames[i + 1])) \in Nat
              /\ Len(frames[i + 1]) <= InWords(Len(frames[i + 1]))
              /\ end[i + 1] = end[i] + InWords(Len(frames[i + 1]))
              /\ \A j \in 1 .. Len(frames[i + 1]) : bytes[end[i] + j] = frames[i + 1][j]
    <2>1. i < Len(frames) BY <1>2, <1>12
    <2>. QED BY <1>12, <2>1, PlaceOf
<1>3. PICK left \in Nat :
          /\ left = Len(rest) /\ Len(bytes) = count + left
          /\ \A j \in 1 .. left : rest[j] = bytes[count + j]
    BY <1>1 DEF LeftAfter
<1>4. ASSUME NEW k \in skip + 1 .. all PROVE end[k] \in Nat /\ count <= end[k]
    <2>1. k \in skip .. all /\ skip + 1 \in skip .. all /\ skip + 1 <= k BY <1>2
    <2>. QED BY <1>1, <1>2, <2>1 DEF Placed
<1>5. \A i, j \in skip + 1 .. all : i <= j => end[i] <= end[j]
    <2>1. \A i \in skip + 1 .. all : i \in skip .. all BY <1>2
    <2>. QED BY <1>2, <2>1 DEF Placed
<1>6. end[all] = Len(bytes) BY <1>2 DEF Placed
<1>7. moved \in [skip + 1 .. all -> Nat] /\ \A k \in skip + 1 .. all : moved[k] = end[k] - count
    BY <1>1, <1>4
<1>. HIDE DEF moved
<1>8. skip + 1 \in skip + 1 .. all /\ all \in skip + 1 .. all /\ skip < all
    BY <1>2
<1>9. moved[skip + 1] = 0 /\ moved[all] = Len(rest)
    <2>1. end[all] = count + left BY <1>3, <1>6
    <2>. QED BY <1>1, <1>3, <1>7, <1>8, <2>1
<1>10. ASSUME NEW i \in skip + 1 .. all, NEW j \in skip + 1 .. all, i <= j
       PROVE  moved[i] <= moved[j]
    <2>1. end[i] \in Nat /\ end[j] \in Nat /\ end[i] <= end[j] BY <1>4, <1>5, <1>10
    <2>2. moved[i] = end[i] - count /\ moved[j] = end[j] - count BY <1>7
    <2>. QED BY <1>1, <2>1, <2>2
<1>11. ASSUME NEW i \in skip + 1 .. all - 1
       PROVE  /\ moved[i + 1] = moved[i] + InWords(Len(frames[i + 1]))
              /\ \A j \in 1 .. Len(frames[i + 1]) : rest[moved[i] + j] = frames[i + 1][j]
    <2>1. /\ i \in Nat /\ skip <= i /\ i < all
          /\ i \in skip + 1 .. all /\ i + 1 \in skip + 1 .. all
        BY <1>2
    <2>2. PICK a \in Nat, b \in Nat :
              /\ a = end[i] /\ b = end[i + 1] /\ b <= Len(bytes)
              /\ b = a + InWords(Len(frames[i + 1]))
              /\ \A j \in 1 .. Len(frames[i + 1]) : bytes[a + j] = frames[i + 1][j]
        BY <1>12, <2>1
    <2>3. PICK words \in Nat, length \in Nat :
              /\ words = InWords(Len(frames[i + 1])) /\ length = Len(frames[i + 1])
              /\ length <= words
        BY <1>12, <2>1
    <2>4. /\ b = a + words /\ b <= count + left /\ length <= words
          /\ \A j \in 1 .. length : bytes[a + j] = frames[i + 1][j]
        BY <1>3, <2>2, <2>3
    <2>5. count <= a /\ moved[i] = a - count /\ moved[i + 1] = b - count
        BY <1>4, <1>7, <2>1, <2>2
    <2>6. moved[i + 1] = moved[i] + words BY <1>1, <2>5, <2>4
    <2>7. ASSUME NEW j \in 1 .. length PROVE rest[moved[i] + j] = frames[i + 1][j]
        <3>1. (a - count) + j \in 1 .. left /\ count + ((a - count) + j) = a + j
            <4>1. length <= words /\ b = a + words /\ b <= count + left /\ count <= a
                BY <2>5, <2>4
            <4>. QED BY <4>1
        <3>2. rest[(a - count) + j] = bytes[a + j] BY <1>3, <3>1
        <3>. QED BY <2>5, <2>4, <3>2
    <2>. QED BY <2>6, <2>7, <2>3
<1>13. Placed(moved, skip + 1, rest, frames) BY <1>2, <1>7, <1>9, <1>10, <1>11 DEF Placed
<1>. QED BY <1>13

\* One sequence of bytes after another, position by position.
LEMMA ConcatAt ==
    ASSUME NEW first \in Seq(Byte), NEW second \in Seq(Byte)
    PROVE  /\ first \o second \in Seq(Byte) /\ Len(first \o second) = Len(first) + Len(second)
           /\ \A j \in 1 .. Len(first) : (first \o second)[j] = first[j]
           /\ \A j \in 1 .. Len(second) : (first \o second)[Len(first) + j] = second[j]
OBVIOUS

\* A frame more, its bytes after those of the others.
LEMMA PlacedAfter ==
    ASSUME NEW frames \in Seq(Seq(Byte)), NEW bytes \in Seq(Byte), NEW skip \in Nat, NEW end,
           Placed(end, skip, bytes, frames), skip <= Len(frames), NEW frame \in Seq(Byte)
    PROVE  \E more : Placed(more, skip, bytes \o FilledUp(frame), Append(frames, frame))
<1>1. PICK all \in Nat : all = Len(frames) OBVIOUS
<1>2. PICK taken \in Nat : taken = Len(bytes) OBVIOUS
<1>3. PICK words \in Nat, length \in Nat :
          words = InWords(Len(frame)) /\ length = Len(frame) /\ length <= words
    BY FilledUpAt
<1>4. /\ FilledUp(frame) \in Seq(Byte) /\ Len(FilledUp(frame)) = words
      /\ \A j \in 1 .. length : FilledUp(frame)[j] = frame[j]
    BY <1>3, FilledUpAt, FilledUpType
<1>. DEFINE longer == bytes \o FilledUp(frame)
<1>5. /\ longer \in Seq(Byte) /\ Len(longer) = taken + words
      /\ \A j \in 1 .. taken : longer[j] = bytes[j]
      /\ \A j \in 1 .. words : longer[taken + j] = FilledUp(frame)[j]
    BY <1>2, <1>4, ConcatAt
<1>. DEFINE list == Append(frames, frame)
<1>6. /\ list \in Seq(Seq(Byte)) /\ Len(list) = all + 1 /\ list[all + 1] = frame
      /\ \A i \in 1 .. all : list[i] = frames[i]
    BY <1>1
<1>7. /\ end \in [skip .. all -> Nat] /\ end[skip] = 0 /\ end[all] = taken /\ skip <= all
      /\ \A i, j \in skip .. all : i <= j => end[i] <= end[j]
    BY <1>1, <1>2 DEF Placed
<1>8. ASSUME NEW i \in skip .. all - 1
      PROVE  /\ end[i + 1] = end[i] + InWords(Len(frames[i + 1]))
             /\ end[i] \in Nat /\ end[i + 1] <= taken
             /\ Len(frames[i + 1]) \in Nat /\ InWords(Len(frames[i + 1])) \in Nat
             /\ Len(frames[i + 1]) <= InWords(Len(frames[i + 1]))
             /\ \A j \in 1 .. Len(frames[i + 1]) : bytes[end[i] + j] = frames[i + 1][j]
    <2>1. i \in Nat /\ skip <= i /\ i < Len(frames) BY <1>1
    <2>. QED BY <1>2, <2>1, PlaceOf
<1>. HIDE DEF longer, list
<1>. DEFINE more == [k \in skip .. all + 1 |-> IF k <= all THEN end[k] ELSE taken + words]
<1>9. /\ more \in [skip .. all + 1 -> Nat]
      /\ \A k \in skip .. all : more[k] = end[k]
      /\ more[all + 1] = taken + words
    <2>1. \A k \in skip .. all + 1 : k <= all => k \in skip .. all OBVIOUS
    <2>2. \A k \in skip .. all : k \in skip .. all + 1 /\ k <= all OBVIOUS
    <2>3. all + 1 \in skip .. all + 1 /\ ~(all + 1 <= all) BY <1>7
    <2>. QED BY <1>7, <2>1, <2>2, <2>3
<1>. HIDE DEF more
<1>10. more[skip] = 0 BY <1>7, <1>9
<1>11. ASSUME NEW i \in skip .. all + 1, NEW j \in skip .. all + 1, i <= j
       PROVE  more[i] <= more[j]
    <2>1. CASE j <= all
        <3>1. i \in skip .. all /\ j \in skip .. all BY <1>11, <2>1
        <3>. QED BY <1>7, <1>9, <1>11, <3>1
    <2>2. CASE j = all + 1 /\ i <= all
        <3>1. i \in skip .. all /\ all \in skip .. all /\ i <= all BY <1>7, <2>2
        <3>2. end[i] \in Nat /\ end[i] <= taken BY <1>7, <3>1
        <3>. QED BY <1>9, <2>2, <3>1, <3>2
    <2>3. CASE j = all + 1 /\ i = all + 1 BY <1>9, <2>3
    <2>. QED BY <1>11, <2>1, <2>2, <2>3
<1>12. ASSUME NEW i \in skip .. all
       PROVE  /\ more[i + 1] = more[i] + InWords(Len(list[i + 1]))
              /\ \A j \in 1 .. Len(list[i + 1]) : longer[more[i] + j] = list[i + 1][j]
    <2>1. CASE i < all
        <3>1. /\ i \in skip .. all - 1 /\ i + 1 \in skip .. all /\ i + 1 \in 1 .. all
            BY <2>1
        <3>2. list[i + 1] = frames[i + 1] /\ more[i] = end[i] /\ more[i + 1] = end[i + 1]
            BY <1>6, <1>9, <3>1
        <3>3. PICK a \in Nat, size \in Nat, room \in Nat :
                  a = end[i] /\ size = Len(frames[i + 1]) /\ room = InWords(Len(frames[i + 1]))
            BY <1>8, <3>1
        <3>4. /\ size <= room /\ end[i + 1] = a + room /\ a + room <= taken
              /\ \A j \in 1 .. size : bytes[a + j] = frames[i + 1][j]
            BY <1>8, <3>1, <3>3
        <3>5. ASSUME NEW j \in 1 .. size PROVE longer[a + j] = frames[i + 1][j]
            <4>1. a + j \in 1 .. taken
                <5>1. size <= room /\ a + room <= taken BY <3>4
                <5>. QED BY <5>1
            <4>. QED BY <1>5, <3>4, <4>1
        <3>. QED BY <3>2, <3>3, <3>4, <3>5
    <2>2. CASE i = all
        <3>1. list[i + 1] = frame /\ more[i] = taken /\ more[i + 1] = taken + words
            BY <1>6, <1>7, <1>9, <2>2
        <3>2. \A j \in 1 .. length : longer[taken + j] = frame[j]
            <4>1. \A j \in 1 .. length : j \in 1 .. words BY <1>3
            <4>. QED BY <1>4, <1>5, <4>1
        <3>. QED BY <1>3, <3>1, <3>2
    <2>. QED BY <2>1, <2>2
<1>13. Placed(more, skip, longer, list)
    <2>1. skip .. Len(list) - 1 = skip .. all /\ Len(list) = all + 1 BY <1>6
    <2>. QED BY <1>5, <1>9, <1>10, <1>11, <1>12, <2>1 DEF Placed
<1>. QED BY <1>13 DEF longer, list

\* hm2 read: what leaves the card is what the diagnostic has, as it was asked for.
LEMMA BoardReadWay == ASSUME PktInv, CaptureInv, BoardRead PROVE CaptureInv'
<1>1. Typed /\ board \in Boards /\ diag \in Diagnostics BY DEF PktInv, Typed
<1>2. ~board.fresh /\ pins' = pins /\ log' = log /\ line' = line BY DEF BoardRead, Passing
<1>3. PICK after \in Performed(diag, board) :
          /\ diag' = after[1]
          /\ board' = [after[2] EXCEPT !.fresh = TRUE, !.queued = "nothing", !.sampled = RxStatus]
    BY DEF BoardRead
<1>4. after[1].stage = diag.stage /\ after[2] \in Boards BY <1>1, PerformedFields
<1>5. /\ board'.fresh /\ board'.queued = "nothing" /\ board'.sampled = RxStatus
      /\ board'.sizes = after[2].sizes /\ board'.bytes = after[2].bytes
      /\ board'.errors = after[2].errors /\ diag'.stage = diag.stage
    BY <1>3, <1>4 DEF Boards
<1>6. SUFFICES ASSUME Whole' PROVE LoggedInOrder' /\ (diag'.stage \notin {0, 7} => InOrder')
    BY <1>5 DEF CaptureInv
<1>7. Whole /\ LoggedInOrder BY <1>2, <1>6, WholeBefore DEF CaptureInv
<1>8. LoggedInOrder' BY <1>2, <1>7, LoggedKept
<1>9. SUFFICES ASSUME diag.stage \notin {0, 7} PROVE InOrder' BY <1>5, <1>8
<1>10. SizesInOrder /\ BytesInOrder /\ InOrder BY <1>7, <1>9 DEF CaptureInv, InOrder
<1>11. /\ board.sizes \in Seq(Nat) /\ board.bytes \in Seq(Byte) /\ log \in Seq(Seq(Byte))
       /\ line.received \in Seq(Seq(Byte)) /\ pins.frame_count \in Nat
    BY <1>1, WayType
<1>12. CASE board.queued = "nothing" /\ diag.stage \in {1, 2, 4}
    <2>1. after = <<diag, board>> BY <1>12 DEF Performed
    <2>2. diag' = diag /\ board'.sizes = board.sizes /\ board'.bytes = board.bytes
          /\ board'.errors = board.errors
        BY <1>3, <1>5, <2>1
    <2>3. Passed' = Passed BY <1>2, <1>12, <2>2 DEF Passed
    <2>4. Listed' = Listed /\ SizesInOrder' /\ BytesInOrder' BY <1>2, <1>10, <2>2, <2>3, OrderKept
    <2>5. diag.stage \in {1, 2} => Waiting'
        BY <1>5, <1>10, <2>2, <2>4 DEF InOrder, Waiting, RxStatus
    <2>6. diag.stage = 4 => Looking'
        <3>1. SUFFICES ASSUME Looking PROVE Looking' BY <1>10 DEF InOrder
        <3>2. SizesListed' BY <1>2, <2>2, <2>4, <3>1, ListKept DEF Looking
        <3>. QED BY <1>2, <1>5, <2>4, <3>1, <3>2 DEF Looking
    <2>. QED BY <1>5, <1>12, <2>4, <2>5, <2>6 DEF InOrder
<1>13. CASE diag.stage = 3
    <2>1. /\ board.queued = "sizes" /\ Listed = 0
          /\ 1 <= pins.frame_count /\ pins.frame_count <= Len(board.sizes)
        BY <1>2, <1>10, <1>13 DEF InOrder, Listing
    <2>. DEFINE sizes(n) == [i \in 1 .. MAX_CAPTURE_FRAMES |-> IF i <= n THEN board.sizes[i] ELSE 0]
    <2>. DEFINE rest(n) == SubSeq(board.sizes, n + 1, Len(board.sizes))
    <2>2. PICK n \in pins.frame_count .. Len(board.sizes) :
              after = <<[diag EXCEPT !.sizes = sizes(n)], [board EXCEPT !.sizes = rest(n)]>>
        BY <2>1 DEF Performed
    <2>3. n \in Nat /\ 1 <= n /\ n <= Len(board.sizes) /\ pins.frame_count <= n
        BY <1>11, <2>1, <2>2
    <2>. HIDE DEF sizes, rest
    <2>4. /\ diag' = [diag EXCEPT !.sizes = sizes(n)]
          /\ after[2] = [board EXCEPT !.sizes = rest(n)]
        BY <1>3, <2>2
    <2>5. diag'.sizes = sizes(n) BY <1>1, <2>4 DEF Diagnostics
    <2>6. board'.sizes = rest(n) /\ board'.bytes = board.bytes BY <1>1, <1>5, <2>4 DEF Boards
    <2>7. SizesInOrder' /\ SizesListed'
        BY <1>1, <1>2, <1>10, <2>1, <2>3, <2>5, <2>6, SizesTaken DEF sizes, rest
    <2>8. Passed' = Passed BY <1>2, <1>5, <1>13 DEF Passed
    <2>9. BytesInOrder' BY <1>2, <1>10, <2>6, <2>8, PlacesKept
    <2>10. Listing' BY <1>5, <2>7 DEF Listing
    <2>. QED BY <1>5, <1>13, <2>7, <2>9, <2>10 DEF InOrder
<1>14. CASE diag.stage = 5
    <2>1. /\ board.queued = "data" /\ SizesListed /\ Len(log) < Listed
          /\ diag.pending_bytes = Len(line.received[Len(log) + 1])
        BY <1>2, <1>10, <1>14 DEF InOrder, Fetching
    <2>2. Passed = Len(log) /\ Len(log) \in Nat /\ Passed \in Nat BY <1>2, <1>11 DEF Passed
    <2>3. Passed' = Passed + 1 BY <1>2, <1>5, <1>14, <2>2 DEF Passed
    <2>4. Listed \in Nat /\ Listed <= Len(line.received) BY <1>1, <1>10, ListedType
    <2>5. Len(line.received) \in Nat /\ Passed < Len(line.received) BY <1>11, <2>1, <2>2, <2>4
    <2>6. PICK end : Placed(end, Passed, board.bytes, line.received) BY <1>10 DEF BytesInOrder
    <2>. DEFINE count == Min({InWords(diag.pending_bytes), Len(board.bytes)})
    <2>. DEFINE taken(n) == SubSeq(board.bytes, 1, n)
    <2>. DEFINE rest(n) == SubSeq(board.bytes, n + 1, Len(board.bytes))
    <2>7. after = <<[diag EXCEPT !.rx_words = taken(count)], [board EXCEPT !.bytes = rest(count)]>>
        BY <2>1 DEF Performed
    <2>8. /\ count = end[Passed + 1] /\ count \in Nat /\ count <= Len(board.bytes)
          /\ diag.pending_bytes <= count
          /\ \A j \in 1 .. diag.pending_bytes : board.bytes[j] = line.received[Len(log) + 1][j]
        <3>1. /\ Min({InWords(Len(line.received[Passed + 1])), Len(board.bytes)}) = end[Passed + 1]
              /\ end[Passed + 1] \in Nat /\ Len(line.received[Passed + 1]) <= end[Passed + 1]
              /\ end[Passed + 1] <= Len(board.bytes)
              /\ \A j \in 1 .. Len(line.received[Passed + 1]) :
                   board.bytes[j] = line.received[Passed + 1][j]
            BY <1>11, <2>2, <2>5, <2>6, NextFrame
        <3>. QED BY <2>1, <2>2, <3>1
    <2>. HIDE DEF count
    <2>9. /\ taken(count) \in Seq(Byte) /\ Len(taken(count)) = count
          /\ \A j \in 1 .. count : taken(count)[j] = board.bytes[j]
        BY <1>11, <2>8
    <2>10. LeftAfter(count, board.bytes, rest(count)) BY <1>11, <2>8, Remainder
    <2>. HIDE DEF taken, rest
    <2>11. /\ diag' = [diag EXCEPT !.rx_words = taken(count)]
           /\ after[2] = [board EXCEPT !.bytes = rest(count)]
        BY <1>3, <2>7
    <2>12. /\ diag'.rx_words = taken(count) /\ diag'.sizes = diag.sizes
           /\ diag'.pending_bytes = diag.pending_bytes
        BY <1>1, <2>11 DEF Diagnostics
    <2>13. board'.bytes = rest(count) /\ board'.sizes = board.sizes
        BY <1>1, <1>5, <2>11 DEF Boards
    <2>14. Listed' = Listed BY <1>2, <2>13 DEF Listed
    <2>15. SizesInOrder' BY <1>2, <1>10, <2>13, <2>14 DEF SizesInOrder, Says
    <2>16. BytesInOrder'
        <3>1. \E moved : Placed(moved, Passed + 1, rest(count), line.received)
            BY <1>11, <2>2, <2>5, <2>6, <2>8, <2>10, MovedUp
        <3>2. Passed + 1 <= Len(line.received) BY <2>2, <2>5
        <3>. QED BY <1>2, <2>3, <2>13, <3>1, <3>2 DEF BytesInOrder
    <2>17. SizesListed' BY <1>2, <2>1, <2>12, <2>14, ListKept
    <2>18. Fetching'
        <3>1. diag.pending_bytes \in Nat BY <1>1, SizesAssumption DEF Diagnostics
        <3>2. \A j \in 1 .. diag.pending_bytes : taken(count)[j] = line.received[Len(log) + 1][j]
            <4>1. \A j \in 1 .. diag.pending_bytes : j \in 1 .. count BY <2>8, <3>1
            <4>. QED BY <2>8, <2>9, <4>1
        <3>. QED BY <1>2, <1>5, <2>1, <2>8, <2>9, <2>12, <2>14, <2>17, <3>2 DEF Fetching
    <2>. QED BY <1>5, <1>14, <2>15, <2>16, <2>18 DEF InOrder
<1>15. \/ board.queued = "nothing" /\ diag.stage \in {1, 2, 4}
       \/ diag.stage = 3 \/ diag.stage = 5
    BY <1>1, <1>9, <1>10 DEF InOrder, Waiting, Looking, Diagnostics
<1>. QED BY <1>12, <1>13, <1>14, <1>15

\* A capture that has lost a packet is not whole.
LEMMA PacketLostWay == ASSUME PktInv, CaptureInv, PacketLost PROVE CaptureInv'
<1>1. Typed /\ line \in Lines BY DEF PktInv, Typed
<1>2. PICK after \in Performed(diag, board) \cup {<<diag, board>>} :
          board' = [after[2] EXCEPT !.fresh = TRUE, !.queued = "nothing"]
    BY DEF PacketLost
<1>3. line' = [line EXCEPT !.lost = line.lost + 1] BY DEF PacketLost
<1>4. after[2] \in Boards
    <2>1. CASE after \in Performed(diag, board) BY <1>1, <2>1, PerformedFields
    <2>2. CASE after = <<diag, board>> BY <1>1, <2>2 DEF Typed
    <2>. QED BY <2>1, <2>2
<1>5. board'.queued = "nothing" BY <1>2, <1>4 DEF Boards
<1>6. line'.lost = line.lost + 1 /\ line.lost \in Nat BY <1>1, <1>3, WayType DEF Lines
<1>7. ~Whole' BY <1>6 DEF Whole
<1>. QED BY <1>5, <1>7 DEF CaptureInv

\* What reaches neither the frames nor the log, between two periods of the function.
LEMMA ErrorWay ==
    ASSUME CaptureInv, ~board.fresh, ~board'.fresh, diag' = diag, log' = log,
           pins'.frame_count = pins.frame_count,
           line'.received = line.received, line'.lost = line.lost,
           board'.sizes = board.sizes, board'.bytes = board.bytes, board'.queued = board.queued
    PROVE  CaptureInv'
<1>1. Passed' = Passed BY DEF Passed
<1>2. SUFFICES ASSUME Whole' PROVE LoggedInOrder' /\ (diag'.stage \notin {0, 7} => InOrder')
    BY DEF CaptureInv
<1>3. Whole /\ LoggedInOrder' BY <1>2, WholeBefore, LoggedKept DEF CaptureInv
<1>4. SUFFICES ASSUME diag.stage \notin {0, 7} PROVE InOrder' BY <1>3
<1>5. InOrder BY <1>3, <1>4 DEF CaptureInv
<1>6. Listed' = Listed /\ SizesInOrder' /\ BytesInOrder' BY <1>1, <1>5, OrderKept DEF InOrder
<1>7. SizesListed => SizesListed' BY <1>6, ListKept
<1>8. Waiting => Waiting' BY <1>6 DEF Waiting
<1>9. Listing => Listing' BY <1>6 DEF Listing
<1>10. Looking => Looking' BY <1>6, <1>7 DEF Looking
<1>11. Fetching => Fetching' BY <1>6, <1>7 DEF Fetching
<1>. QED BY <1>5, <1>6, <1>8, <1>9, <1>10, <1>11 DEF InOrder

\* A size word whose error flags leave the length alone.
LEMMA WordSays ==
    ASSUME NEW length \in Nat, length < 1024, NEW flags \in Nat, flags % 1024 = 0,
           length + flags # 0
    PROVE  length + flags # 0 /\ (length + flags) % 1024 = length
OBVIOUS

\* A frame that arrives is the last one, its size and its bytes the last of the FIFOs; one
\* that finds them full leaves them as they are.
LEMMA ArriveWay ==
    ASSUME PktInv, CaptureInv, NEW frame \in Seq(Byte), NEW flags \in Nat, flags % 1024 = 0,
           Len(frame) + flags # 0, NEW l \in Lines, l.received = line.received,
           l.lost = line.lost, Arrive(frame, flags, l)
    PROVE  CaptureInv'
<1>1. Typed /\ board \in Boards /\ line \in Lines BY DEF PktInv, Typed
<1>2. /\ ~board.fresh /\ diag.stage \notin {0, 7}
      /\ diag' = diag /\ pins' = pins /\ log' = log
    BY DEF Arrive, Listening
<1>3. /\ board.sizes \in Seq(Nat) /\ board.bytes \in Seq(Byte) /\ log \in Seq(Seq(Byte))
      /\ line.received \in Seq(Seq(Byte))
    BY <1>1, WayType
<1>4. CASE ~(Len(board.sizes) < MAX_CAPTURE_FRAMES)
    <2>1. board' = [board EXCEPT !.errors = board.errors \cup {"rcfifo"}] BY <1>4 DEF Arrive
    <2>2. line' = [l EXCEPT !.arrivals = l.arrivals + 1] BY <1>4 DEF Arrive
    <2>3. /\ board'.sizes = board.sizes /\ board'.bytes = board.bytes
          /\ board'.queued = board.queued /\ board'.fresh = board.fresh
        BY <1>1, <2>1 DEF Boards
    <2>4. line'.received = line.received /\ line'.lost = line.lost BY <2>2 DEF Lines
    <2>. QED BY <1>2, <2>3, <2>4, ErrorWay
<1>5. CASE Len(board.sizes) < MAX_CAPTURE_FRAMES
    <2>. DEFINE sizes == Append(board.sizes, Len(frame) + flags)
    <2>. DEFINE bytes == board.bytes \o FilledUp(frame)
    <2>. DEFINE received == Append(line.received, frame)
    <2>1. board' = [board EXCEPT !.sizes = sizes, !.bytes = bytes] BY <1>5 DEF Arrive
    <2>2. line' = [l EXCEPT !.arrivals = l.arrivals + 1, !.received = received]
        BY <1>5 DEF Arrive
    <2>3. PICK word \in Nat : word = Len(frame) + flags OBVIOUS
    <2>4. /\ Len(sizes) = Len(board.sizes) + 1 /\ sizes[Len(board.sizes) + 1] = word
          /\ \A i \in 1 .. Len(board.sizes) : sizes[i] = board.sizes[i]
          /\ Len(board.sizes) \in Nat
        BY <1>3, <2>3
    <2>5. /\ Len(received) = Len(line.received) + 1 /\ received[Len(line.received) + 1] = frame
          /\ \A i \in 1 .. Len(line.received) : received[i] = line.received[i]
          /\ received \in Seq(Seq(Byte)) /\ Len(line.received) \in Nat
        BY <1>3
    <2>. HIDE DEF sizes, bytes, received
    <2>6. /\ board'.sizes = sizes /\ board'.bytes = bytes
          /\ board'.queued = board.queued /\ board'.fresh = board.fresh
        BY <1>1, <2>1 DEF Boards
    <2>7. line'.received = received /\ line'.lost = line.lost BY <2>2 DEF Lines
    <2>8. SUFFICES ASSUME Whole' PROVE LoggedInOrder' /\ (diag'.stage \notin {0, 7} => InOrder')
        BY <1>2 DEF CaptureInv
    <2>9. Whole /\ Len(frame) <= MAX_CAPTURE_BYTES
        <3>1. line.lost = 0 /\ \A i \in DOMAIN received : Len(received[i]) <= MAX_CAPTURE_BYTES
            BY <2>7, <2>8 DEF Whole
        <3>2. ASSUME NEW i \in DOMAIN line.received
              PROVE  i \in DOMAIN received /\ received[i] = line.received[i]
            <4>1. /\ DOMAIN line.received = 1 .. Len(line.received)
                  /\ DOMAIN received = 1 .. Len(received)
                BY <1>3, <2>5
            <4>2. PICK all \in Nat : all = Len(line.received) BY <2>5
            <4>3. i \in 1 .. all BY <4>1, <4>2
            <4>4. Len(received) = all + 1 BY <2>5, <4>2
            <4>5. i \in 1 .. all + 1 BY <4>3
            <4>. QED BY <2>5, <4>1, <4>2, <4>3, <4>4, <4>5
        <3>3. Len(line.received) + 1 \in DOMAIN received BY <2>5
        <3>. QED BY <2>5, <3>1, <3>2, <3>3 DEF Whole
    <2>10. LoggedInOrder /\ SizesInOrder /\ BytesInOrder /\ InOrder
        BY <1>2, <2>9 DEF CaptureInv, InOrder
    <2>11. Len(log) \in Nat /\ Len(log) <= Len(line.received)
           /\ \A i \in 1 .. Len(log) : log[i] = line.received[i]
        BY <1>3, <2>10 DEF LoggedInOrder
    <2>12. LoggedInOrder'
        <3>1. \A i \in 1 .. Len(log) : i \in 1 .. Len(line.received) BY <2>5, <2>11
        <3>2. Len(log) <= Len(received) BY <2>5, <2>11
        <3>. QED BY <1>2, <2>5, <2>7, <2>11, <3>1, <3>2 DEF LoggedInOrder
    <2>13. /\ Listed \in Nat /\ Listed <= Len(line.received)
           /\ Listed + Len(board.sizes) = Len(line.received)
        BY <1>1, <2>10, ListedType
    <2>14. Listed' = Listed
        <3>1. PICK all \in Nat : all = Len(line.received) BY <2>5
        <3>2. PICK left \in Nat : left = Len(board.sizes) BY <2>4
        <3>3. Listed = all - left /\ Listed' = Len(received) - Len(sizes)
            BY <2>6, <2>7, <3>1, <3>2 DEF Listed
        <3>4. Len(received) = all + 1 /\ Len(sizes) = left + 1 BY <2>4, <2>5, <3>1, <3>2
        <3>. QED BY <3>3, <3>4
    <2>15. \A i \in 1 .. Listed : received[i] = line.received[i] BY <2>5, <2>13
    <2>16. SizesInOrder'
        <3>1. word # 0 /\ word % 1024 = Len(frame)
            <4>1. Len(frame) \in Nat /\ Len(frame) < 1024 BY <2>9, SizesAssumption
            <4>. QED BY <2>3, <4>1, WordSays
        <3>2. ASSUME NEW i \in 1 .. Len(sizes)
              PROVE  Says(sizes[i], received[Listed + i])
            <4>1. CASE i \in 1 .. Len(board.sizes)
                <5>1. Listed + i \in 1 .. Len(line.received) BY <2>4, <2>13, <4>1
                <5>2. Says(board.sizes[i], line.received[Listed + i]) BY <2>10, <4>1 DEF SizesInOrder
                <5>3. sizes[i] = board.sizes[i] BY <2>4, <4>1
                <5>4. received[Listed + i] = line.received[Listed + i] BY <2>5, <5>1
                <5>. QED BY <5>2, <5>3, <5>4 DEF Says
            <4>2. CASE i = Len(board.sizes) + 1
                <5>1. Listed + i = Len(line.received) + 1
                    <6>1. PICK left \in Nat : left = Len(board.sizes) BY <2>4
                    <6>2. PICK all \in Nat : all = Len(line.received) BY <2>5
                    <6>3. PICK out \in Nat : out = Listed BY <2>13
                    <6>4. out + left = all /\ i = left + 1 BY <2>13, <4>2, <6>1, <6>2, <6>3
                    <6>5. out + i = all + 1 BY <6>4
                    <6>. QED BY <6>2, <6>3, <6>5
                <5>2. sizes[i] = word /\ received[Listed + i] = frame BY <2>4, <2>5, <4>2, <5>1
                <5>. QED BY <3>1, <5>2 DEF Says
            <4>. QED BY <2>4, <4>1, <4>2
        <3>. QED BY <2>6, <2>7, <2>13, <2>14, <3>2 DEF SizesInOrder, Says
    <2>17. Passed' = Passed BY <1>2, <2>6 DEF Passed
    <2>18. BytesInOrder'
        <3>1. Passed \in Nat /\ Passed <= Len(line.received)
            BY <1>2, <2>10, <2>11 DEF BytesInOrder, Passed
        <3>2. PICK end : Placed(end, Passed, board.bytes, line.received)
            BY <2>10 DEF BytesInOrder
        <3>3. \E more : Placed(more, Passed, bytes, received)
            BY <1>3, <3>1, <3>2, PlacedAfter DEF bytes, received
        <3>4. Passed <= Len(received) BY <2>5, <3>1
        <3>. QED BY <2>6, <2>7, <2>17, <3>3, <3>4 DEF BytesInOrder
    <2>19. SizesListed => SizesListed' BY <1>2, <2>7, <2>14, <2>15, ListKept
    <2>20. diag.stage \in {1, 2} => Waiting'
        BY <1>2, <2>6, <2>10, <2>14 DEF InOrder, Waiting
    <2>21. diag.stage = 3 => Listing'
        <3>1. SUFFICES ASSUME Listing PROVE Listing' BY <2>10 DEF InOrder
        <3>2. /\ board.queued = "sizes" /\ Listed = 0
              /\ 1 <= pins.frame_count /\ pins.frame_count <= Len(board.sizes)
            BY <1>2, <3>1 DEF Listing
        <3>3. pins.frame_count <= Len(sizes)
            <4>1. pins.frame_count \in Nat BY <1>1, WayType
            <4>. QED BY <2>4, <3>2, <4>1
        <3>. QED BY <1>2, <2>6, <2>14, <3>2, <3>3 DEF Listing
    <2>22. diag.stage = 4 => Looking'
        BY <1>2, <2>6, <2>10, <2>14, <2>19 DEF InOrder, Looking
    <2>23. diag.stage = 5 => Fetching'
        <3>1. SUFFICES ASSUME diag.stage = 5, Fetching PROVE Fetching' BY <2>10 DEF InOrder
        <3>2. /\ SizesListed /\ Len(log) < Listed /\ board.queued = "data"
              /\ diag.pending_bytes = Len(line.received[Len(log) + 1])
            BY <1>2, <3>1 DEF Fetching
        <3>3. received[Len(log) + 1] = line.received[Len(log) + 1]
            <4>1. Len(log) + 1 \in 1 .. Listed BY <2>11, <2>13, <3>2
            <4>. QED BY <2>15, <4>1
        <3>. QED BY <1>2, <2>6, <2>7, <2>14, <2>19, <3>2, <3>3 DEF Fetching
    <2>. QED BY <1>2, <2>12, <2>16, <2>18, <2>20, <2>21, <2>22, <2>23 DEF InOrder
<1>. QED BY <1>4, <1>5

\* An answer is a frame that has bytes, and so is a damaged one.
LEMMA AnswerBytes ==
    ASSUME NEW payload \in Answers, NEW bits
    PROVE  /\ append_crc(payload) \in Seq(Byte) /\ Len(append_crc(payload)) # 0
           /\ Flipped(append_crc(payload), bits) \in Seq(Byte)
           /\ Len(Flipped(append_crc(payload), bits)) # 0
<1>. DEFINE crc == crc16_modbus(payload)
<1>1. payload \in Seq(Byte) BY FramesAssumption
<1>2. ByteAt(crc, 0) \in Byte /\ ByteAt(crc, 8) \in Byte BY ByteAtType
<1>3. append_crc(payload) = payload \o <<ByteAt(crc, 0), ByteAt(crc, 8)>> BY DEF append_crc
<1>. HIDE DEF crc
<1>4. append_crc(payload) \in Seq(Byte) /\ Len(append_crc(payload)) = Len(payload) + 2
    BY <1>1, <1>2, <1>3
<1>5. Flipped(append_crc(payload), bits) \in Seq(Byte) BY <1>4, FlippedType
<1>6. DOMAIN Flipped(append_crc(payload), bits) = DOMAIN append_crc(payload) BY DEF Flipped
<1>7. Len(Flipped(append_crc(payload), bits)) = Len(append_crc(payload))
    BY <1>4, <1>5, <1>6
<1>8. Len(payload) \in Nat BY <1>1
<1>. QED BY <1>4, <1>5, <1>7, <1>8

\* Two frames in one.
LEMMA JoinedBytes ==
    ASSUME NEW s \in Seq(Byte), NEW t \in Seq(Byte)
    PROVE  s \o t \in Seq(Byte) /\ Len(s \o t) = Len(s) + Len(t)
OBVIOUS

\* Whatever happens on the line keeps the frames in order.
LEMMA HappenWay == ASSUME PktInv, CaptureInv, Happen PROVE CaptureInv'
<1>1. line \in Lines /\ board \in Boards BY DEF PktInv, Typed
<1>2. /\ Echoed \in Lines /\ Echoed.received = line.received /\ Echoed.lost = line.lost
    BY <1>1 DEF Echoed, Lines
<1>3. ASSUME NEW payload \in Answers, NEW l \in {line, Echoed}
      PROVE  /\ [l EXCEPT !.answer = payload] \in Lines
             /\ [l EXCEPT !.answer = payload].received = line.received
             /\ [l EXCEPT !.answer = payload].lost = line.lost
    BY <1>1, <1>2 DEF Lines
<1>4. 0 \in Nat /\ 0 % 1024 = 0 OBVIOUS
<1>5. CASE Echo
    <2>1. Arrive(request, 0, Echoed) BY <1>5 DEF Echo
    <2>2. Len(request) + 0 # 0 BY RequestType
    <2>. QED BY <1>2, <1>4, <2>1, <2>2, RequestType, ArriveWay
<1>6. CASE Answer
    <2>1. PICK payload \in Answers, bits \in Damages :
              Arrive(Flipped(append_crc(payload), bits), 0, [line EXCEPT !.answer = payload])
        BY <1>6 DEF Answer
    <2>. DEFINE frame == Flipped(append_crc(payload), bits)
    <2>2. frame \in Seq(Byte) /\ Len(frame) # 0 BY AnswerBytes
    <2>. HIDE DEF frame
    <2>3. Len(frame) + 0 # 0 BY <2>2
    <2>. DEFINE l == [line EXCEPT !.answer = payload]
    <2>4. l \in Lines /\ l.received = line.received /\ l.lost = line.lost BY <1>3
    <2>5. Arrive(frame, 0, l) BY <2>1 DEF frame
    <2>. HIDE DEF l
    <2>. QED BY <1>4, <2>2, <2>3, <2>4, <2>5, ArriveWay
<1>7. CASE Joined
    <2>1. PICK payload \in Answers :
              Arrive(request \o append_crc(payload), 0, [Echoed EXCEPT !.answer = payload])
        BY <1>7 DEF Joined
    <2>. DEFINE answer == append_crc(payload)
    <2>2. answer \in Seq(Byte) BY AnswerBytes
    <2>. HIDE DEF answer
    <2>3. PICK echo \in Seq(Byte) : echo = request /\ Len(echo) = 8 BY RequestType
    <2>4. echo \o answer \in Seq(Byte) /\ Len(echo \o answer) = 8 + Len(answer)
        BY <2>2, <2>3, JoinedBytes
    <2>5. Len(echo \o answer) + 0 # 0 BY <2>2, <2>4
    <2>. DEFINE l == [Echoed EXCEPT !.answer = payload]
    <2>6. l \in Lines /\ l.received = line.received /\ l.lost = line.lost BY <1>3
    <2>7. Arrive(echo \o answer, 0, l) BY <2>1, <2>3 DEF answer
    <2>. DEFINE both == echo \o answer
    <2>8. both \in Seq(Byte) /\ Len(both) + 0 # 0 /\ Arrive(both, 0, l) BY <2>4, <2>5, <2>7
    <2>. HIDE DEF l, both
    <2>. QED BY <1>4, <2>6, <2>8, ArriveWay
<1>8. CASE Stray
    <2>1. PICK stray \in Strays : Arrive(stray.frame, stray.flags, line) BY <1>8 DEF Stray
    <2>2. /\ stray.frame \in Seq(Byte) /\ stray.flags \in Nat /\ stray.flags % 1024 = 0
          /\ Len(stray.frame) + stray.flags # 0
        BY FramesAssumption
    <2>. QED BY <1>1, <2>1, <2>2, ArriveWay
<1>9. CASE Disturb
    <2>1. /\ board' \in {[board EXCEPT !.errors = {e}] : e \in {"startbit", "overrun"}}
          /\ ~board.fresh /\ diag' = diag /\ pins' = pins /\ log' = log /\ line' = line
        BY <1>9 DEF Disturb, Listening
    <2>2. PICK e \in {"startbit", "overrun"} : board' = [board EXCEPT !.errors = {e}] BY <2>1
    <2>3. /\ board'.fresh = board.fresh /\ board'.sizes = board.sizes
          /\ board'.bytes = board.bytes /\ board'.queued = board.queued
        BY <1>1, <2>2 DEF Boards
    <2>. QED BY <2>1, <2>3, ErrorWay
<1>. QED BY <1>5, <1>6, <1>7, <1>8, <1>9 DEF Happen

\* The script reaches neither the card nor the component.
LEMMA CaptureAlone ==
    ASSUME CaptureInv, diag' = diag, log' = log, board' = board, line' = line,
           pins'.frame_count = pins.frame_count
    PROVE  CaptureInv'
<1>1. Passed' = Passed BY DEF Passed
<1>2. SUFFICES ASSUME Whole' PROVE LoggedInOrder' /\ (diag'.stage \notin {0, 7} => InOrder')
    BY DEF CaptureInv
<1>3. Whole /\ LoggedInOrder' BY <1>2, WholeBefore, LoggedKept DEF CaptureInv
<1>4. SUFFICES ASSUME diag.stage \notin {0, 7} PROVE InOrder' BY <1>3
<1>5. InOrder BY <1>3, <1>4 DEF CaptureInv
<1>6. Listed' = Listed /\ SizesInOrder' /\ BytesInOrder' BY <1>1, <1>5, OrderKept DEF InOrder
<1>7. SizesListed => SizesListed' BY <1>6, ListKept
<1>8. Waiting => Waiting' BY <1>6 DEF Waiting, RxStatus
<1>9. Listing => Listing' BY <1>6, <1>7 DEF Listing
<1>10. Looking => Looking' BY <1>6, <1>7 DEF Looking
<1>11. Fetching => Fetching' BY <1>6, <1>7 DEF Fetching
<1>. QED BY <1>5, <1>6, <1>8, <1>9, <1>10, <1>11 DEF InOrder

\* Nor does anybody else who moves pins.
LEMMA ScriptWay ==
    ASSUME PktInv, CaptureInv,
           Prepare \/ RaiseTrigger \/ MoveTrigger \/ Inspect \/ Decode \/ UNCHANGED pktuartVars
    PROVE  CaptureInv'
<1>1. pins \in PinValues BY DEF PktInv, Typed
<1>2. diag' = diag /\ log' = log /\ board' = board /\ line' = line
    BY DEF Prepare, RaiseTrigger, MoveTrigger, Inspect, Decode, pktuartVars
<1>3. pins'.frame_count = pins.frame_count
    <2>1. CASE Prepare
        <3>1. PICK set \in BOOLEAN, healthy \in BOOLEAN :
                  pins' = [pins EXCEPT !.send_request =
                               IF set THEN script.mode = "readonly" ELSE pins.send_request]
            BY <2>1 DEF Prepare
        <3>. QED BY <1>1, <3>1 DEF PinValues
    <2>2. CASE RaiseTrigger BY <1>1, <2>2 DEF RaiseTrigger, PinValues
    <2>3. CASE MoveTrigger BY <1>1, <2>3 DEF MoveTrigger, PinValues
    <2>4. CASE Inspect \/ Decode \/ UNCHANGED pktuartVars
        BY <2>4 DEF Inspect, Decode, pktuartVars
    <2>. QED BY <2>1, <2>2, <2>3, <2>4
<1>. QED BY <1>2, <1>3, CaptureAlone

\* Every stage of the component keeps them so.
LEMMA FunctionWay == ASSUME PktInv, CaptureInv, Function PROVE CaptureInv'
BY AwaitTriggerWay, BeginCaptureWay, SettleWay, ListenOnlyWay, SendRequestWay, CollectWay,
   NoFramesWay, QueueSizesWay, SizesReadWay, CompleteWay, QueueDataWay, PrintFrameWay,
   FinishedWay
   DEF Function

\* No step breaks the order.
LEMMA CaptureNext == ASSUME PktInv, CaptureInv, [Next]_pktuartVars PROVE CaptureInv'
BY FunctionWay, BoardReadWay, PacketLostWay, HappenWay, ScriptWay DEF Next

\* At the start nothing has been received.
LEMMA CaptureInit == ASSUME Init PROVE CaptureInv
<1>1. diag.stage = 0 /\ board.queued = "nothing" /\ log = <<>> /\ line.received = <<>>
    BY DEF Init
<1>2. Len(<<>>) = 0 OBVIOUS
<1>3. LoggedInOrder BY <1>1, <1>2 DEF LoggedInOrder
<1>. QED BY <1>1, <1>3 DEF CaptureInv

\* As long as no packet is lost and no frame outgrows the buffer, what is in the FIFOs, in
\* the buffers and in the log are the frames the line carried, whole and in order.
THEOREM SpecCaptureInv == Spec => []CaptureInv
<1>1. Init => CaptureInv BY CaptureInit
<1>2. PktInv /\ CaptureInv /\ [Next]_pktuartVars => CaptureInv' BY CaptureNext
<1>. QED BY <1>1, <1>2, SpecPktInv, PTL DEF Spec

\* The pins after a period, and after the last.
LEMMA RunPins ==
    ASSUME NEW d, NEW p \in PinValues, Run(d, p)
    PROVE  pins'.done = p.done /\ pins'.result = p.result /\ pins'.frame_count = p.frame_count
<1>1. pins' = [p EXCEPT !.rx_status = board.sampled, !.state = diag.stage] BY DEF Run
<1>. QED BY <1>1 DEF PinValues

\* The result a capture ends with is the one on the pin.
LEMMA FinishPins ==
    ASSUME NEW d, NEW p \in PinValues, NEW result \in Results, Finish(d, p, result)
    PROVE  pins'.result = result /\ pins'.frame_count = p.frame_count
<1>. DEFINE told == [p EXCEPT !.done = TRUE, !.result = result]
<1>1. told \in PinValues /\ told.result = result /\ told.frame_count = p.frame_count
    BY DEF PinValues
<1>2. Run([d EXCEPT !.stage = 7], told) BY DEF Finish
<1>. HIDE DEF told
<1>. QED BY <1>1, <1>2, RunPins

\* A capture ends with result 1 when nothing was received, or when everything was read.
LEMMA Success ==
    ASSUME PktInv, [Next]_pktuartVars, pins'.done, ~pins.done, pins'.result = 1
    PROVE  NoFrames \/ Complete
<1>1. pins \in PinValues BY DEF PktInv, Typed
<1>2. \A retval \in Failures : retval \in Results /\ retval # 1 BY FailuresAssumption DEF Results
<1>3. ASSUME NEW d, Run(d, pins) PROVE FALSE BY <1>1, <1>3, RunPins
<1>4. ASSUME NEW d, NEW p \in PinValues, NEW retval \in Failures, Finish(d, p, retval) PROVE FALSE
    BY <1>2, <1>4, FinishPins
<1>5. ~(AwaitTrigger \/ Settle \/ ListenOnly \/ Collect \/ SizesRead \/ PrintFrame \/ Finished)
    BY <1>3 DEF AwaitTrigger, Settle, ListenOnly, Collect, SizesRead, PrintFrame, Finished
<1>6. ~SendRequest BY <1>1, <1>3, <1>4 DEF SendRequest
<1>7. ~BeginCapture
    <2>. DEFINE d == [stage |-> 1, cycles |-> 0, current_frame |-> 0, pending_bytes |-> 0,
                      trigger_seen |-> TRUE, sizes |-> NoSizes, rx_words |-> <<>>]
    <2>. DEFINE p == [pins EXCEPT !.done = FALSE, !.result = 0, !.frame_count = 0]
    <2>1. p \in PinValues /\ ~p.done
        <3>1. 0 \in 0 .. MAX_CAPTURE_FRAMES /\ 0 \in Results BY SizesAssumption DEF Results
        <3>. QED BY <1>1, <3>1 DEF PinValues
    <2>. HIDE DEF d, p
    <2>2. ~Run(d, p) BY <2>1, RunPins
    <2>3. ~\E retval \in Failures : Finish(d, p, retval) BY <1>4, <2>1
    <2>. QED BY <2>2, <2>3 DEF BeginCapture, d, p
<1>8. ~QueueSizes
    <2>. DEFINE d == [Counted EXCEPT !.sizes = NoSizes]
    <2>. DEFINE p == [pins EXCEPT !.frame_count = board.sampled.frames]
    <2>1. board.sampled \in Status BY DEF PktInv, Typed, Boards
    <2>2. p \in PinValues /\ p.done = pins.done BY <1>1, <2>1 DEF PinValues, Status
    <2>. HIDE DEF p
    <2>3. ~Run([d EXCEPT !.stage = 3], p) BY <2>2, RunPins
    <2>4. ~\E retval \in Failures : Finish(d, p, retval) BY <1>4, <2>2
    <2>. QED BY <2>3, <2>4 DEF QueueSizes, p
<1>9. ~QueueData
    <2>. DEFINE d == [now EXCEPT !.pending_bytes = Count, !.rx_words = <<>>]
    <2>1. ~Run([d EXCEPT !.stage = 5], pins) BY <1>3
    <2>2. ~\E retval \in Failures : Finish(d, pins, retval) BY <1>1, <1>4
    <2>. QED BY <2>1, <2>2 DEF QueueData
<1>10. ~(BoardRead \/ PacketLost \/ Inspect \/ Decode \/ UNCHANGED pktuartVars)
    BY DEF BoardRead, PacketLost, Inspect, Decode, pktuartVars
<1>11. ~Happen BY DEF Happen, Echo, Answer, Joined, Stray, Disturb, Arrive
<1>12. ~Prepare
    <2>. SUFFICES ASSUME Prepare PROVE FALSE OBVIOUS
    <2>1. PICK set \in BOOLEAN, healthy \in BOOLEAN :
              pins' = [pins EXCEPT !.send_request =
                           IF set THEN script.mode = "readonly" ELSE pins.send_request]
        BY DEF Prepare
    <2>. QED BY <1>1, <2>1 DEF PinValues
<1>13. ~RaiseTrigger /\ ~MoveTrigger BY <1>1 DEF RaiseTrigger, MoveTrigger, PinValues
<1>. QED BY <1>5, <1>6, <1>7, <1>8, <1>9, <1>10, <1>11, <1>12, <1>13 DEF Next, Function

\* When the status shows no frame and no error, nothing had come.
LEMMA NothingCame ==
    ASSUME PktInv, CaptureInv, NoFrames, Whole, pins'.result = 1
    PROVE  pins'.frame_count = 0 /\ line.received = <<>> /\ board.errors = {}
<1>. DEFINE p == [pins EXCEPT !.frame_count = 0]
<1>. DEFINE result == IF board.sampled.errors \cap ReceiverErrors # {} THEN -2 ELSE 1
<1>1. Typed /\ pins \in PinValues /\ board \in Boards /\ line.received \in Seq(Seq(Byte))
      /\ board.sizes \in Seq(Nat)
    BY WayType DEF PktInv, Typed
<1>2. Collected /\ board.sampled.frames = 0 /\ Finish(Counted, p, result) BY DEF NoFrames
<1>3. p \in PinValues /\ p.frame_count = 0
    <2>1. 0 \in 0 .. MAX_CAPTURE_FRAMES BY SizesAssumption
    <2>. QED BY <1>1, <2>1 DEF PinValues
<1>4. result \in Results BY DEF Results
<1>. HIDE DEF p
<1>5. result = 1 /\ pins'.frame_count = 0
    <2>. HIDE DEF result
    <2>. QED BY <1>2, <1>3, <1>4, FinishPins
<1>6. board.fresh BY <1>2 DEF Finish, Run
<1>7. diag.stage = 2 BY <1>2 DEF Collected
<1>8. SizesInOrder /\ Waiting BY <1>7 DEF CaptureInv, InOrder
<1>9. board.sampled = RxStatus /\ Listed = 0 BY <1>6, <1>8 DEF Waiting
<1>10. Len(board.sizes) = 0 /\ board.sampled.errors = board.errors BY <1>2, <1>9 DEF RxStatus
<1>11. board.errors = {}
    <2>1. board.errors \in SUBSET ReceiverErrors BY <1>1 DEF Boards, ReceiverErrors
    <2>2. board.errors \cap ReceiverErrors = {} BY <1>5, <1>10
    <2>. QED BY <2>1, <2>2
<1>12. Len(line.received) = 0
    <2>1. Listed + Len(board.sizes) = Len(line.received) BY <1>1, <1>8, ListedType
    <2>. QED BY <1>9, <1>10, <2>1
<1>. QED BY <1>1, <1>5, <1>11, <1>12

\* When there is no size left, every frame counted has been logged.
LEMMA AllLogged ==
    ASSUME PktInv, CaptureInv, Complete, Whole
    PROVE  /\ pins'.frame_count # 0 /\ Len(log) >= pins'.frame_count
           /\ IsPrefix(log, line.received)
<1>1. Typed /\ pins \in PinValues /\ line.received \in Seq(Seq(Byte)) /\ log \in Seq(Seq(Byte))
    BY WayType DEF PktInv, Typed
<1>2. AllRead /\ Finish(now, pins, 1) BY DEF Complete
<1>3. pins'.frame_count = pins.frame_count
    <2>1. 1 \in Results BY DEF Results
    <2>. QED BY <1>1, <1>2, <2>1, FinishPins
<1>4. diag.stage = 4 BY <1>2 DEF AllRead
<1>5. LoggedInOrder /\ SizesInOrder /\ SizesListed BY <1>4 DEF CaptureInv, InOrder, Looking
<1>6. PICK n \in Nat : n = Len(log) BY <1>1
<1>7. diag.current_frame = n BY <1>4, <1>6 DEF PktInv, Staged
<1>8. PICK m \in Nat : m = Listed BY <1>1, <1>5, ListedType
<1>9. PICK frames \in Nat : frames = pins.frame_count BY <1>1, WayType
<1>10. 1 <= frames /\ frames <= m /\ m <= MAX_CAPTURE_FRAMES BY <1>5, <1>8, <1>9 DEF SizesListed
<1>11. n >= m
    <2>. SUFFICES ASSUME n < m PROVE FALSE BY <1>6, <1>8
    <2>1. n < MAX_CAPTURE_FRAMES /\ n + 1 \in 1 .. MAX_CAPTURE_FRAMES /\ n + 1 <= m
        BY <1>10, SizesAssumption
    <2>2. diag.sizes[n + 1] # 0 BY <1>5, <1>8, <2>1 DEF SizesListed, Says
    <2>. QED BY <1>2, <1>7, <2>1, <2>2 DEF AllRead, Size
<1>12. n >= frames BY <1>10, <1>11
<1>13. IsPrefix(log, line.received)
    <2>1. n <= Len(line.received) /\ \A i \in 1 .. n : log[i] = line.received[i]
        BY <1>5, <1>6 DEF LoggedInOrder
    <2>2. SubSeq(line.received, 1, n) \in Seq(Seq(Byte)) /\ Len(SubSeq(line.received, 1, n)) = n
          /\ \A i \in 1 .. n : SubSeq(line.received, 1, n)[i] = line.received[i]
        BY <1>1, <2>1
    <2>3. SubSeq(log, 1, n) \in Seq(Seq(Byte)) /\ Len(SubSeq(log, 1, n)) = n
          /\ \A i \in 1 .. n : SubSeq(log, 1, n)[i] = log[i]
        BY <1>1, <1>6
    <2>4. SubSeq(log, 1, n) = SubSeq(line.received, 1, n) BY <2>1, <2>2, <2>3
    <2>. QED BY <1>6, <2>1, <2>4 DEF IsPrefix
<1>. QED BY <1>3, <1>6, <1>9, <1>10, <1>12, <1>13

\* A capture that ends with result 1, no packet lost and no frame cut, shows the line since
\* the reset, whatever buffers, waits and stages, and however the frames fall between the
\* periods: the frames counted and those after them, in order; or that there was nothing.
THEOREM SpecCaptureFaithful == Spec => CaptureFaithful
<1>1. PktInv /\ CaptureInv /\ [Next]_pktuartVars =>
        (/\ pins'.done /\ ~pins.done /\ pins'.result = 1 /\ line.lost = 0
         /\ \A i \in DOMAIN line.received : Len(line.received[i]) <= MAX_CAPTURE_BYTES
         => IF pins'.frame_count = 0 THEN line.received = <<>> /\ board.errors = {}
            ELSE IsPrefix(log, line.received) /\ Len(log) >= pins'.frame_count)
    <2>. SUFFICES ASSUME PktInv, CaptureInv, [Next]_pktuartVars, Whole,
                         pins'.done, ~pins.done, pins'.result = 1
                  PROVE  IF pins'.frame_count = 0 THEN line.received = <<>> /\ board.errors = {}
                         ELSE IsPrefix(log, line.received) /\ Len(log) >= pins'.frame_count
        BY DEF Whole
    <2>1. NoFrames \/ Complete BY Success
    <2>. QED BY <2>1, NothingCame, AllLogged
<1>. QED BY <1>1, SpecPktInv, SpecCaptureInv, PTL DEF Spec, CaptureFaithful

-----------------------------------------------------------------------------
(* What the frames in the log are taken for *)

\* Whether a frame is taken for an answer.
LEMMA TakenForAnswer ==
    ASSUME NEW frame \in Seq(Byte)
    PROVE  LET verdict == parse_register_response(frame, FUNCTION_READ_INPUT_REGISTERS, 1)
           IN  verdict.error \in {"none", "exception"} <=> ReadsAsAnswer(frame)
<1>. DEFINE verdict == parse_register_response(frame, FUNCTION_READ_INPUT_REGISTERS, 1)
<1>. DEFINE exception == [Refused("exception") EXCEPT !.exception = decode_h100_modbus_exception(frame[3])]
<1>. DEFINE read == [error |-> "none", exception |-> "none",
                     values |-> [i \in 1 .. frame[3] \div 2 |->
                                    256 * frame[2 * i + 2] + frame[2 * i + 3]]]
<1>. SUFFICES verdict.error \in {"none", "exception"} <=> ReadsAsAnswer(frame) OBVIOUS
<1>1. FUNCTION_READ_INPUT_REGISTERS = 4 BY DEF FUNCTION_READ_INPUT_REGISTERS
<1>2. /\ Refused("CRC").error = "CRC" /\ Refused("slave address").error = "slave address"
      /\ Refused("malformed exception").error = "malformed exception"
      /\ Refused("function").error = "function" /\ Refused("byte count").error = "byte count"
    BY DEF Refused
<1>3. exception.error = "exception" /\ read.error = "none" BY DEF Refused
<1>4. verdict = IF Len(frame) < 5 \/ ~verify_crc(frame) THEN Refused("CRC")
                ELSE IF frame[1] # 1 THEN Refused("slave address")
                ELSE IF frame[2] = 4 + 128
                     THEN IF Len(frame) # 5 THEN Refused("malformed exception") ELSE exception
                ELSE IF frame[2] # 4 THEN Refused("function")
                ELSE IF frame[3] = 0 \/ frame[3] % 2 = 1 \/ Len(frame) # frame[3] + 5
                     THEN Refused("byte count")
                ELSE read
    BY <1>1, Zenon DEF parse_register_response
<1>5. ReadsAsAnswer(frame) <=>
        /\ Len(frame) >= 5 /\ verify_crc(frame) /\ frame[1] = 1
        /\ \/ frame[2] = 4 + 128 /\ Len(frame) = 5
           \/ frame[2] = 4 /\ frame[3] # 0 /\ frame[3] % 2 = 0 /\ Len(frame) = frame[3] + 5
    BY <1>1 DEF ReadsAsAnswer
<1>6. Len(frame) >= 5 => frame[1] \in Nat /\ frame[2] \in Nat /\ frame[3] \in Nat
    <2>1. PICK n \in Nat : n = Len(frame) OBVIOUS
    <2>2. \A i \in 1 .. n : frame[i] \in Nat
        <3>1. \A i \in 1 .. n : frame[i] \in Byte BY <2>1
        <3>2. \A byte \in Byte : byte \in Nat BY DEF Byte
        <3>. QED BY <3>1, <3>2
    <2>3. n >= 5 => 1 \in 1 .. n /\ 2 \in 1 .. n /\ 3 \in 1 .. n OBVIOUS
    <2>. QED BY <2>1, <2>2, <2>3
<1>7. Len(frame) \in Nat OBVIOUS
<1>. HIDE DEF verdict, exception, read
<1>8. CASE Len(frame) < 5 \/ ~verify_crc(frame)
    <2>1. verdict = Refused("CRC") BY <1>4, <1>8
    <2>2. verdict.error = "CRC" BY <1>2, <2>1
    <2>3. ~ReadsAsAnswer(frame) BY <1>5, <1>7, <1>8
    <2>. QED BY <2>2, <2>3
<1>9. CASE ~(Len(frame) < 5 \/ ~verify_crc(frame))
    <2>1. CASE frame[1] # 1 BY <1>2, <1>4, <1>5, <1>9, <2>1
    <2>2. CASE frame[1] = 1 /\ frame[2] = 4 + 128
        <3>1. verdict = IF Len(frame) # 5 THEN Refused("malformed exception") ELSE exception
            BY <1>4, <1>9, <2>2
        <3>2. verdict.error = IF Len(frame) # 5 THEN "malformed exception" ELSE "exception"
            BY <1>2, <1>3, <3>1
        <3>3. ReadsAsAnswer(frame) <=> Len(frame) = 5 BY <1>5, <1>7, <1>9, <2>2
        <3>. QED BY <3>2, <3>3
    <2>3. CASE frame[1] = 1 /\ frame[2] = 4
        <3>1. CASE frame[3] = 0 \/ frame[3] % 2 = 1 \/ Len(frame) # frame[3] + 5
            <4>1. frame[2] # 4 + 128 BY <2>3
            <4>2. verdict = IF frame[3] = 0 \/ frame[3] % 2 = 1 \/ Len(frame) # frame[3] + 5
                            THEN Refused("byte count") ELSE read
                BY <1>4, <1>9, <2>3, <4>1
            <4>3. verdict = Refused("byte count") BY <3>1, <4>2
            <4>4. verdict.error = "byte count" BY <1>2, <4>3
            <4>5. ~ReadsAsAnswer(frame) BY <1>5, <2>3, <3>1
            <4>. QED BY <4>4, <4>5
        <3>2. CASE ~(frame[3] = 0 \/ frame[3] % 2 = 1 \/ Len(frame) # frame[3] + 5)
            <4>1. verdict = read BY <1>4, <1>9, <2>3, <3>2
            <4>2. verdict.error = "none" BY <1>3, <4>1
            <4>3. ReadsAsAnswer(frame) BY <1>5, <1>6, <1>7, <1>9, <2>3, <3>2
            <4>. QED BY <4>2, <4>3
        <3>. QED BY <3>1, <3>2
    <2>4. CASE frame[1] = 1 /\ frame[2] # 4 /\ frame[2] # 4 + 128
        <3>1. verdict = Refused("function") BY <1>4, <1>9, <2>4
        <3>2. verdict.error = "function" BY <1>2, <3>1
        <3>3. ~ReadsAsAnswer(frame) BY <1>5, <2>4
        <3>. QED BY <3>2, <3>3
    <2>. QED BY <2>1, <2>2, <2>3, <2>4
<1>. QED BY <1>8, <1>9 DEF verdict

\* One word in two bytes, and back.
LEMMA OneWord ==
    ASSUME NEW high \in Byte, NEW low \in Byte
    PROVE  Words(<<256 * high + low>>) = <<high, low>>
<1>. DEFINE value == 256 * high + low
<1>1. value \div 256 = high /\ value % 256 = low BY DEF Byte
<1>. HIDE DEF value
<1>. DEFINE pairs == [i \in DOMAIN <<value>> |-> <<<<value>>[i] \div 256, <<value>>[i] % 256>>]
<1>2. pairs = <<<<high, low>>>> BY <1>1
<1>3. Len(pairs) = 1 /\ pairs[1] = <<high, low>> BY <1>2
<1>4. Words(<<value>>) = FlattenSeq(pairs) BY DEF Words
<1>. HIDE DEF pairs
<1>5. FlattenSeq(pairs) = <<high, low>>
    <2>. DEFINE Flat(f) == [i \in 1 .. Len(pairs) |-> IF i = 1 THEN pairs[i] ELSE f[i - 1] \o pairs[i]]
    <2>1. FlattenSeq(pairs) = IF Len(pairs) = 0 THEN pairs ELSE (CHOOSE f : f = Flat(f))[Len(pairs)]
        BY Zenon DEF FlattenSeq
    <2>2. \E f : f = Flat(f)
        <3>. DEFINE f == [i \in 1 .. 1 |-> pairs[1]]
        <3>1. f = Flat(f) BY <1>3
        <3>. QED BY <3>1
    <2>3. PICK f : f = Flat(f) /\ FlattenSeq(pairs) = f[1] BY <1>3, <2>1, <2>2
    <2>4. f[1] = pairs[1] BY <1>3, <2>3
    <2>. QED BY <1>3, <2>3, <2>4
<1>. QED BY <1>4, <1>5 DEF value

\* Two bytes more.
LEMMA TwoMore ==
    ASSUME NEW s \in Seq(Byte), NEW a \in Byte, NEW b \in Byte, NEW n \in Nat, Len(s) = n
    PROVE  /\ s \o <<a, b>> \in Seq(Byte) /\ Len(s \o <<a, b>>) = n + 2
           /\ \A i \in 1 .. n : (s \o <<a, b>>)[i] = s[i]
           /\ (s \o <<a, b>>)[n + 1] = a /\ (s \o <<a, b>>)[n + 2] = b
<1>1. PICK t \in Seq(Byte) : t = <<a, b>> /\ Len(t) = 2 /\ t[1] = a /\ t[2] = b
    <2>1. <<a, b>> \in Seq(Byte) OBVIOUS
    <2>. QED BY <2>1
<1>2. /\ s \o t \in Seq(Byte) /\ Len(s \o t) = n + 2
      /\ \A i \in 1 .. n : (s \o t)[i] = s[i]
      /\ (s \o t)[n + 1] = t[1] /\ (s \o t)[n + 2] = t[2]
    BY <1>1
<1>. QED BY <1>1, <1>2

LEMMA ThreeAndTwo ==
    ASSUME NEW x \in Byte, NEW y \in Byte, NEW z \in Byte, NEW a \in Byte, NEW b \in Byte
    PROVE  <<x, y, z>> \o <<a, b>> = <<x, y, z, a, b>>
<1>1. PICK s \in Seq(Byte) : s = <<x, y, z>> /\ Len(s) = 3 /\ s[1] = x /\ s[2] = y /\ s[3] = z
    <2>1. <<x, y, z>> \in Seq(Byte) OBVIOUS
    <2>. QED BY <2>1
<1>2. PICK u \in Seq(Byte) : /\ u = <<x, y, z, a, b>> /\ Len(u) = 5 /\ u[1] = x /\ u[2] = y
                             /\ u[3] = z /\ u[4] = a /\ u[5] = b
    <2>1. <<x, y, z, a, b>> \in Seq(Byte) OBVIOUS
    <2>. QED BY <2>1
<1>3. PICK w : w = s \o <<a, b>> OBVIOUS
<1>4. /\ w \in Seq(Byte) /\ Len(w) = 5 /\ w[1] = x /\ w[2] = y /\ w[3] = z
      /\ w[4] = a /\ w[5] = b
    BY <1>1, <1>3, TwoMore
<1>5. w = u BY <1>2, <1>4
<1>. QED BY <1>1, <1>2, <1>3, <1>5

\* The drive's answer is taken for one, and read as what it says.
LEMMA AnswerRead ==
    ASSUME NEW answer \in Answers
    PROVE  LET frame == append_crc(answer)
               verdict == parse_register_response(frame, FUNCTION_READ_INPUT_REGISTERS, 1)
           IN  /\ frame \in Seq(Byte) /\ Len(frame) \in 5 .. 7
               /\ verify_crc(frame) /\ ReadsAsAnswer(frame)
               /\ verdict.error = "none" => answer = <<1, 4, 2>> \o Words(verdict.values)
               /\ verdict.error = "exception" =>
                    verdict.exception = decode_h100_modbus_exception(answer[3])
<1>. DEFINE frame == append_crc(answer)
<1>. DEFINE verdict == parse_register_response(frame, FUNCTION_READ_INPUT_REGISTERS, 1)
<1>1. FUNCTION_READ_INPUT_REGISTERS = 4 BY DEF FUNCTION_READ_INPUT_REGISTERS
<1>2. answer \in Seq(Byte) BY FramesAssumption
<1>3. PICK a \in Byte, b \in Byte : frame = answer \o <<a, b>>
    <2>. DEFINE crc == crc16_modbus(answer)
    <2>1. ByteAt(crc, 0) \in Byte /\ ByteAt(crc, 8) \in Byte BY ByteAtType
    <2>2. frame = answer \o <<ByteAt(crc, 0), ByteAt(crc, 8)>> BY DEF append_crc
    <2>. HIDE DEF crc, frame
    <2>. QED BY <2>1, <2>2
<1>4. Len(answer) >= 2 => frame \in Seq(Byte) /\ verify_crc(frame) BY <1>2, AppendedVerifies
<1>. HIDE DEF frame
<1>5. Len(frame) = Len(answer) + 2 /\ \A i \in 1 .. Len(answer) : frame[i] = answer[i]
    <2>1. PICK n \in Nat : n = Len(answer) BY <1>2
    <2>. QED BY <1>2, <1>3, <2>1, TwoMore
<1>6. CASE \E code \in Byte : answer = <<1, 132, code>>
    <2>1. PICK code \in Byte : answer = <<1, 132, code>> BY <1>6
    <2>2. /\ Len(answer) = 3 /\ answer[1] = 1 /\ answer[2] = 132 /\ answer[3] = code
        BY <2>1
    <2>3. /\ Len(frame) = 5 /\ frame[1] = 1 /\ frame[2] = 132 /\ frame[3] = code
          /\ answer[3] = code /\ Len(answer) = 3
        BY <1>5, <2>2
    <2>4. frame \in Seq(Byte) /\ verify_crc(frame) BY <1>4, <2>3
    <2>5. verdict = [Refused("exception") EXCEPT !.exception = decode_h100_modbus_exception(code)]
        BY <1>1, <2>3, <2>4 DEF parse_register_response
    <2>6. verdict.error = "exception" /\ verdict.exception = decode_h100_modbus_exception(code)
        BY <2>5 DEF Refused
    <2>7. ReadsAsAnswer(frame) BY <1>1, <2>3, <2>4 DEF ReadsAsAnswer
    <2>. HIDE DEF verdict
    <2>. QED BY <2>3, <2>4, <2>6, <2>7 DEF verdict, frame
<1>7. CASE \E high, low \in Byte : answer = <<1, 4, 2, high, low>>
    <2>1. PICK high \in Byte, low \in Byte : answer = <<1, 4, 2, high, low>> BY <1>7
    <2>2. /\ Len(answer) = 5 /\ answer[1] = 1 /\ answer[2] = 4 /\ answer[3] = 2
          /\ answer[4] = high /\ answer[5] = low
        BY <2>1
    <2>3. /\ Len(frame) = 7 /\ frame[1] = 1 /\ frame[2] = 4 /\ frame[3] = 2
          /\ frame[4] = high /\ frame[5] = low /\ Len(answer) = 5
        BY <1>5, <2>2
    <2>4. frame \in Seq(Byte) /\ verify_crc(frame) BY <1>4, <2>3
    <2>5. verdict = [error |-> "none", exception |-> "none",
                     values |-> [i \in 1 .. frame[3] \div 2 |->
                                    256 * frame[2 * i + 2] + frame[2 * i + 3]]]
        BY <1>1, <2>3, <2>4 DEF parse_register_response
    <2>6. verdict.values = <<256 * high + low>> /\ verdict.error = "none"
        <3>1. frame[3] \div 2 = 1 BY <2>3
        <3>2. verdict.values = [i \in 1 .. 1 |-> 256 * frame[2 * i + 2] + frame[2 * i + 3]]
            BY <2>5, <3>1
        <3>3. \A i \in 1 .. 1 : 256 * frame[2 * i + 2] + frame[2 * i + 3] = 256 * high + low
            BY <2>3
        <3>. QED BY <2>5, <3>2, <3>3
    <2>7. <<1, 4, 2>> \o Words(verdict.values) = answer
        <3>1. Words(<<256 * high + low>>) = <<high, low>> BY OneWord
        <3>2. <<1, 4, 2>> \o <<high, low>> = <<1, 4, 2, high, low>>
            <4>1. 1 \in Byte /\ 4 \in Byte /\ 2 \in Byte BY DEF Byte
            <4>. QED BY <4>1, ThreeAndTwo
        <3>. QED BY <2>1, <2>6, <3>1, <3>2
    <2>8. ReadsAsAnswer(frame) BY <1>1, <2>3, <2>4 DEF ReadsAsAnswer
    <2>. HIDE DEF verdict
    <2>. QED BY <2>3, <2>4, <2>6, <2>7, <2>8 DEF verdict, frame
<1>. QED BY <1>1, <1>6, <1>7, AnswersAssumption

\* Where no bit is flipped a byte is as it was.
LEMMA FlippedElsewhere ==
    ASSUME NEW frame \in Seq(Byte), NEW bits, NEW i \in 1 .. Len(frame),
           bits \cap (8 * (i - 1) .. 8 * i - 1) = {}
    PROVE  Flipped(frame, bits)[i] = frame[i]
<1>1. PICK byte \in Byte : byte = frame[i] OBVIOUS
<1>2. {b - 8 * (i - 1) : b \in bits \cap (8 * (i - 1) .. 8 * i - 1)} = {} OBVIOUS
<1>3. Flipped(frame, bits)[i] = ByteAt(Xor(Bits(byte), {}), 0) BY <1>1, <1>2 DEF Flipped
<1>4. Xor(Bits(byte), {}) = Bits(byte) BY DEF Xor
<1>. DEFINE after == ByteAt(Bits(byte), 0)
<1>5. after \in Byte /\ \A n \in 0 .. 7 : n \in Bits(after) <=> 0 + n \in Bits(byte)
    BY ByteAtFacts
<1>. HIDE DEF after
<1>6. Bits(after) = Bits(byte)
    <2>1. Bits(after) \subseteq 0 .. 7 /\ Bits(byte) \subseteq 0 .. 7 BY DEF Bits
    <2>2. \A n \in 0 .. 7 : 0 + n = n OBVIOUS
    <2>. QED BY <1>5, <2>1, <2>2
<1>7. after = byte BY <1>5, <1>6, BitsApart
<1>. QED BY <1>1, <1>3, <1>4, <1>7 DEF after

\* A damaged answer is the answer all the same, or the CRC is wrong.
LEMMA DamageNoticed ==
    ASSUME NEW answer \in Answers, NEW bits \in Damages,
           verify_crc(Flipped(append_crc(answer), bits))
    PROVE  Flipped(append_crc(answer), bits) = append_crc(answer)
<1>. DEFINE sent == append_crc(answer)
<1>. DEFINE frame == Flipped(sent, bits)
<1>1. sent \in Seq(Byte) /\ Len(sent) \in 5 .. 7 /\ verify_crc(sent) BY AnswerRead
<1>2. frame \in Seq(Byte) BY <1>1, FlippedType
<1>3. Len(frame) = Len(sent)
    <2>1. DOMAIN frame = DOMAIN sent BY DEF Flipped
    <2>. HIDE DEF frame, sent
    <2>. QED BY <1>1, <1>2, <2>1
<1>4. SUFFICES ASSUME Burst(bits, sent) PROVE frame = sent BY NoticedAssumption
<1>5. PICK n \in 5 .. 7 : n = Len(sent) BY <1>1
<1>6. PICK k \in 0 .. n - 2 : bits \subseteq 8 * k .. 8 * k + 15 BY <1>4, <1>5 DEF Burst
<1>7. ASSUME NEW i \in 1 .. n PROVE i \in {k + 1, (k + 1) + 1} \/ frame[i] = sent[i]
    <2>. SUFFICES ASSUME i \notin {k + 1, (k + 1) + 1} PROVE frame[i] = sent[i] OBVIOUS
    <2>1. bits \cap (8 * (i - 1) .. 8 * i - 1) = {} BY <1>6
    <2>. HIDE DEF sent
    <2>. QED BY <1>1, <1>5, <2>1, FlippedElsewhere
<1>8. k + 1 \in 1 .. n - 1 BY <1>6
<1>9. verify_crc(frame) OBVIOUS
<1>. HIDE DEF frame, sent
<1>. QED BY <1>1, <1>2, <1>3, <1>5, <1>7, <1>8, <1>9, BurstNoticed

\* The frames there are on the line.
Heard(frame) ==
    \/ frame = request
    \/ \E stray \in Strays : frame = stray.frame
    \/ /\ line.answer # <<>>
       /\ \/ frame = request \o append_crc(line.answer)
          \/ \E bits \in Damages : frame = Flipped(append_crc(line.answer), bits)

\* A frame on the line is taken for an answer exactly if it is the drive's.
LEMMA HeardRead ==
    ASSUME NEW frame, Heard(frame), line.answer \in Answers \cup {<<>>}
    PROVE  frame \in Seq(Byte) /\ (ReadsAsAnswer(frame) <=> Genuine(frame))
<1>1. FUNCTION_READ_INPUT_REGISTERS = 4 BY DEF FUNCTION_READ_INPUT_REGISTERS
<1>2. ASSUME Genuine(frame) PROVE ReadsAsAnswer(frame) /\ line.answer \in Answers
    <2>1. line.answer \in Answers /\ frame = append_crc(line.answer) BY <1>2 DEF Genuine
    <2>. QED BY <2>1, AnswerRead
<1>3. CASE frame = request
    <2>1. frame[2] = 4 /\ frame[3] = 0 BY <1>3 DEF request
    <2>2. ~ReadsAsAnswer(frame) BY <1>1, <2>1 DEF ReadsAsAnswer
    <2>. QED BY <1>2, <1>3, <2>2, RequestType
<1>4. CASE \E stray \in Strays : frame = stray.frame
    <2>1. PICK stray \in Strays : frame = stray.frame BY <1>4
    <2>2. frame \in Seq(Byte) BY <2>1, FramesAssumption
    <2>3. ~ReadsAsAnswer(frame) BY <2>1, NoticedAssumption
    <2>. QED BY <1>2, <2>2, <2>3
<1>5. CASE line.answer # <<>> /\ frame = request \o append_crc(line.answer)
    <2>1. PICK sent \in Seq(Byte) : sent = append_crc(line.answer) BY <1>5, AnswerRead
    <2>2. frame \in Seq(Byte) /\ frame[2] = 4 /\ frame[3] = 0 BY <1>5, <2>1 DEF request, Byte
    <2>3. ~ReadsAsAnswer(frame) BY <1>1, <2>2 DEF ReadsAsAnswer
    <2>. QED BY <1>2, <2>2, <2>3
<1>6. CASE line.answer # <<>> /\ \E bits \in Damages : frame = Flipped(append_crc(line.answer), bits)
    <2>1. PICK bits \in Damages : frame = Flipped(append_crc(line.answer), bits) BY <1>6
    <2>2. line.answer \in Answers BY <1>6
    <2>3. append_crc(line.answer) \in Seq(Byte) BY <2>2, AnswerRead
    <2>4. frame \in Seq(Byte) BY <2>1, <2>3, FlippedType
    <2>5. ASSUME ReadsAsAnswer(frame) PROVE Genuine(frame)
        <3>1. verify_crc(frame) BY <2>5 DEF ReadsAsAnswer
        <3>2. frame = append_crc(line.answer) BY <2>1, <2>2, <3>1, DamageNoticed
        <3>. QED BY <1>6, <3>2 DEF Genuine
    <2>. QED BY <1>2, <2>4, <2>5
<1>. QED BY <1>3, <1>4, <1>5, <1>6 DEF Heard

\* Only what there is on the line is received.
ReceivedHeard == \A i \in DOMAIN line.received : Heard(line.received[i])

\* The verdicts are those on the frames in the log.
LogJudged ==
    \/ script.verdicts = <<>>
    \/ /\ script.at = "ended"
       /\ script.verdicts = [i \in DOMAIN log |->
              parse_register_response(log[i], FUNCTION_READ_INPUT_REGISTERS, 1)]

\* What was heard stays so when the drive answers.
LEMMA HeardKept ==
    ASSUME NEW frame, Heard(frame), line'.answer = line.answer \/ line.answer = <<>>
    PROVE  Heard(frame)'
BY DEF Heard, request

\* Nothing else is received.
LEMMA HeardAlone ==
    ASSUME ReceivedHeard, line'.received = line.received,
           line'.answer = line.answer \/ line.answer = <<>>
    PROVE  ReceivedHeard'
<1>. SUFFICES ASSUME NEW i \in DOMAIN line.received PROVE Heard(line.received[i])'
    BY DEF ReceivedHeard
<1>1. PICK frame : frame = line.received[i] /\ Heard(frame) BY DEF ReceivedHeard
<1>2. Heard(frame)' BY <1>1, HeardKept
<1>3. line'.received[i] = frame BY <1>1
<1>. QED BY <1>2, <1>3 DEF Heard

LEMMA ArriveHeard ==
    ASSUME PktInv, ReceivedHeard, NEW frame \in Seq(Byte), NEW flags \in Nat, NEW l \in Lines,
           l.received = line.received, l.answer = line.answer \/ line.answer = <<>>,
           Arrive(frame, flags, l),
           \/ frame = request
           \/ \E stray \in Strays : frame = stray.frame
           \/ /\ l.answer # <<>>
              /\ \/ frame = request \o append_crc(l.answer)
                 \/ \E bits \in Damages : frame = Flipped(append_crc(l.answer), bits)
    PROVE  ReceivedHeard'
<1>1. line'.answer = l.answer /\ line'.received \in {l.received, Append(l.received, frame)}
    BY DEF Arrive, Lines
<1>2. CASE line'.received = line.received BY <1>1, <1>2, HeardAlone
<1>3. CASE line'.received = Append(line.received, frame)
    <2>1. line.received \in Seq(Seq(Byte)) BY DEF PktInv, Typed, Lines
    <2>2. PICK n \in Nat : n = Len(line.received) BY <2>1
    <2>3. Heard(frame)' BY <1>1 DEF Heard, request
    <2>4. ASSUME NEW i \in 1 .. n PROVE Heard(line.received[i])'
        <3>1. PICK old : old = line.received[i] /\ Heard(old) BY <2>1, <2>2 DEF ReceivedHeard
        <3>2. Heard(old)' BY <1>1, <3>1, HeardKept
        <3>3. line'.received[i] = old BY <1>3, <2>1, <2>2, <3>1
        <3>. QED BY <3>2, <3>3 DEF Heard
    <2>5. line'.received[n + 1] = frame /\ DOMAIN line'.received = 1 .. n + 1
        BY <1>3, <2>1, <2>2
    <2>6. ASSUME NEW i \in 1 .. n + 1 PROVE Heard(line.received[i])'
        <3>1. CASE i = n + 1 BY <2>3, <2>5, <3>1 DEF Heard
        <3>2. CASE i # n + 1 BY <2>4, <3>2
        <3>. QED BY <3>1, <3>2
    <2>. QED BY <2>5, <2>6 DEF ReceivedHeard
<1>. QED BY <1>1, <1>2, <1>3

LEMMA HappenHeard == ASSUME PktInv, ReceivedHeard, Happen PROVE ReceivedHeard'
<1>1. line \in Lines BY DEF PktInv, Typed
<1>2. Echoed \in Lines /\ Echoed.received = line.received /\ Echoed.answer = line.answer
    BY <1>1 DEF Echoed, Lines
<1>3. ASSUME NEW payload \in Answers, NEW l \in {line, Echoed}
      PROVE  /\ [l EXCEPT !.answer = payload] \in Lines
             /\ [l EXCEPT !.answer = payload].received = line.received
             /\ [l EXCEPT !.answer = payload].answer = payload
             /\ payload # <<>> /\ append_crc(payload) \in Seq(Byte)
    <2>1. append_crc(payload) \in Seq(Byte) BY AnswerRead
    <2>2. payload # <<>>
        <3>1. Len(payload) # 0 BY AnswersAssumption
        <3>. QED BY <3>1
    <2>. QED BY <1>1, <1>2, <2>1, <2>2 DEF Lines
<1>4. 0 \in Nat OBVIOUS
<1>5. CASE Echo
    <2>1. Arrive(request, 0, Echoed) BY <1>5 DEF Echo
    <2>. QED BY <1>2, <1>4, <2>1, RequestType, ArriveHeard
<1>6. CASE Answer
    <2>1. PICK payload \in Answers, bits \in Damages :
              Arrive(Flipped(append_crc(payload), bits), 0, [line EXCEPT !.answer = payload])
        BY <1>6 DEF Answer
    <2>2. line.answer = <<>> BY <1>6 DEF Answer
    <2>. DEFINE frame == Flipped(append_crc(payload), bits)
    <2>. DEFINE l == [line EXCEPT !.answer = payload]
    <2>3. l \in Lines /\ l.received = line.received /\ l.answer = payload BY <1>3
    <2>4. frame \in Seq(Byte) BY <1>3, FlippedType
    <2>5. payload # <<>> BY <1>3
    <2>. HIDE DEF l
    <2>6. l.answer # <<>> /\ frame = Flipped(append_crc(l.answer), bits) BY <2>3, <2>5
    <2>7. Arrive(frame, 0, l) BY <2>1 DEF l
    <2>. HIDE DEF frame
    <2>. QED BY <1>4, <2>2, <2>3, <2>4, <2>6, <2>7, ArriveHeard
<1>7. CASE Joined
    <2>1. PICK payload \in Answers :
              Arrive(request \o append_crc(payload), 0, [Echoed EXCEPT !.answer = payload])
        BY <1>7 DEF Joined
    <2>2. line.answer = <<>> BY <1>7 DEF Joined
    <2>. DEFINE frame == request \o append_crc(payload)
    <2>. DEFINE l == [Echoed EXCEPT !.answer = payload]
    <2>3. l \in Lines /\ l.received = line.received /\ l.answer = payload BY <1>3
    <2>4. frame \in Seq(Byte) BY <1>3, RequestType, JoinedBytes
    <2>5. payload # <<>> BY <1>3
    <2>. HIDE DEF l
    <2>6. l.answer # <<>> /\ frame = request \o append_crc(l.answer) BY <2>3, <2>5
    <2>7. Arrive(frame, 0, l) BY <2>1 DEF l
    <2>. HIDE DEF frame
    <2>. QED BY <1>4, <2>2, <2>3, <2>4, <2>6, <2>7, ArriveHeard
<1>8. CASE Stray
    <2>1. PICK stray \in Strays : Arrive(stray.frame, stray.flags, line) BY <1>8 DEF Stray
    <2>2. stray.frame \in Seq(Byte) /\ stray.flags \in Nat BY FramesAssumption
    <2>. QED BY <1>1, <2>1, <2>2, ArriveHeard
<1>9. CASE Disturb
    <2>1. line' = line BY <1>9 DEF Disturb
    <2>. QED BY <2>1, HeardAlone
<1>. QED BY <1>5, <1>6, <1>7, <1>8, <1>9 DEF Happen

\* No step receives anything else.
LEMMA HeardNext == ASSUME PktInv, ReceivedHeard, [Next]_pktuartVars PROVE ReceivedHeard'
<1>1. line \in Lines BY DEF PktInv, Typed
<1>2. CASE Happen BY <1>2, HappenHeard
<1>3. CASE BeginCapture
    <2>1. line' = [line EXCEPT !.received = <<>>] BY <1>3 DEF BeginCapture
    <2>2. line'.received = <<>> BY <1>1, <2>1 DEF Lines
    <2>. QED BY <2>2 DEF ReceivedHeard
<1>4. CASE SendRequest
    <2>1. line' \in {line, [line EXCEPT !.sent = Append(line.sent, request)]}
        BY <1>4 DEF SendRequest
    <2>2. line'.received = line.received /\ line'.answer = line.answer BY <1>1, <2>1 DEF Lines
    <2>. QED BY <2>2, HeardAlone
<1>5. CASE PacketLost
    <2>1. line' = [line EXCEPT !.lost = line.lost + 1] BY <1>5 DEF PacketLost
    <2>2. line'.received = line.received /\ line'.answer = line.answer BY <1>1, <2>1 DEF Lines
    <2>. QED BY <2>2, HeardAlone
<1>6. CASE AwaitTrigger \/ Settle \/ ListenOnly \/ Collect \/ NoFrames \/ QueueSizes \/ SizesRead
           \/ Complete \/ QueueData \/ PrintFrame \/ Finished
    <2>1. line' = line
        BY <1>6 DEF AwaitTrigger, Settle, ListenOnly, Collect, NoFrames, QueueSizes, SizesRead,
                    Complete, QueueData, PrintFrame, Finished
    <2>. QED BY <2>1, HeardAlone
<1>7. CASE BoardRead \/ Prepare \/ RaiseTrigger \/ MoveTrigger \/ Inspect \/ Decode
           \/ UNCHANGED pktuartVars
    <2>1. line' = line
        BY <1>7 DEF BoardRead, Prepare, RaiseTrigger, MoveTrigger, Inspect, Decode, pktuartVars
    <2>. QED BY <2>1, HeardAlone
<1>. QED BY <1>2, <1>3, <1>4, <1>5, <1>6, <1>7 DEF Next, Function

\* Until the script has ended there are no verdicts, and then nothing moves any more.
LEMMA JudgedNext == ASSUME PktInv, LogJudged, [Next]_pktuartVars PROVE LogJudged'
<1>1. script \in Scripts BY DEF PktInv, Typed
<1>2. CASE Decode
    <2>1. /\ log' = log
          /\ script' = [script EXCEPT !.at = "ended", !.verdicts =
                 [i \in DOMAIN log |->
                     parse_register_response(log[i], FUNCTION_READ_INPUT_REGISTERS, 1)]]
        BY <1>2 DEF Decode
    <2>. DEFINE verdicts == [i \in DOMAIN log |->
                parse_register_response(log[i], FUNCTION_READ_INPUT_REGISTERS, 1)]
    <2>2. script' = [script EXCEPT !.at = "ended", !.verdicts = verdicts] BY <2>1
    <2>. HIDE DEF verdicts
    <2>3. script'.at = "ended" /\ script'.verdicts = verdicts BY <1>1, <2>2 DEF Scripts
    <2>4. LogJudged' <=> \/ script'.verdicts = <<>>
                         \/ script'.at = "ended" /\ script'.verdicts = verdicts
        BY <2>1 DEF LogJudged, verdicts
    <2>. QED BY <2>3, <2>4
<1>3. CASE UNCHANGED pktuartVars BY <1>3 DEF pktuartVars, LogJudged
<1>4. CASE Function \/ BoardRead \/ PacketLost \/ Happen \/ Prepare \/ RaiseTrigger
           \/ MoveTrigger \/ Inspect
    <2>1. script.at # "ended" /\ script'.verdicts = script.verdicts
        <3>1. CASE Function
            <4>1. script.at = "sleeping" /\ script' = script
                BY <3>1 DEF Function, AwaitTrigger, BeginCapture, Settle, ListenOnly, SendRequest,
                            Collect, NoFrames, QueueSizes, SizesRead, Complete, QueueData,
                            PrintFrame, Finished, Finish, Run
            <4>. QED BY <4>1
        <3>2. CASE BoardRead \/ PacketLost
            <4>1. Passing BY <3>2 DEF BoardRead, PacketLost
            <4>2. script.at = "sleeping" /\ script' = [script EXCEPT !.waited = script.waited + 1]
                BY <4>1 DEF Passing
            <4>. QED BY <1>1, <4>2 DEF Scripts
        <3>3. CASE Happen
            <4>1. script.at = "sleeping" /\ script' = script
                BY <3>3 DEF Happen, Echo, Answer, Joined, Stray, Disturb, Arrive, Listening
            <4>. QED BY <4>1
        <3>4. CASE Prepare
            <4>1. PICK at : script.at = "start" /\ script' = [script EXCEPT !.at = at]
                BY <3>4 DEF Prepare
            <4>. QED BY <1>1, <4>1 DEF Scripts
        <3>5. CASE RaiseTrigger
            <4>1. script.at = "sleeping" /\ script' = [script EXCEPT !.raised = TRUE]
                BY <3>5 DEF RaiseTrigger
            <4>. QED BY <1>1, <4>1 DEF Scripts
        <3>6. CASE MoveTrigger BY <3>6 DEF MoveTrigger
        <3>7. CASE Inspect
            <4>1. /\ script.at = "sleeping"
                  /\ script' = [script EXCEPT !.at = "inspected", !.done = pins.done,
                                              !.result = pins.result]
                BY <3>7 DEF Inspect
            <4>. QED BY <1>1, <4>1 DEF Scripts
        <3>. QED BY <1>4, <3>1, <3>2, <3>3, <3>4, <3>5, <3>6, <3>7
    <2>. QED BY <2>1 DEF LogJudged
<1>. QED BY <1>2, <1>3, <1>4 DEF Next

\* Every frame in the log is one that was received, or the zeros of a read that was lost.
LoggedWhole ==
    \A i \in DOMAIN log : \/ \E j \in DOMAIN line.received : log[i] = line.received[j]
                           \/ log[i] = Zeros(Len(log[i]))

\* Such a log is judged rightly.
LEMMA JudgedTrue ==
    ASSUME PktInv, ReceivedHeard, LogJudged, LoggedWhole
    PROVE  VerdictsTrue
<1>1. line.answer \in Answers \cup {<<>>} /\ log \in Seq(Seq(Byte))
    BY DEF PktInv, Typed, Lines, Logs
<1>. SUFFICES ASSUME NEW i \in DOMAIN script.verdicts
              PROVE  LET verdict == script.verdicts[i]
                     IN  /\ verdict.error \in {"none", "exception"} <=> Genuine(log[i])
                         /\ verdict.error = "none" =>
                              line.answer = <<1, 4, 2>> \o Words(verdict.values)
                         /\ verdict.error = "exception" =>
                              verdict.exception = decode_h100_modbus_exception(line.answer[3])
    BY DEF VerdictsTrue
<1>2. i \in DOMAIN log
      /\ script.verdicts[i]
           = parse_register_response(log[i], FUNCTION_READ_INPUT_REGISTERS, 1)
    BY DEF LogJudged
<1>3. PICK frame \in Seq(Byte) : frame = log[i] BY <1>1, <1>2
<1>. DEFINE verdict == parse_register_response(frame, FUNCTION_READ_INPUT_REGISTERS, 1)
<1>4. verdict.error \in {"none", "exception"} <=> ReadsAsAnswer(frame) BY TakenForAnswer
<1>5. ReadsAsAnswer(frame) <=> Genuine(frame)
    <2>1. CASE \E j \in DOMAIN line.received : frame = line.received[j]
        BY <1>1, <2>1, HeardRead DEF ReceivedHeard
    <2>2. CASE frame = Zeros(Len(frame))
        <3>1. ~ReadsAsAnswer(frame)
            <4>. SUFFICES ASSUME ReadsAsAnswer(frame) PROVE FALSE OBVIOUS
            <4>1. PICK n \in Nat : n = Len(frame) OBVIOUS
            <4>2. n >= 5 /\ frame[1] = 1 BY <4>1 DEF ReadsAsAnswer
            <4>3. frame = [k \in 1 .. n |-> 0] /\ 1 \in 1 .. n BY <2>2, <4>1, <4>2 DEF Zeros
            <4>4. frame[1] = 0 BY <4>3
            <4>. QED BY <4>2, <4>4
        <3>2. Genuine(frame) => ReadsAsAnswer(frame) BY <1>1, AnswerRead DEF Genuine
        <3>. QED BY <3>1, <3>2
    <2>. QED BY <1>2, <1>3, <2>1, <2>2 DEF LoggedWhole
<1>6. ASSUME Genuine(frame)
      PROVE  /\ verdict.error = "none" => line.answer = <<1, 4, 2>> \o Words(verdict.values)
             /\ verdict.error = "exception" =>
                  verdict.exception = decode_h100_modbus_exception(line.answer[3])
    <2>1. line.answer \in Answers /\ frame = append_crc(line.answer) BY <1>1, <1>6 DEF Genuine
    <2>. QED BY <2>1, AnswerRead
<1>7. script.verdicts[i] = verdict BY <1>2, <1>3
<1>. HIDE DEF verdict
<1>. QED BY <1>3, <1>4, <1>5, <1>6, <1>7

\* Of the frames of a whole log exactly the drive's answer is taken for one, and it is read
\* as what the drive said: not the echo, not the echo and the answer in one, not an answer
\* damaged in two neighbouring bytes, no other traffic, no zeros.
THEOREM SpecVerdictsTrue == Spec => [](LoggedWhole => VerdictsTrue)
<1>1. Init => ReceivedHeard /\ LogJudged
    <2>. SUFFICES ASSUME Init PROVE ReceivedHeard /\ LogJudged OBVIOUS
    <2>1. line.received = <<>> /\ script.verdicts = <<>> BY DEF Init
    <2>. QED BY <2>1 DEF ReceivedHeard, LogJudged
<1>2. PktInv /\ ReceivedHeard /\ LogJudged /\ [Next]_pktuartVars => ReceivedHeard' /\ LogJudged'
    BY HeardNext, JudgedNext
<1>3. PktInv /\ ReceivedHeard /\ LogJudged => (LoggedWhole => VerdictsTrue) BY JudgedTrue
<1>. QED BY <1>1, <1>2, <1>3, SpecPktInv, PTL DEF Spec

\* The log is whole as long as no packet is lost and no frame outgrows the buffer.
THEOREM SpecLoggedWhole == Spec => [](Whole => LoggedWhole)
<1>1. PktInv /\ CaptureInv => (Whole => LoggedWhole)
    <2>. SUFFICES ASSUME PktInv, CaptureInv, Whole PROVE LoggedWhole OBVIOUS
    <2>1. log \in Seq(Seq(Byte)) /\ line.received \in Seq(Seq(Byte))
        BY DEF PktInv, Typed, Lines, Logs
    <2>2. PICK n \in Nat, m \in Nat : n = Len(log) /\ m = Len(line.received) BY <2>1
    <2>3. n <= m /\ \A i \in 1 .. n : log[i] = line.received[i]
        BY <2>2 DEF CaptureInv, LoggedInOrder
    <2>4. DOMAIN log = 1 .. n /\ DOMAIN line.received = 1 .. m BY <2>1, <2>2
    <2>. QED BY <2>3, <2>4 DEF LoggedWhole
<1>. QED BY <1>1, SpecPktInv, SpecCaptureInv, PTL
===============================================================================

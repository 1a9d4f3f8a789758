------------------------------- MODULE Protocol -------------------------------
(***************************************************************************)
(* src/protocol/h100_protocol.py without its spindle decision: the frames  *)
(* of Modbus RTU as the commissioning tools build and judge them, and the  *)
(* drive's fault and exception codes.                                      *)
(*                                                                         *)
(* A byte is a number, a frame a sequence of bytes.  The CRC register is   *)
(* the set of the positions of its ones, so that its exclusive or is the   *)
(* symmetric difference.  A function that raises an error returns what     *)
(* tells the error from the others; decoded texts are known as in          *)
(* VfdFault.                                                               *)
(***************************************************************************)
EXTENDS Integers, Sequences, SequencesExt

Byte == 0 .. 255
FUNCTION_READ_HOLDING_REGISTERS == 3
FUNCTION_READ_INPUT_REGISTERS == 4
FUNCTION_WRITE_SINGLE_REGISTER == 6

-----------------------------------------------------------------------------
(* CRC *)

Bits(byte) == {i \in 0 .. 7 : (byte \div 2^i) % 2 = 1}
Xor(a, b) == (a \ b) \cup (b \ a)
ShiftRight(register) == {i - 1 : i \in register \ {0}}

\* One round of the inner loop; 0xA001.
DivideBit(crc) ==
    IF 0 \in crc THEN Xor(ShiftRight(crc), {15, 13, 0}) ELSE ShiftRight(crc)

\* Mutant of crc16_modbus: the register starts at zero.
crc16_modbus_mutant(data) ==
    FoldLeft(LAMBDA crc, value :
                FoldLeft(LAMBDA c, round : DivideBit(c), Xor(crc, Bits(value)), <<1, 2, 3, 4, 5, 6, 7, 8>>),
             {}, data)

crc16_modbus(data) ==
    FoldLeft(LAMBDA crc, value :
                FoldLeft(LAMBDA c, round : DivideBit(c), Xor(crc, Bits(value)), <<1, 2, 3, 4, 5, 6, 7, 8>>),
             0 .. 15, data)

\* The number with ones at the positions of register from first on, eight of them.
ByteAt(register, first) ==
    LET bit(i, weight) == IF first + i \in register THEN weight ELSE 0
    IN  bit(0, 1) + bit(1, 2) + bit(2, 4) + bit(3, 8) + bit(4, 16) + bit(5, 32) + bit(6, 64)
        + bit(7, 128)

\* Low byte first.
append_crc(payload) ==
    LET crc == crc16_modbus(payload)
    IN  payload \o <<ByteAt(crc, 0), ByteAt(crc, 8)>>

verify_crc(frame) ==
    /\ Len(frame) >= 4
    /\ LET received == Bits(frame[Len(frame) - 1]) \cup {i + 8 : i \in Bits(frame[Len(frame)])}
       IN  received = crc16_modbus(SubSeq(frame, 1, Len(frame) - 2))

-----------------------------------------------------------------------------
(* Requests; their arguments are in the range the code checks *)

Words(payload) == FlattenSeq([i \in DOMAIN payload |-> <<payload[i] \div 256, payload[i] % 256>>])

write_single_register_request(address, value, slave) ==
    append_crc(<<slave, FUNCTION_WRITE_SINGLE_REGISTER>> \o Words(<<address, value>>))

read_registers_request(function, address, count, slave) ==
    append_crc(<<slave, function>> \o Words(<<address, count>>))

-----------------------------------------------------------------------------
(* Responses *)

\* The texts of the four abnormal responses; any other byte is kept as unknown.
decode_h100_modbus_exception(raw) ==
    IF raw \in 1 .. 4
    THEN <<"function unsupported", "data address invalid", "data value out of range",
           "operation failed">>[raw]
    ELSE "unknown"

Refused(error) == [error |-> error, exception |-> "none", values |-> <<>>]

\* Mutant of parse_register_response: the CRC is not verified, nor is an exception known.
parse_register_response_mutant(frame, function, slave) ==
    IF Len(frame) < 5 THEN Refused("CRC")
    ELSE IF frame[1] # slave THEN Refused("slave address")
    ELSE IF frame[2] # function THEN Refused("function")
    ELSE IF frame[3] = 0 \/ frame[3] % 2 = 1 \/ Len(frame) # frame[3] + 5 THEN Refused("byte count")
    ELSE [error |-> "none", exception |-> "none",
          values |-> [i \in 1 .. frame[3] \div 2 |-> 256 * frame[2 * i + 2] + frame[2 * i + 3]]]

parse_register_response(frame, function, slave) ==
    IF Len(frame) < 5 \/ ~verify_crc(frame) THEN Refused("CRC")
    ELSE IF frame[1] # slave THEN Refused("slave address")
    ELSE IF frame[2] = function + 128
         THEN IF Len(frame) # 5 THEN Refused("malformed exception")
              ELSE [Refused("exception") EXCEPT !.exception = decode_h100_modbus_exception(frame[3])]
    ELSE IF frame[2] # function THEN Refused("function")
    ELSE IF frame[3] = 0 \/ frame[3] % 2 = 1 \/ Len(frame) # frame[3] + 5 THEN Refused("byte count")
    ELSE [error |-> "none", exception |-> "none",
          values |-> [i \in 1 .. frame[3] \div 2 |-> 256 * frame[2 * i + 2] + frame[2 * i + 3]]]
-----------------------------------------------------------------------------
(* The drive's current fault *)

H100_FAULT_FAMILIES ==
    <<<<64, "E.OC">>, <<80, "E.oU">>, <<88, "E.Lu">>, <<92, "E.oH">>, <<96, "E.oL">>,
      <<100, "E.oA">>, <<104, "E.oT">>>>
H100_FAULT_SUFFIXES == <<"S", "A", "d", "n">>

\* Upper case, with an underscore for the point.
Identity(text) ==
    CASE text = "E.OC" -> "E_OC" [] text = "E.oU" -> "E_OU" [] text = "E.Lu" -> "E_LU"
      [] text = "E.oH" -> "E_OH" [] text = "E.oL" -> "E_OL" [] text = "E.oA" -> "E_OA"
      [] text = "E.oT" -> "E_OT" [] text = "d" -> "D" [] text = "n" -> "N" [] OTHER -> text

H100_FAULT_CAUSE(family) ==
    CASE family = "E.OC" -> "over-current" [] family = "E.oU" -> "over-voltage"
      [] family = "E.Lu" -> "low-input-voltage" [] family = "E.oH" -> "inverter-overheated"
      [] family = "E.oL" -> "inverter-overload" [] family = "E.oA" -> "motor-overload"
      [] family = "E.oT" -> "motor-over-torque"

H100_FAULT_PHASE_CONTEXT(suffix) ==
    CASE suffix = "S" -> "at-stop" [] suffix = "A" -> "during-acceleration"
      [] suffix = "d" -> "during-deceleration" [] suffix = "n" -> "at-constant-speed"

over_current_action(suffix) ==
    CASE suffix = "A" -> "lengthen-acceleration" [] suffix = "n" -> "blocked-spindle-supply"
      [] OTHER -> "lengthen-deceleration-DC-braking"

H100_FAULT_ACTION(family) ==
    CASE family = "E.oU" -> "input-voltage-braking" [] family = "E.Lu" -> "supply-continuity"
      [] family = "E.oH" -> "cooling" [] family = "E.oL" -> "jam-VF-configuration"
      [] family = "E.oA" -> "load-motor-condition" [] family = "E.oT" -> "jam-motor-size"

\* A value absent from the table: name and action keep the raw value, nothing is guessed.
UnknownFault == [source_known |-> FALSE]

\* decode_h100_fault: the first family that holds the value among its four.
decode_h100_fault(raw) ==
    LET hits == {i \in DOMAIN H100_FAULT_FAMILIES : raw - H100_FAULT_FAMILIES[i][1] \in 0 .. 3}
        base == H100_FAULT_FAMILIES[Min(hits)][1]
        family == H100_FAULT_FAMILIES[Min(hits)][2]
        suffix == H100_FAULT_SUFFIXES[raw - base + 1]
    IN  IF hits = {} THEN UnknownFault
        ELSE [source_known |-> TRUE,
              name |-> <<Identity(family), Identity(suffix)>>,
              drive_display |-> <<family, suffix>>,
              summary |-> <<H100_FAULT_CAUSE(family), H100_FAULT_PHASE_CONTEXT(suffix)>>,
              action |-> IF family = "E.OC" THEN over_current_action(suffix)
                         ELSE H100_FAULT_ACTION(family)]
=============================================================================

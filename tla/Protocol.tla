------------------------------ MODULE Protocol ------------------------------
(***************************************************************************)
(* The messages between the board and the control panel and their frames   *)
(* (src/src/can/protocol.rs).  A message is a record of its identifier and *)
(* its fields, a frame one of an identifier and a sequence of bytes.       *)
(***************************************************************************)
EXTENDS Integers, Sequences

CAN_ID_BUTTON_FROM_CTRL_PANEL == 1
CAN_ID_MAIN_VALVE_ANGLE_TO_CTRL_PANEL == 257
CAN_ID_OUTPUT_GPIO_STATUS == 259
CAN_ID_INPUT_GPIO_STATUS == 260
CAN_ID_INTERNAL_STATUS == 261
CAN_ID_LOGGER_DATA == 262

U8_MAX == 255
U16_MAX == 65535
I16_MIN == -32768
I16_MAX == 32767

Byte == 0 .. U8_MAX
U16 == 0 .. U16_MAX
I16 == I16_MIN .. I16_MAX

OneByteIds ==
  {CAN_ID_BUTTON_FROM_CTRL_PANEL, CAN_ID_OUTPUT_GPIO_STATUS, CAN_ID_INPUT_GPIO_STATUS}

GseCanMessage ==
  [id : OneByteIds, bits : Byte]
    \cup [id : {CAN_ID_MAIN_VALVE_ANGLE_TO_CTRL_PANEL}, angle_x10 : I16]
    \cup [id : {CAN_ID_INTERNAL_STATUS}, phase : Byte, flags : Byte]
    \cup [id : {CAN_ID_LOGGER_DATA}, adc0 : U16, adc2 : U16, adc3 : U16, counter : U16]

\* to_le_bytes: two's complement, low byte first.
low(n) == n % 256
high(n) == (n \div 256) % 256
u16_from_le_bytes(l, h) == l + 256 * h

\* A slip: the angle is read as if it could not be negative.
i16_from_le_bytes_unsigned(l, h) == l + 256 * h

i16_from_le_bytes(l, h) == l + 256 * (IF h < 128 THEN h ELSE h - 256)

encode_payload(m) ==
  CASE m.id = CAN_ID_MAIN_VALVE_ANGLE_TO_CTRL_PANEL -> <<low(m.angle_x10), high(m.angle_x10)>>
    [] m.id = CAN_ID_INTERNAL_STATUS -> <<m.phase, m.flags>>
    [] m.id = CAN_ID_LOGGER_DATA ->
         <<low(m.adc0), high(m.adc0), low(m.adc2), high(m.adc2),
           low(m.adc3), high(m.adc3), low(m.counter), high(m.counter)>>
    [] OTHER -> <<m.bits>>

dlc(id) ==
  IF id = CAN_ID_LOGGER_DATA THEN 8
  ELSE IF id \in {CAN_ID_MAIN_VALVE_ANGLE_TO_CTRL_PANEL, CAN_ID_INTERNAL_STATUS} THEN 2
  ELSE 1

KnownIds ==
  OneByteIds \cup
    {CAN_ID_MAIN_VALVE_ANGLE_TO_CTRL_PANEL, CAN_ID_INTERNAL_STATUS, CAN_ID_LOGGER_DATA}

\* What the bytes of a frame of the right length mean.
message(id, data) ==
  CASE id = CAN_ID_MAIN_VALVE_ANGLE_TO_CTRL_PANEL ->
         [id |-> id, angle_x10 |-> i16_from_le_bytes(data[1], data[2])]
    [] id = CAN_ID_INTERNAL_STATUS -> [id |-> id, phase |-> data[1], flags |-> data[2]]
    [] id = CAN_ID_LOGGER_DATA ->
         [id |-> id,
          adc0 |-> u16_from_le_bytes(data[1], data[2]),
          adc2 |-> u16_from_le_bytes(data[3], data[4]),
          adc3 |-> u16_from_le_bytes(data[5], data[6]),
          counter |-> u16_from_le_bytes(data[7], data[8])]
    [] OTHER -> [id |-> id, bits |-> data[1]]

decode_standard(id, data) ==
  IF id \notin KnownIds THEN [error |-> "UnknownId"]
  ELSE IF Len(data) # dlc(id) THEN [error |-> "InvalidDlc"]
  ELSE message(id, data)
=============================================================================

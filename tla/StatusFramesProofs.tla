------------------------- MODULE StatusFramesProofs -------------------------
(***************************************************************************)
(* What survives the conversions and encodings a status message goes       *)
(* through, for every value it can carry; then what the panel is told, and *)
(* that no sample of the logger is taken for sent while the panel lacks it.*)
(***************************************************************************)
EXTENDS StatusFrames, TLAPS

-----------------------------------------------------------------------------
(* Two bytes for a word.                                                    *)

\* The bytes of an unsigned word give it back.
LEMMA UnsignedBytes ==
  ASSUME NEW n \in U16
  PROVE  u16_from_le_bytes(low(n), high(n)) = n
<1>1. n \in Int /\ 0 <= n /\ n <= U16_MAX
  <2>1. U16_MAX \in Int
    BY DEF U16_MAX
  <2> QED BY <2>1 DEF U16
<1>2. n \in Int /\ 0 <= n /\ n <= 65535
  BY <1>1 DEF U16_MAX
<1>3. (n \div 256) % 256 = n \div 256 /\ n = (n % 256) + 256 * (n \div 256)
  BY <1>2
<1> QED BY <1>3 DEF u16_from_le_bytes, low, high

\* So do those of a signed one.
LEMMA SignedBytes ==
  ASSUME NEW n \in I16
  PROVE  i16_from_le_bytes(low(n), high(n)) = n
<1>1. n \in Int /\ I16_MIN <= n /\ n <= I16_MAX
  <2>1. I16_MIN \in Int /\ I16_MAX \in Int
    BY DEF I16_MIN, I16_MAX
  <2> QED BY <2>1 DEF I16
<1>2. n \in Int /\ -32768 <= n /\ n <= 32767
  BY <1>1 DEF I16_MIN, I16_MAX
<1> DEFINE quotient == n \div 256
<1>3. /\ quotient \in Int /\ -128 <= quotient /\ quotient <= 127
      /\ n % 256 \in Int
      /\ n = (n % 256) + 256 * quotient
  BY <1>2
<1>4. high(n) = IF quotient >= 0 THEN quotient ELSE quotient + 256
  BY <1>3 DEF high
<1> HIDE DEF quotient
<1>5. i16_from_le_bytes(low(n), high(n)) = (n % 256) + 256 * quotient
  BY <1>3, <1>4 DEF i16_from_le_bytes, low
<1> QED BY <1>3, <1>5

\* The six kinds of message have different identifiers, and their frames the
\* lengths that a decoder expects: every message a board encodes is decoded to
\* itself, its sign and all sixteen bits of its counter included
\* (can/protocol.rs 44-136).
THEOREM MessagesSurvive ==
  ASSUME NEW m \in GseCanMessage
  PROVE  /\ Len(encode_payload(m)) = dlc(m.id)
         /\ decode_standard(m.id, encode_payload(m)) = m
<1> USE DEF CAN_ID_BUTTON_FROM_CTRL_PANEL, CAN_ID_MAIN_VALVE_ANGLE_TO_CTRL_PANEL,
            CAN_ID_OUTPUT_GPIO_STATUS, CAN_ID_INPUT_GPIO_STATUS, CAN_ID_INTERNAL_STATUS,
            CAN_ID_LOGGER_DATA
<1>1. CASE m \in [id : OneByteIds, bits : Byte]
  <2>1. m.id \in OneByteIds /\ m = [id |-> m.id, bits |-> m.bits]
    BY <1>1
  <2>2. encode_payload(m) = <<m.bits>> /\ dlc(m.id) = 1
    BY <2>1 DEF encode_payload, dlc, OneByteIds
  <2>3. message(m.id, <<m.bits>>) = [id |-> m.id, bits |-> m.bits]
    BY <2>1 DEF message, OneByteIds
  <2> QED BY <2>1, <2>2, <2>3 DEF decode_standard, KnownIds
<1>2. CASE m \in [id : {CAN_ID_MAIN_VALVE_ANGLE_TO_CTRL_PANEL}, angle_x10 : I16]
  <2>1. /\ m.id = CAN_ID_MAIN_VALVE_ANGLE_TO_CTRL_PANEL /\ m.angle_x10 \in I16
        /\ m = [id |-> m.id, angle_x10 |-> m.angle_x10]
    BY <1>2
  <2>2. encode_payload(m) = <<low(m.angle_x10), high(m.angle_x10)>> /\ dlc(m.id) = 2
    BY <2>1 DEF encode_payload, dlc
  <2>3. i16_from_le_bytes(low(m.angle_x10), high(m.angle_x10)) = m.angle_x10
    BY <2>1, SignedBytes
  <2>4. message(m.id, <<low(m.angle_x10), high(m.angle_x10)>>) =
          [id |-> m.id, angle_x10 |-> m.angle_x10]
    BY <2>1, <2>3 DEF message
  <2> QED BY <2>1, <2>2, <2>4 DEF decode_standard, KnownIds
<1>3. CASE m \in [id : {CAN_ID_INTERNAL_STATUS}, phase : Byte, flags : Byte]
  <2>1. /\ m.id = CAN_ID_INTERNAL_STATUS
        /\ m = [id |-> m.id, phase |-> m.phase, flags |-> m.flags]
    BY <1>3
  <2>2. encode_payload(m) = <<m.phase, m.flags>> /\ dlc(m.id) = 2
    BY <2>1 DEF encode_payload, dlc
  <2>3. message(m.id, <<m.phase, m.flags>>) = m
    BY <2>1 DEF message
  <2> QED BY <2>1, <2>2, <2>3 DEF decode_standard, KnownIds
<1>4. CASE m \in [id : {CAN_ID_LOGGER_DATA}, adc0 : U16, adc2 : U16, adc3 : U16, counter : U16]
  <2>1. /\ m.id = CAN_ID_LOGGER_DATA
        /\ m.adc0 \in U16 /\ m.adc2 \in U16 /\ m.adc3 \in U16 /\ m.counter \in U16
        /\ m = [id |-> m.id, adc0 |-> m.adc0, adc2 |-> m.adc2, adc3 |-> m.adc3,
                counter |-> m.counter]
    BY <1>4
  <2> DEFINE bytes == <<low(m.adc0), high(m.adc0), low(m.adc2), high(m.adc2),
                          low(m.adc3), high(m.adc3), low(m.counter), high(m.counter)>>
  <2>2. encode_payload(m) = bytes
    BY <2>1 DEF encode_payload
  <2>3. dlc(m.id) = 8 /\ Len(bytes) = 8
    BY <2>1 DEF dlc
  <2>4. \A n \in U16 : u16_from_le_bytes(low(n), high(n)) = n
    BY UnsignedBytes
  <2>5. message(m.id, bytes) =
          [id |-> m.id, adc0 |-> u16_from_le_bytes(low(m.adc0), high(m.adc0)),
           adc2 |-> u16_from_le_bytes(low(m.adc2), high(m.adc2)),
           adc3 |-> u16_from_le_bytes(low(m.adc3), high(m.adc3)),
           counter |-> u16_from_le_bytes(low(m.counter), high(m.counter))]
    BY <2>1 DEF message
  <2>6. message(m.id, bytes) = m
    BY <2>1, <2>4, <2>5
  <2> QED BY <2>1, <2>2, <2>3, <2>6 DEF decode_standard, KnownIds
<1> QED BY <1>1, <1>2, <1>3, <1>4 DEF GseCanMessage

-----------------------------------------------------------------------------
(* The angle.                                                               *)

\* A commanded position is one set_pos accepts, and within what two bytes carry.
LEMMA PositionInRange ==
  ASSUME NEW angle \in Int
  PROVE  LET p == angle_x10_to_position(angle)
         IN  p \in Int /\ SERVO_MIN_POS <= p /\ p <= SERVO_MAX_POS
<1>1. truncate(27 * SERVO_CENTER_POS + 80 * angle, 27) \in Int
  BY DEF truncate, SERVO_CENTER_POS
<1> QED BY <1>1 DEF angle_x10_to_position, SERVO_MIN_POS, SERVO_MAX_POS

\* The two seven-bit bytes lose nothing of a position.
LEMMA PositionBytes ==
  ASSUME NEW p \in Int, 0 <= p, p < 16384
  PROVE  bytes_position(position_bytes(p)[1], position_bytes(p)[2]) = p
BY DEF bytes_position, position_bytes

\* The two conversions lose less than a tenth of a degree of an angle in reach.
LEMMA AngleRoundTrip ==
  ASSUME NEW angle \in Int, -1350 <= angle, angle <= 1350
  PROVE  position_to_angle_x10(angle_x10_to_position(angle)) - angle \in -1 .. 1
BY DEF position_to_angle_x10, angle_x10_to_position, truncate, SERVO_MIN_POS,
   SERVO_MAX_POS, SERVO_CENTER_POS

\* An angle commanded, sent to the servo, echoed by it and reported to the panel
\* differs by at most a tenth of a degree, for every angle the servo can reach;
\* beyond that the position is clamped to one set_pos accepts (lib.rs 309-324,
\* krs_servo.rs 188-219).
THEOREM AngleSurvives ==
  ASSUME NEW angle \in Int
  PROVE  LET sent == angle_x10_to_position(angle)
             echoed == bytes_position(position_bytes(sent)[1], position_bytes(sent)[2])
         IN  /\ SERVO_MIN_POS <= sent /\ sent <= SERVO_MAX_POS
             /\ echoed = sent
             /\ -1350 <= angle /\ angle <= 1350 =>
                  position_to_angle_x10(echoed) - angle \in -1 .. 1
<1> DEFINE sent == angle_x10_to_position(angle)
<1>1. sent \in Int /\ SERVO_MIN_POS <= sent /\ sent <= SERVO_MAX_POS
  BY PositionInRange
<1>2. 0 <= sent /\ sent < 16384
  BY <1>1 DEF SERVO_MIN_POS, SERVO_MAX_POS
<1>3. -1350 <= angle /\ angle <= 1350 => position_to_angle_x10(sent) - angle \in -1 .. 1
  BY AngleRoundTrip
<1> HIDE DEF sent
<1>4. bytes_position(position_bytes(sent)[1], position_bytes(sent)[2]) = sent
  BY <1>1, <1>2, PositionBytes
<1> QED BY <1>1, <1>3, <1>4 DEF sent

-----------------------------------------------------------------------------
(* Frames.                                                                  *)

\* The words of the protocol as intervals.
LEMMA Words ==
  /\ \A n \in U16 : n \in Int /\ 0 <= n /\ n <= 65535
  /\ \A n \in Int : 0 <= n /\ n <= 65535 => n \in U16
  /\ \A n \in I16 : n \in Int
  /\ \A n \in Int : -32768 <= n /\ n <= 32767 => n \in I16
  /\ \A n \in Int : 0 <= n /\ n <= 255 => n \in Byte
<1>1. U16_MAX \in Int /\ I16_MIN \in Int /\ I16_MAX \in Int /\ U8_MAX \in Int
  BY DEF U16_MAX, I16_MIN, I16_MAX, U8_MAX
<1>2. U16_MAX = 65535 /\ I16_MIN = -32768 /\ I16_MAX = 32767 /\ U8_MAX = 255
  BY DEF U16_MAX, I16_MIN, I16_MAX, U8_MAX
<1>3. /\ \A n \in U16 : n \in Int /\ 0 <= n /\ n <= U16_MAX
      /\ \A n \in Int : 0 <= n /\ n <= U16_MAX => n \in U16
  BY <1>1 DEF U16
<1>4. /\ \A n \in I16 : n \in Int
      /\ \A n \in Int : I16_MIN <= n /\ n <= I16_MAX => n \in I16
  BY <1>1 DEF I16
<1>5. \A n \in Int : 0 <= n /\ n <= U8_MAX => n \in Byte
  BY <1>1 DEF Byte
<1> QED BY <1>2, <1>3, <1>4, <1>5

\* What the constants may be.
LEMMA StatusConstants ==
  /\ COUNTER_MODULUS \in Int /\ 1 < COUNTER_MODULUS
  /\ 0 .. COUNTER_MODULUS - 1 \subseteq U16 /\ AdcValues \subseteq U16
  /\ \A n \in U16 : n # None
<1>1. U16_MAX \in Int
  BY DEF U16_MAX
<1>2. COUNTER_MODULUS \in Int /\ 1 < COUNTER_MODULUS /\ COUNTER_MODULUS <= U16_MAX + 1
  BY <1>1, StatusValuesAssumption
<1>3. \A n \in 0 .. COUNTER_MODULUS - 1 : n \in U16
  BY <1>1, <1>2 DEF U16
<1>4. \A n \in U16 : n # None
  BY Words, StatusNoneAssumption
<1> QED BY <1>2, <1>3, <1>4, StatusValuesAssumption

\* A payload is a sequence of bytes.
LEMMA PayloadBytes ==
  ASSUME NEW m \in GseCanMessage
  PROVE  m.id \in KnownIds /\ encode_payload(m) \in Seq(Byte)
<1> USE DEF CAN_ID_BUTTON_FROM_CTRL_PANEL, CAN_ID_MAIN_VALVE_ANGLE_TO_CTRL_PANEL,
            CAN_ID_OUTPUT_GPIO_STATUS, CAN_ID_INPUT_GPIO_STATUS, CAN_ID_INTERNAL_STATUS,
            CAN_ID_LOGGER_DATA
<1>1. \A n \in Int : low(n) \in Byte /\ high(n) \in Byte
  BY DEF low, high, Byte, U8_MAX
<1>2. CASE m \in [id : OneByteIds, bits : Byte]
  <2>1. m.id \in OneByteIds /\ m.bits \in Byte
    BY <1>2
  <2>2. encode_payload(m) = <<m.bits>>
    BY <2>1 DEF encode_payload, OneByteIds
  <2> QED BY <2>1, <2>2 DEF KnownIds
<1>3. CASE m \in [id : {CAN_ID_MAIN_VALVE_ANGLE_TO_CTRL_PANEL}, angle_x10 : I16]
  <2>1. m.id = CAN_ID_MAIN_VALVE_ANGLE_TO_CTRL_PANEL /\ m.angle_x10 \in Int
    BY <1>3, Words
  <2>2. encode_payload(m) = <<low(m.angle_x10), high(m.angle_x10)>>
    BY <2>1 DEF encode_payload
  <2> QED BY <1>1, <2>1, <2>2 DEF KnownIds
<1>4. CASE m \in [id : {CAN_ID_INTERNAL_STATUS}, phase : Byte, flags : Byte]
  <2>1. m.id = CAN_ID_INTERNAL_STATUS /\ m.phase \in Byte /\ m.flags \in Byte
    BY <1>4
  <2>2. encode_payload(m) = <<m.phase, m.flags>>
    BY <2>1 DEF encode_payload
  <2> QED BY <2>1, <2>2 DEF KnownIds
<1>5. CASE m \in [id : {CAN_ID_LOGGER_DATA}, adc0 : U16, adc2 : U16, adc3 : U16, counter : U16]
  <2>1. /\ m.id = CAN_ID_LOGGER_DATA
        /\ m.adc0 \in Int /\ m.adc2 \in Int /\ m.adc3 \in Int /\ m.counter \in Int
    BY <1>5, Words
  <2>2. encode_payload(m) = <<low(m.adc0), high(m.adc0), low(m.adc2), high(m.adc2),
                              low(m.adc3), high(m.adc3), low(m.counter), high(m.counter)>>
    BY <2>1 DEF encode_payload
  <2> HIDE DEF CAN_ID_LOGGER_DATA
  <2> QED BY <1>1, <2>1, <2>2 DEF KnownIds
<1> QED BY <1>2, <1>3, <1>4, <1>5 DEF GseCanMessage

\* The frame of a message is a frame, is accepted, and decodes to the message.
LEMMA FrameBegun ==
  ASSUME NEW m \in GseCanMessage, begin(m)
  PROVE  /\ frame' # None
         /\ frame'.id = m.id /\ frame'.id \in KnownIds
         /\ Len(frame'.data) = dlc(frame'.id)
         /\ in_flight' = m
<1>1. frame' = [id |-> m.id, data |-> encode_payload(m)]
  BY DEF begin
<1>2. frame' \in [id : KnownIds, data : Seq(Byte)]
  BY <1>1, PayloadBytes
<1>3. frame' # None
  BY <1>2, StatusNoneAssumption
<1>4. frame'.id = m.id /\ frame'.data = encode_payload(m)
  BY <1>1
<1> QED BY <1>3, <1>4, PayloadBytes, MessagesSurvive DEF in_flight

\* An angle in reach is an angle of the servo, and the one before any answer too.
LEMMA AnglesInReach ==
  ASSUME NEW angle \in ReachedAngles \cup {0}
  PROVE  angle \in Int /\ -1350 <= angle /\ angle <= 1350
<1>1. angle \in ReachedAngles \/ angle = 0
  OBVIOUS
<1> QED BY <1>1, StatusValuesAssumption

\* The angle reported is a word, and that of the last answer to a tenth of a degree.
LEMMA AngleReported ==
  ASSUME TypeOK, PositionAnswered
  PROVE  /\ position_to_angle_x10(CURRENT_POSITION) \in I16
         /\ within_a_tenth(position_to_angle_x10(CURRENT_POSITION), answered)
<1>1. answered \in Int /\ -1350 <= answered /\ answered <= 1350
  BY AnglesInReach DEF TypeOK
<1> DEFINE sent == angle_x10_to_position(answered)
<1>2. sent \in Int /\ SERVO_MIN_POS <= sent /\ sent <= SERVO_MAX_POS
  BY <1>1, PositionInRange
<1>3. CURRENT_POSITION = sent
  BY DEF PositionAnswered
<1>4. position_to_angle_x10(sent) - answered \in -1 .. 1
  BY <1>1, AngleRoundTrip
<1> HIDE DEF sent
<1>5. position_to_angle_x10(sent) \in Int
  BY <1>2 DEF position_to_angle_x10, truncate, SERVO_CENTER_POS
<1>6. position_to_angle_x10(sent) \in I16
  BY <1>1, <1>4, <1>5, Words
<1> QED BY <1>3, <1>4, <1>6 DEF within_a_tenth

-----------------------------------------------------------------------------
(* What is loaded, and what the panel gets of it.                           *)

\* The messages of the five slots are messages of the protocol, true when loaded.
LEMMA LoadedMessages ==
  ASSUME TypeOK, PositionAnswered
  PROVE  /\ LET m == [id |-> CAN_ID_OUTPUT_GPIO_STATUS, bits |-> OUTPUT_STATUS]
            IN  m \in GseCanMessage /\ told(m)
         /\ LET m == [id |-> CAN_ID_INPUT_GPIO_STATUS, bits |-> INPUT_GPIO_STATUS]
            IN  m \in GseCanMessage /\ told(m)
         /\ LET m == [id |-> CAN_ID_MAIN_VALVE_ANGLE_TO_CTRL_PANEL,
                      angle_x10 |-> position_to_angle_x10(CURRENT_POSITION)]
            IN  m \in GseCanMessage /\ told(m)
         /\ loaded # None =>
              LET m == [id |-> CAN_ID_INTERNAL_STATUS, phase |-> loaded, flags |-> FAULT_FLAGS]
              IN  m \in GseCanMessage /\ told(m)
         /\ LATEST_LOG_DATA # None =>
              LET m == [id |-> CAN_ID_LOGGER_DATA,
                        adc0 |-> LATEST_LOG_DATA.adc, adc2 |-> LATEST_LOG_DATA.adc,
                        adc3 |-> LATEST_LOG_DATA.adc, counter |-> LATEST_LOG_DATA.counter]
              IN  m \in GseCanMessage /\ told(m)
<1> USE DEF CAN_ID_BUTTON_FROM_CTRL_PANEL, CAN_ID_MAIN_VALVE_ANGLE_TO_CTRL_PANEL,
            CAN_ID_OUTPUT_GPIO_STATUS, CAN_ID_INPUT_GPIO_STATUS, CAN_ID_INTERNAL_STATUS,
            CAN_ID_LOGGER_DATA
<1>1. /\ OUTPUT_STATUS \in Byte /\ INPUT_GPIO_STATUS \in Byte /\ FAULT_FLAGS \in Byte
      /\ loaded # None => loaded \in Byte
  BY DEF TypeOK
<1>2. LATEST_LOG_DATA # None => LATEST_LOG_DATA.adc \in U16 /\ LATEST_LOG_DATA.counter \in U16
  BY StatusConstants DEF TypeOK
<1>3. LET m == [id |-> CAN_ID_OUTPUT_GPIO_STATUS, bits |-> OUTPUT_STATUS]
      IN  m \in GseCanMessage /\ told(m)
  BY <1>1 DEF GseCanMessage, OneByteIds, told, agrees
<1>4. LET m == [id |-> CAN_ID_INPUT_GPIO_STATUS, bits |-> INPUT_GPIO_STATUS]
      IN  m \in GseCanMessage /\ told(m)
  BY <1>1 DEF GseCanMessage, OneByteIds, told, agrees
<1>5. ASSUME NEW angle \in I16, within_a_tenth(angle, answered)
      PROVE  LET m == [id |-> CAN_ID_MAIN_VALVE_ANGLE_TO_CTRL_PANEL, angle_x10 |-> angle]
             IN  m \in GseCanMessage /\ told(m)
  BY <1>5 DEF GseCanMessage, told, agrees
<1>6. loaded # None =>
        LET m == [id |-> CAN_ID_INTERNAL_STATUS, phase |-> loaded, flags |-> FAULT_FLAGS]
        IN  m \in GseCanMessage /\ told(m)
  BY <1>1 DEF GseCanMessage, told
<1>7. LATEST_LOG_DATA # None =>
        LET m == [id |-> CAN_ID_LOGGER_DATA,
                  adc0 |-> LATEST_LOG_DATA.adc, adc2 |-> LATEST_LOG_DATA.adc,
                  adc3 |-> LATEST_LOG_DATA.adc, counter |-> LATEST_LOG_DATA.counter]
        IN  m \in GseCanMessage /\ told(m)
  BY <1>2 DEF GseCanMessage, told
<1> QED BY <1>3, <1>4, <1>5, <1>6, <1>7, AngleReported

\* Each load hands on a message, and the message of slot 4 is the last sample.
LEMMA LoadBegins ==
  ASSUME TypeOK, PositionAnswered, LoadStatus \/ LoadFlags \/ LoadLogger
  PROVE  \E m \in GseCanMessage :
           /\ begin(m) /\ told(m)
           /\ m.id = CAN_ID_LOGGER_DATA =>
                LATEST_LOG_DATA # None /\ m.counter = LATEST_LOG_DATA.counter
<1> USE LoadedMessages
<1> USE DEF CAN_ID_MAIN_VALVE_ANGLE_TO_CTRL_PANEL, CAN_ID_OUTPUT_GPIO_STATUS,
            CAN_ID_INPUT_GPIO_STATUS, CAN_ID_INTERNAL_STATUS, CAN_ID_LOGGER_DATA
<1>1. CASE LoadStatus
  BY <1>1 DEF LoadStatus
<1>2. CASE LoadFlags
  BY <1>2 DEF LoadFlags
<1>3. CASE LoadLogger
  BY <1>3 DEF LoadLogger, logger_due
<1> QED BY <1>1, <1>2, <1>3

\* So the frame is well formed, and the panel will decode what was loaded.
LEMMA LoadInv ==
  ASSUME FramesInv, LoadStatus \/ LoadFlags \/ LoadLogger
  PROVE  FramesInv' /\ frame' # None /\ in_flight' \in GseCanMessage /\ told(in_flight')
<1>1. TypeOK /\ PositionAnswered
  BY DEF FramesInv
<1>2. PICK m \in GseCanMessage :
        /\ begin(m) /\ told(m)
        /\ m.id = CAN_ID_LOGGER_DATA =>
             LATEST_LOG_DATA # None /\ m.counter = LATEST_LOG_DATA.counter
  BY <1>1, LoadBegins
<1>3. /\ frame' # None /\ in_flight' = m
      /\ frame'.id = m.id /\ frame'.id \in KnownIds /\ Len(frame'.data) = dlc(frame'.id)
  BY <1>2, FrameBegun
<1>4. /\ UNCHANGED <<boardVars, LATEST_LOG_DATA, tx_runtime_state, status_slot,
                     last_sent_logger_counter, panel, behind>>
      /\ loaded' \in {loaded, None}
  BY DEF LoadStatus, LoadFlags, LoadLogger
<1>5. TypeOK'
  BY <1>1, <1>3, <1>4 DEF TypeOK, boardVars, statics
<1>6. FrameDecodes'
  BY <1>3 DEF FrameDecodes
<1>7. LATEST_LOG_DATA # None => LATEST_LOG_DATA.counter \in 0 .. COUNTER_MODULUS - 1
  BY <1>1 DEF TypeOK
<1>8. SampleInFlight'
  BY <1>2, <1>3, <1>4, <1>7 DEF SampleInFlight
<1>9. SampleStillDue'
  BY <1>4 DEF FramesInv, SampleStillDue, logger_due
<1>10. PositionAnswered'
  BY <1>1, <1>4 DEF PositionAnswered, boardVars, statics
<1> QED BY <1>2, <1>3, <1>5, <1>6, <1>8, <1>9, <1>10 DEF FramesInv

\* No sample is taken for one that was sent: the slot's counter moves only to a
\* counter the panel has been given, whatever became of the frames before.
LEMMA TransmitInv == ASSUME FramesInv, TransmitOk \/ TransmitErr PROVE FramesInv'
<1>1. TypeOK /\ PositionAnswered /\ FrameDecodes /\ SampleInFlight /\ SampleStillDue
  BY DEF FramesInv
<1>2. /\ frame # None /\ frame' = None
      /\ UNCHANGED <<boardVars, LATEST_LOG_DATA, loaded>>
  BY DEF TransmitOk, TransmitErr
<1>3. in_flight \in GseCanMessage /\ in_flight.id = frame.id /\ frame.id \in KnownIds
  BY <1>1, <1>2 DEF FrameDecodes, TypeOK
<1>4. FrameDecodes' /\ SampleInFlight' /\ PositionAnswered'
  BY <1>1, <1>2 DEF FrameDecodes, SampleInFlight, PositionAnswered, boardVars, statics
<1>5. Delivered =>
        /\ panel' = in_flight
        /\ behind' = IF frame.id = CAN_ID_LOGGER_DATA
                       THEN LATEST_LOG_DATA.counter # in_flight.counter ELSE behind
  BY DEF Delivered, in_flight
<1>6. CASE TransmitOk
  <2>1. /\ tx_runtime_state' \in {tx_runtime_state, "Normal"}
        /\ status_slot' \in {status_slot, next_slot}
        /\ last_sent_logger_counter' \in
             {last_sent_logger_counter} \cup
               (IF frame.id = CAN_ID_LOGGER_DATA THEN {in_flight.counter} ELSE {})
        /\ Delivered
    BY <1>5, <1>6 DEF TransmitOk
  <2>2. next_slot \in 0 .. STATUS_FRAME_COUNT - 1
    BY <1>1 DEF next_slot, TypeOK, STATUS_FRAME_COUNT
  <2>3. last_sent_logger_counter' \in 0 .. COUNTER_MODULUS - 1 \cup {None}
    BY <1>1, <1>2, <2>1 DEF TypeOK, SampleInFlight
  <2>4. TypeOK'
    BY <1>1, <1>2, <1>3, <1>5, <2>1, <2>2, <2>3 DEF TypeOK, boardVars, statics
  <2>5. SampleStillDue'
    <3>1. CASE frame.id = CAN_ID_LOGGER_DATA
      <4>1. LATEST_LOG_DATA # None /\ (in_flight.counter # LATEST_LOG_DATA.counter => behind)
        BY <1>1, <1>2, <3>1 DEF SampleInFlight
      <4>2. last_sent_logger_counter' \in {last_sent_logger_counter, in_flight.counter}
        BY <2>1
      <4> QED
        BY <1>1, <1>2, <1>5, <2>1, <3>1, <4>1, <4>2
           DEF SampleStillDue, logger_due, logger_counter_is_new
    <3>2. CASE frame.id # CAN_ID_LOGGER_DATA
      BY <1>1, <1>2, <1>5, <2>1, <3>2 DEF SampleStillDue, logger_due
    <3> QED BY <3>1, <3>2
  <2> QED BY <1>4, <2>4, <2>5 DEF FramesInv
<1>7. CASE TransmitErr
  <2>1. /\ UNCHANGED <<status_slot, last_sent_logger_counter>>
        /\ tx_runtime_state' \in {tx_runtime_state, "SuspendedAfterTimeout"}
        /\ Delivered \/ UNCHANGED <<panel, behind>>
    BY <1>7 DEF TransmitErr
  <2>2. TypeOK'
    BY <1>1, <1>2, <1>3, <1>5, <2>1 DEF TypeOK, boardVars, statics
  <2>3. behind' => behind
    BY <1>1, <1>2, <1>5, <2>1 DEF SampleInFlight
  <2>4. SampleStillDue'
    BY <1>1, <1>2, <2>1, <2>3 DEF SampleStillDue, logger_due
  <2> QED BY <1>4, <2>2, <2>4 DEF FramesInv
<1> QED BY <1>6, <1>7

\* A sample arrives: the bound on the samples between two transmissions keeps its
\* counter apart from those the task still holds (espnow.rs 71-76).
LEMMA SampleInv == ASSUME FramesInv, NEW adc \in AdcValues, Sample(adc) PROVE FramesInv'
<1>1. TypeOK /\ PositionAnswered /\ FrameDecodes /\ SampleInFlight /\ SampleStillDue
  BY DEF FramesInv
<1>2. /\ LATEST_LOG_DATA' = [adc |-> adc, counter |-> next_counter]
      /\ behind' = TRUE /\ next_counter # last_sent_logger_counter
      /\ UNCHANGED <<boardVars, txVars, panel>>
  BY DEF Sample, counters_taken
<1>3. next_counter \in 0 .. COUNTER_MODULUS - 1
  BY <1>1, StatusConstants DEF TypeOK, next_counter
<1>4. LATEST_LOG_DATA' \in [adc : AdcValues, counter : 0 .. COUNTER_MODULUS - 1]
  BY <1>2, <1>3
<1>5. LATEST_LOG_DATA' # None
  <2>1. LATEST_LOG_DATA' \in [adc : U16, counter : U16]
    BY <1>4, StatusConstants
  <2> QED BY <2>1, StatusNoneAssumption
<1>6. TypeOK'
  BY <1>1, <1>2, <1>4 DEF TypeOK, boardVars, statics, txVars
<1>7. FrameDecodes' /\ SampleInFlight' /\ PositionAnswered'
  BY <1>1, <1>2, <1>5
     DEF FrameDecodes, SampleInFlight, PositionAnswered, in_flight, txVars, boardVars, statics
<1>8. SampleStillDue'
  BY <1>2, <1>5 DEF SampleStillDue, logger_due, logger_counter_is_new, txVars
<1> QED BY <1>6, <1>7, <1>8 DEF FramesInv

\* An answer of the servo is kept, to the position it was made from.
LEMMA AnswerInv == ASSUME FramesInv, ServoAnswers PROVE FramesInv'
<1>1. TypeOK /\ FrameDecodes /\ SampleInFlight /\ SampleStillDue
  BY DEF FramesInv
<1>2. valve \in Int
  BY <1>1, AnglesInReach DEF TypeOK
<1>3. PICK p \in Int : 0 <= p /\ p < 16384 /\ p = angle_x10_to_position(valve)
  <2>1. /\ angle_x10_to_position(valve) \in Int
        /\ SERVO_MIN_POS <= angle_x10_to_position(valve)
        /\ angle_x10_to_position(valve) <= SERVO_MAX_POS
    BY <1>2, PositionInRange
  <2> DEFINE q == angle_x10_to_position(valve)
  <2>2. q \in Int /\ 0 <= q /\ q < 16384
    BY <2>1 DEF SERVO_MIN_POS, SERVO_MAX_POS
  <2> HIDE DEF q
  <2>3. \E p \in Int : 0 <= p /\ p < 16384 /\ p = q
    BY <2>2
  <2> QED BY <2>3 DEF q
<1>4. CURRENT_POSITION' = p /\ answered' = valve
  <2>1. bytes_position(position_bytes(p)[1], position_bytes(p)[2]) = p
    BY <1>3, PositionBytes
  <2> QED BY <1>3, <2>1 DEF ServoAnswers
<1>5. PositionAnswered'
  BY <1>3, <1>4 DEF PositionAnswered
<1>6. p \in U16
  BY <1>3, Words
<1>7. TypeOK'
  BY <1>1, <1>4, <1>6 DEF ServoAnswers, TypeOK, txVars
<1>8. FrameDecodes' /\ SampleInFlight' /\ SampleStillDue'
  BY <1>1
     DEF ServoAnswers, FrameDecodes, SampleInFlight, SampleStillDue, logger_due, in_flight, txVars
<1> QED BY <1>5, <1>7, <1>8 DEF FramesInv

\* The rest of the task and the board touch neither frame nor sample.
LEMMA OtherFramesInv ==
  ASSUME FramesInv,
         \/ LoadPhase \/ SkipLogger \/ Suspend \/ HearPanel
         \/ BoardChanges \/ ValveMoves \/ UNCHANGED vars
  PROVE  FramesInv'
<1>1. TypeOK /\ PositionAnswered /\ FrameDecodes /\ SampleInFlight /\ SampleStillDue
  BY DEF FramesInv
<1>2. UNCHANGED <<LATEST_LOG_DATA, last_sent_logger_counter, frame, panel, behind>>
  BY DEF LoadPhase, SkipLogger, Suspend, HearPanel, BoardChanges, ValveMoves, vars, txVars
<1>3. FrameDecodes' /\ SampleInFlight' /\ SampleStillDue'
  BY <1>1, <1>2 DEF FrameDecodes, SampleInFlight, SampleStillDue, logger_due, in_flight
<1>4. UNCHANGED <<CURRENT_POSITION, answered>>
  BY DEF LoadPhase, SkipLogger, Suspend, HearPanel, BoardChanges, ValveMoves, vars, boardVars,
     statics
<1>5. PositionAnswered'
  BY <1>1, <1>4 DEF PositionAnswered
<1>6. next_slot \in 0 .. STATUS_FRAME_COUNT - 1
  BY <1>1 DEF next_slot, TypeOK, STATUS_FRAME_COUNT
<1>7. /\ tx_runtime_state' \in {tx_runtime_state, "SuspendedAfterTimeout", "ProbePending"}
      /\ status_slot' \in {status_slot, next_slot}
      /\ loaded' \in {loaded, SEQUENCE_PHASE}
  BY DEF LoadPhase, SkipLogger, Suspend, HearPanel, BoardChanges, ValveMoves, vars, txVars
<1>8. valve' \in ReachedAngles
  BY <1>1
     DEF LoadPhase, SkipLogger, Suspend, HearPanel, BoardChanges, ValveMoves, vars, boardVars,
         TypeOK
<1>9. CASE BoardChanges
  <2>1. /\ OUTPUT_STATUS' \in Byte /\ INPUT_GPIO_STATUS' \in Byte
        /\ SEQUENCE_PHASE' \in Byte /\ FAULT_FLAGS' \in Byte
    BY <1>1, <1>9, StatusValuesAssumption DEF BoardChanges, TypeOK
  <2> QED
    BY <1>1, <1>2, <1>3, <1>4, <1>5, <1>6, <1>7, <1>8, <2>1 DEF FramesInv, TypeOK
<1>10. CASE ~BoardChanges
  <2>1. UNCHANGED statics
    BY <1>10 DEF LoadPhase, SkipLogger, Suspend, HearPanel, ValveMoves, vars, boardVars
  <2> QED
    BY <1>1, <1>2, <1>3, <1>4, <1>5, <1>6, <1>7, <1>8, <2>1
       DEF FramesInv, TypeOK, statics
<1> QED BY <1>9, <1>10

\* The invariant is inductive.
LEMMA FramesStepInv == ASSUME FramesInv, [Next]_vars PROVE FramesInv'
<1>1. CASE LoadStatus \/ LoadFlags \/ LoadLogger
  BY <1>1, LoadInv
<1>2. CASE TransmitOk \/ TransmitErr
  BY <1>2, TransmitInv
<1>3. CASE \E adc \in AdcValues : Sample(adc)
  BY <1>3, SampleInv
<1>4. CASE ServoAnswers
  BY <1>4, AnswerInv
<1>5. CASE \/ LoadPhase \/ SkipLogger \/ Suspend \/ HearPanel
           \/ BoardChanges \/ ValveMoves \/ UNCHANGED vars
  BY <1>5, OtherFramesInv
<1> QED BY <1>1, <1>2, <1>3, <1>4, <1>5 DEF Next, Load

LEMMA FramesInitInv == Init => FramesInv
<1>1. 0 \in Byte
  BY Words
<1>2. 0 \in 0 .. STATUS_FRAME_COUNT - 1
  BY DEF STATUS_FRAME_COUNT
<1>3. Init => TypeOK
  <2>1. SERVO_CENTER_POS \in U16
    BY DEF SERVO_CENTER_POS, U16, U16_MAX
  <2> QED BY <1>1, <1>2, <2>1, Zenon DEF Init, TypeOK
<1>4. Init => FrameDecodes /\ SampleInFlight /\ SampleStillDue
  BY DEF Init, FrameDecodes, SampleInFlight, SampleStillDue
<1>5. Init => PositionAnswered
  <2>1. angle_x10_to_position(0) = SERVO_CENTER_POS
    BY DEF angle_x10_to_position, truncate, SERVO_MIN_POS, SERVO_MAX_POS, SERVO_CENTER_POS
  <2> QED BY <2>1 DEF Init, PositionAnswered
<1> QED BY <1>3, <1>4, <1>5 DEF FramesInv

\* The invariant of the status frames.
LEMMA FramesInvariance == Spec => []FramesInv
<1>1. FramesInv /\ [Next]_vars => FramesInv'
  BY FramesStepInv
<1> QED BY <1>1, FramesInitInv, PTL DEF Spec

-----------------------------------------------------------------------------
(* The theorems.                                                            *)

\* The variables keep their types: every value is within its bytes on the bus.
THEOREM FramesTypeCorrect == Spec => []TypeOK
<1>1. FramesInv => TypeOK
  BY DEF FramesInv
<1> QED BY <1>1, FramesInvariance, PTL

\* A sample the panel lacks is still to be sent, for every modulus of the counter
\* and whatever frames are lost, repeated or late (can_communication.rs 315-342).
THEOREM NoSampleSkipped == Spec => []SampleStillDue
<1>1. FramesInv => SampleStillDue
  BY DEF FramesInv
<1> QED BY <1>1, FramesInvariance, PTL

\* Every frame is one the panel accepts and tells it what the board was when it was
\* loaded, and the angle as of the servo's last answer, to a tenth of a degree, for all
\* values of the statics, every angle in the servo's reach and however long the servo
\* has not answered.
THEOREM FramesTrue == Spec => FramesTellTruth
<1>1. FramesInv /\ [Next]_vars =>
        [frame = None /\ frame' # None =>
           in_flight' \in GseCanMessage /\ told(in_flight')]_vars
  <2> SUFFICES ASSUME FramesInv, Next, frame = None, frame' # None
               PROVE  in_flight' \in GseCanMessage /\ told(in_flight')
    BY DEF vars
  <2>1. LoadStatus \/ LoadFlags \/ LoadLogger
    BY DEF Next, Load, LoadPhase, SkipLogger, TransmitOk, TransmitErr, Suspend, HearPanel,
       BoardChanges, ValveMoves, ServoAnswers, Sample, txVars
  <2> QED BY <2>1, LoadInv
<1> QED BY <1>1, FramesInvariance, PTL DEF Spec, FramesTellTruth
=============================================================================

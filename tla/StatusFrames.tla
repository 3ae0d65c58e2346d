---------------------------- MODULE StatusFrames ----------------------------
(***************************************************************************)
(* What the panel learns from the board: can_manager_task loads a status   *)
(* message in turn for each of five slots, encodes it and transmits it,    *)
(* while the values it reports go on changing on the other core            *)
(* (can_communication.rs 95-130, 289-395), and the samples of the ESP-NOW  *)
(* logger, which another task keeps in LATEST_LOG_DATA (espnow.rs).        *)
(*                                                                         *)
(* When transmission is suspended and resumed is CanManager's subject;     *)
(* here the bus and the panel decide.  The build has the espnow feature.   *)
(***************************************************************************)
EXTENDS Protocol, ServoAngles

CONSTANTS
  None,
  OutputBits, InputBits,     \* values of OUTPUT_STATUS and INPUT_GPIO_STATUS
  PhaseFlags,                \* pairs of SEQUENCE_PHASE and FAULT_FLAGS
  ReachedAngles,             \* where the valve is found, in tenths of a degree
  AdcValues,
  COUNTER_MODULUS            \* 65536: the sample counter is a u16
ASSUME StatusNoneAssumption ==
  /\ None \notin Int
  /\ None \notin [adc : U16, counter : U16]
  /\ None \notin [id : KnownIds, data : Seq(Byte)]
ASSUME StatusValuesAssumption ==
  /\ OutputBits \subseteq Byte /\ InputBits \subseteq Byte
  /\ PhaseFlags \subseteq Byte \X Byte
  /\ \A angle \in ReachedAngles : angle \in Int /\ -1350 <= angle /\ angle <= 1350
  /\ AdcValues \subseteq U16
  /\ COUNTER_MODULUS \in 2 .. U16_MAX + 1

STATUS_FRAME_COUNT == 5

VARIABLES
  OUTPUT_STATUS, INPUT_GPIO_STATUS, SEQUENCE_PHASE, FAULT_FLAGS,
  CURRENT_POSITION,          \* as the servo answered last
  valve,                     \* the angle the valve has reached
  answered,                  \* where it was at that answer; the centre before any
  LATEST_LOG_DATA,
  tx_runtime_state,
  status_slot,
  last_sent_logger_counter,
  loaded,                    \* the phase of an internal status half loaded, or None
  frame,                     \* the frame in transmission, or None
  panel,                     \* the message the panel decoded last, or None
  behind                     \* a sample was received that it does not have

statics == <<OUTPUT_STATUS, INPUT_GPIO_STATUS, SEQUENCE_PHASE, FAULT_FLAGS,
             CURRENT_POSITION, answered>>
boardVars == <<statics, valve>>
txVars == <<tx_runtime_state, status_slot, last_sent_logger_counter, loaded, frame>>
vars == <<boardVars, LATEST_LOG_DATA, txVars, panel, behind>>

TypeOK ==
  /\ OUTPUT_STATUS \in Byte /\ INPUT_GPIO_STATUS \in Byte
  /\ SEQUENCE_PHASE \in Byte /\ FAULT_FLAGS \in Byte
  /\ valve \in ReachedAngles /\ answered \in ReachedAngles \cup {0}
  /\ CURRENT_POSITION \in U16
  /\ LATEST_LOG_DATA \in [adc : AdcValues, counter : 0 .. COUNTER_MODULUS - 1] \cup {None}
  /\ tx_runtime_state \in {"Normal", "SuspendedAfterTimeout", "ProbePending"}
  /\ status_slot \in 0 .. STATUS_FRAME_COUNT - 1
  /\ last_sent_logger_counter \in 0 .. COUNTER_MODULUS - 1 \cup {None}
  /\ loaded \in Byte \cup {None}
  /\ frame = None \/ (frame.id \in KnownIds /\ Len(frame.data) = dlc(frame.id))
  /\ panel = None \/ panel.id \in KnownIds
  /\ behind \in BOOLEAN

Init ==
  /\ OUTPUT_STATUS = 0 /\ INPUT_GPIO_STATUS = 0
  /\ SEQUENCE_PHASE = 0 /\ FAULT_FLAGS = 0
  /\ valve \in ReachedAngles
  /\ CURRENT_POSITION = SERVO_CENTER_POS /\ answered = 0
  /\ LATEST_LOG_DATA = None
  /\ tx_runtime_state = "Normal"
  /\ status_slot = 0
  /\ last_sent_logger_counter = None
  /\ loaded = None /\ frame = None
  /\ panel = None /\ behind = FALSE

-----------------------------------------------------------------------------
(* A status message is loaded and its frame handed to the controller.       *)

idle == loaded = None /\ frame = None

begin(m) == frame' = [id |-> m.id, data |-> encode_payload(m)]

\* Slots 0, 1 and 2.
LoadStatus ==
  /\ idle /\ tx_runtime_state = "Normal"
  /\ \/ status_slot = 0 /\ begin([id |-> CAN_ID_OUTPUT_GPIO_STATUS, bits |-> OUTPUT_STATUS])
     \/ status_slot = 1 /\ begin([id |-> CAN_ID_INPUT_GPIO_STATUS, bits |-> INPUT_GPIO_STATUS])
     \/ /\ status_slot = 2
        /\ begin([id |-> CAN_ID_MAIN_VALVE_ANGLE_TO_CTRL_PANEL,
                  angle_x10 |-> position_to_angle_x10(CURRENT_POSITION)])
  /\ UNCHANGED <<boardVars, LATEST_LOG_DATA, tx_runtime_state, status_slot,
                 last_sent_logger_counter, loaded, panel, behind>>

\* internal_status_message, for slot 3 and for a probe: two loads.
LoadPhase ==
  /\ idle
  /\ tx_runtime_state = "ProbePending" \/ (tx_runtime_state = "Normal" /\ status_slot = 3)
  /\ loaded' = SEQUENCE_PHASE
  /\ UNCHANGED <<boardVars, LATEST_LOG_DATA, tx_runtime_state, status_slot,
                 last_sent_logger_counter, frame, panel, behind>>

LoadFlags ==
  /\ loaded # None
  /\ begin([id |-> CAN_ID_INTERNAL_STATUS, phase |-> loaded, flags |-> FAULT_FLAGS])
  /\ loaded' = None
  /\ UNCHANGED <<boardVars, LATEST_LOG_DATA, tx_runtime_state, status_slot,
                 last_sent_logger_counter, panel, behind>>

\* A slip: a counter that has wrapped looks old.
logger_counter_is_new_if_greater(last_sent, current) ==
  IF last_sent = None THEN TRUE ELSE current > last_sent

logger_counter_is_new(last_sent, current) == last_sent # current

logger_due ==
  /\ LATEST_LOG_DATA # None
  /\ logger_counter_is_new(last_sent_logger_counter, LATEST_LOG_DATA.counter)

next_slot == (status_slot + 1) % STATUS_FRAME_COUNT

\* Slot 4: nothing to send is a success too.
\* A slip: the slot waits for a sample.
SkipLogger_waits ==
  /\ idle /\ tx_runtime_state = "Normal" /\ status_slot = 4
  /\ ~logger_due
  /\ UNCHANGED vars

SkipLogger ==
  /\ idle /\ tx_runtime_state = "Normal" /\ status_slot = 4
  /\ ~logger_due
  /\ status_slot' = next_slot
  /\ UNCHANGED <<boardVars, LATEST_LOG_DATA, tx_runtime_state, last_sent_logger_counter,
                 loaded, frame, panel, behind>>

\* A slip: a sample counts as sent once it is loaded.
LoadLogger_marks_sent ==
  /\ idle /\ tx_runtime_state = "Normal" /\ status_slot = 4
  /\ logger_due
  /\ begin([id |-> CAN_ID_LOGGER_DATA,
            adc0 |-> LATEST_LOG_DATA.adc, adc2 |-> LATEST_LOG_DATA.adc,
            adc3 |-> LATEST_LOG_DATA.adc, counter |-> LATEST_LOG_DATA.counter])
  /\ last_sent_logger_counter' = LATEST_LOG_DATA.counter
  /\ UNCHANGED <<boardVars, LATEST_LOG_DATA, tx_runtime_state, status_slot, loaded, panel, behind>>

LoadLogger ==
  /\ idle /\ tx_runtime_state = "Normal" /\ status_slot = 4
  /\ logger_due
  /\ begin([id |-> CAN_ID_LOGGER_DATA,
            adc0 |-> LATEST_LOG_DATA.adc, adc2 |-> LATEST_LOG_DATA.adc,
            adc3 |-> LATEST_LOG_DATA.adc, counter |-> LATEST_LOG_DATA.counter])
  /\ UNCHANGED <<boardVars, LATEST_LOG_DATA, tx_runtime_state, status_slot,
                 last_sent_logger_counter, loaded, panel, behind>>

-----------------------------------------------------------------------------
(* How a transmission ends.                                                 *)

\* The panel decodes the frame.
Delivered ==
  /\ panel' = decode_standard(frame.id, frame.data)
  /\ behind' = IF frame.id = CAN_ID_LOGGER_DATA
                 THEN LATEST_LOG_DATA.counter # panel'.counter ELSE behind

TransmitOk ==
  /\ frame # None
  /\ Delivered
  /\ frame' = None
  /\ IF tx_runtime_state = "ProbePending"
       THEN /\ tx_runtime_state' = "Normal"
            /\ UNCHANGED <<status_slot, last_sent_logger_counter>>
       ELSE /\ status_slot' = next_slot
            /\ last_sent_logger_counter' =
                 IF frame.id = CAN_ID_LOGGER_DATA THEN panel'.counter
                 ELSE last_sent_logger_counter
            /\ UNCHANGED tx_runtime_state
  /\ UNCHANGED <<boardVars, LATEST_LOG_DATA, loaded>>

\* A frame that timed out may have been sent all the same; the slot is kept.
TransmitErr ==
  /\ frame # None
  /\ \/ UNCHANGED <<panel, behind, tx_runtime_state>>
     \/ UNCHANGED <<panel, behind>> /\ tx_runtime_state' = "SuspendedAfterTimeout"
     \/ Delivered /\ tx_runtime_state' = "SuspendedAfterTimeout"
  /\ tx_runtime_state = "ProbePending" => tx_runtime_state' = "SuspendedAfterTimeout"
  /\ frame' = None
  /\ UNCHANGED <<boardVars, LATEST_LOG_DATA, status_slot, last_sent_logger_counter, loaded>>

\* Bus-off found at a ticker or in the receive branch.
Suspend ==
  /\ idle
  /\ tx_runtime_state' = "SuspendedAfterTimeout"
  /\ UNCHANGED <<boardVars, LATEST_LOG_DATA, status_slot, last_sent_logger_counter,
                 loaded, frame, panel, behind>>

\* A button frame has been accepted.
HearPanel ==
  /\ idle /\ tx_runtime_state = "SuspendedAfterTimeout"
  /\ tx_runtime_state' = "ProbePending"
  /\ UNCHANGED <<boardVars, LATEST_LOG_DATA, status_slot, last_sent_logger_counter,
                 loaded, frame, panel, behind>>

-----------------------------------------------------------------------------
(* The tasks of core 0, the valve, and espnow_receive_task.                 *)

BoardChanges ==
  /\ \/ /\ OUTPUT_STATUS' \in OutputBits \ {OUTPUT_STATUS}
        /\ UNCHANGED <<INPUT_GPIO_STATUS, SEQUENCE_PHASE, FAULT_FLAGS>>
     \/ /\ INPUT_GPIO_STATUS' \in InputBits \ {INPUT_GPIO_STATUS}
        /\ UNCHANGED <<OUTPUT_STATUS, SEQUENCE_PHASE, FAULT_FLAGS>>
     \/ /\ \E p \in PhaseFlags : SEQUENCE_PHASE' = p[1] /\ FAULT_FLAGS' = p[2]
        /\ UNCHANGED <<OUTPUT_STATUS, INPUT_GPIO_STATUS>>
  /\ UNCHANGED <<CURRENT_POSITION, answered, valve, LATEST_LOG_DATA, txVars, panel, behind>>

\* The servo reaches what it was told, or is turned by hand.
ValveMoves ==
  /\ valve' \in ReachedAngles \ {valve}
  /\ UNCHANGED <<statics, LATEST_LOG_DATA, txVars, panel, behind>>

\* A transfer to the servo succeeds: the position in its reply is stored. A transfer
\* that fails stores none, however long the valve has been elsewhere.
ServoAnswers ==
  /\ LET sent == position_bytes(angle_x10_to_position(valve))
     IN  CURRENT_POSITION' = bytes_position(sent[1], sent[2])
  /\ answered' = valve
  /\ UNCHANGED <<OUTPUT_STATUS, INPUT_GPIO_STATUS, SEQUENCE_PHASE, FAULT_FLAGS, valve,
                 LATEST_LOG_DATA, txVars, panel, behind>>

next_counter ==
  IF LATEST_LOG_DATA = None THEN 1 ELSE (LATEST_LOG_DATA.counter + 1) % COUNTER_MODULUS

\* The counters of the last sample sent and of one in transmission.
counters_taken ==
  {last_sent_logger_counter} \cup
    IF frame # None /\ frame.id = CAN_ID_LOGGER_DATA
      THEN {decode_standard(frame.id, frame.data).counter} ELSE {}

\* A packet of the right length: the counter is the receiver's own.  It may wrap,
\* but not come round to a counter that is still taken: the bound on how many
\* samples go by between two transmissions.
Sample(adc) ==
  /\ next_counter \notin counters_taken
  /\ LATEST_LOG_DATA' = [adc |-> adc, counter |-> next_counter]
  /\ behind' = TRUE
  /\ UNCHANGED <<boardVars, txVars, panel>>

\* The ticker's branch, once due.
Load == LoadStatus \/ LoadPhase \/ LoadFlags \/ SkipLogger \/ LoadLogger

Next ==
  \/ Load \/ TransmitOk \/ TransmitErr \/ Suspend \/ HearPanel
  \/ BoardChanges \/ ValveMoves \/ ServoAnswers \/ (\E adc \in AdcValues : Sample(adc))

Spec == Init /\ [][Next]_vars

(* Of the task: the ticker comes again and again, and a transmission is     *)
(* bounded by its timeout.  Of the bus and the panel: the panel is heard,   *)
(* and among the frames that are due again and again some are begun before  *)
(* the next suspension, and some probes and status frames get through.      *)
Fairness == SF_vars(Load) /\ WF_vars(TransmitOk \/ TransmitErr)

BusFairness ==
  /\ WF_vars(HearPanel)
  /\ SF_vars(Load /\ tx_runtime_state = "Normal")
  /\ SF_vars(TransmitOk /\ tx_runtime_state = "Normal")
  /\ SF_vars(TransmitOk /\ tx_runtime_state = "ProbePending")

FairSpec == Spec /\ Fairness /\ BusFairness

-----------------------------------------------------------------------------
StatusIds == KnownIds \ {CAN_ID_BUTTON_FROM_CTRL_PANEL, CAN_ID_LOGGER_DATA}

\* An angle reported may be off by the resolution of the servo.
within_a_tenth(reported, angle) == reported - angle \in -1 .. 1

\* The board as its tasks know it, and the valve as the servo answered last.
agrees(m) ==
  CASE m.id = CAN_ID_OUTPUT_GPIO_STATUS -> m.bits = OUTPUT_STATUS
    [] m.id = CAN_ID_INPUT_GPIO_STATUS -> m.bits = INPUT_GPIO_STATUS
    [] m.id = CAN_ID_MAIN_VALVE_ANGLE_TO_CTRL_PANEL -> within_a_tenth(m.angle_x10, answered)
    [] m.id = CAN_ID_INTERNAL_STATUS -> m.phase = SEQUENCE_PHASE /\ m.flags = FAULT_FLAGS
    [] OTHER -> TRUE

\* Once the statics stay as they are, the panel is told what they hold, over and
\* over and nothing else, however many frames are lost: no slot starves another, a
\* phase and flags loaded at two moments are corrected, and the angle survives its
\* two conversions and its two encodings. That angle is the one of the servo's last
\* answer: with a servo that fails the panel may be told for ever where the valve was.
\* If the servo goes on answering it is told where the valve is
\* (can_communication.rs 97-117, 289-311, 353-358, lib.rs 309-324, servo.rs 57-80).
PanelCatchesUp ==
  <>[][FALSE]_statics =>
    /\ <>[](panel # None /\ agrees(panel))
    /\ \A id \in StatusIds : []<>(panel # None /\ panel.id = id)
    /\ <>[][FALSE]_valve /\ WF_vars(ServoAnswers) =>
         <>[](panel # None /\ panel.id = CAN_ID_MAIN_VALVE_ANGLE_TO_CTRL_PANEL =>
                within_a_tenth(panel.angle_x10, valve))

\* Once the logger falls silent the panel gets its last sample, whatever was
\* lost, repeated or skipped before and wherever the counter stands
\* (can_communication.rs 315-342, espnow.rs 71-76).
LastSampleArrives ==
  <>[][FALSE]_LATEST_LOG_DATA => <>[]~behind

-----------------------------------------------------------------------------
(* Safety: what the liveness above rests on (StatusFramesProofs).           *)

\* A sample the panel does not have is one the slot will still send: whatever was
\* lost or repeated and wherever the counter has wrapped to, no sample is taken
\* for sent that was not (can_communication.rs 315-342).
SampleStillDue == behind => logger_due

\* The frame in transmission, as the panel would decode it.
in_flight == decode_standard(frame.id, frame.data)

\* A message decoded from a frame that begins is true of the board as it is being
\* loaded: a phase as of its own load, and an angle, to a tenth of a degree, of the
\* servo's last answer.
told(m) ==
  CASE m.id = CAN_ID_INTERNAL_STATUS -> m.phase = loaded /\ m.flags = FAULT_FLAGS
    [] m.id = CAN_ID_LOGGER_DATA ->
         m.counter = LATEST_LOG_DATA.counter /\ {m.adc0, m.adc2, m.adc3} = {LATEST_LOG_DATA.adc}
    [] OTHER -> agrees(m)

\* Every frame is one the panel accepts, and tells it what was loaded: two
\* encodings and two roundings on the way and no value out of range. The angle is where
\* the valve was when the servo answered last, not where it is (can_communication.rs
\* 289-342, can/protocol.rs 44-136, lib.rs 309-324, servo.rs 57-80).
FramesTellTruth ==
  [][frame = None /\ frame' # None =>
       /\ in_flight' \in GseCanMessage
       /\ told(in_flight')]_vars

\* A frame decodes, and a sample in transmission that is no longer the last one has
\* left the panel behind.
FrameDecodes == frame # None => in_flight \in GseCanMessage /\ in_flight.id = frame.id
SampleInFlight ==
  frame # None /\ frame.id = CAN_ID_LOGGER_DATA =>
    /\ LATEST_LOG_DATA # None
    /\ in_flight.counter \in 0 .. COUNTER_MODULUS - 1
    /\ in_flight.counter # LATEST_LOG_DATA.counter => behind

\* The position kept is the one of the servo's last answer.
PositionAnswered == CURRENT_POSITION = angle_x10_to_position(answered)

FramesInv == TypeOK /\ PositionAnswered /\ FrameDecodes /\ SampleInFlight /\ SampleStillDue
=============================================================================

------------------------------ MODULE GseBoard ------------------------------
(***************************************************************************)
(* The statics of src/src/lib.rs through which the two cores of the board  *)
(* talk, and what each task promises the others about its stores to them.  *)
(*                                                                         *)
(*   core 0  supervisor_task, servo_task   (one cooperative executor)      *)
(*   core 1  can_manager_task                                              *)
(*                                                                         *)
(* Bit masks are sets of names, CAN identifiers and GPIO pins are left     *)
(* out, and an Option that is None is the constant None.  Every module of  *)
(* a task EXTENDS this one; the actions at the end are the environment of  *)
(* the tasks that do not take them.                                        *)
(***************************************************************************)
EXTENDS Integers

CONSTANTS
  None,                      \* Option::None, and ServoAction::Hold
  Frames,                    \* the operator bits of the button frames the panel sends
  RaisedCanFaults,           \* the CAN faults core 1 meets: a run may limit them
  RESET_ACK_MODULUS,         \* 256: the event counter is an AtomicU8
  \* Durations, in ticks of any length.
  IGNITION_WAIT,
  MAIN_VALVE_OPEN_DELAY,
  O2_OFF_DELAY_AFTER_VALVE_OPEN,
  RUNNING_DURATION,
  SERVO_POLL_INTERVAL,
  OPEN_LATCH_RELEASE_DELAY,
  FIRING_OPEN_SEND_MAX

VALVE_OPEN_AT == IGNITION_WAIT + MAIN_VALVE_OPEN_DELAY
FIRING_TOTAL_TIMEOUT == VALVE_OPEN_AT + RUNNING_DURATION

\* Only the difference of the two angles matters.
MAIN_VALVE_OPEN_ANGLE_X10 == -348
MAIN_VALVE_CLOSED_ANGLE_X10 == 552
Angles == {MAIN_VALVE_OPEN_ANGLE_X10, MAIN_VALVE_CLOSED_ANGLE_X10}

CanFaults ==
  {"CAN_PEER_LOST", "CAN_BUS_OFF", "CAN_TX_TIMEOUT", "CAN_TX_FRAME_CREATE_FAILED"}
\* IGNITION_TIMEOUT and POWER_ERROR are reserved: nothing raises them.
HardOutputInhibitFaults ==
  {"IGNITION_TIMEOUT", "POWER_ERROR", "CAN_TX_FRAME_CREATE_FAILED"}
ServoFaults == {"SERVO_COMM_ERROR"}
AllFaults == CanFaults \cup HardOutputInhibitFaults \cup ServoFaults
\* What a valid button frame or a reset acknowledgement may clear, at most.
ClearableCanFaults == {"CAN_PEER_LOST", "CAN_BUS_OFF", "CAN_TX_TIMEOUT"}

\* INPUT_RESET_ACK_REQUEST never reaches INPUT_FLAGS: both functions that
\* write operator flags mask it off.
OperatorActions == {"FIRE", "DUMP", "FILL", "SEPARATE", "VALVE_SET", "O2_TEST", "VALVE_OPEN"}
Link == "CAN_LINK_ACTIVE"
InputBits == OperatorActions \cup {Link}

Phases == {"Idle", "Firing", "Timeout", "Abort"}
Outputs == {"DUMP", "FILL", "SEPARATE", "O2", "IGNITER"}

ASSUME NoneAssumption == None \notin Int
ASSUME FramesAssumption == Frames \subseteq SUBSET OperatorActions
ASSUME RaisedAssumption == RaisedCanFaults \subseteq CanFaults
ASSUME CounterAssumption == RESET_ACK_MODULUS \in Nat /\ RESET_ACK_MODULUS > 1
ASSUME DurationAssumption ==
  /\ {IGNITION_WAIT, MAIN_VALVE_OPEN_DELAY, RUNNING_DURATION,
      O2_OFF_DELAY_AFTER_VALVE_OPEN, SERVO_POLL_INTERVAL,
      OPEN_LATCH_RELEASE_DELAY, FIRING_OPEN_SEND_MAX} \subseteq Nat \ {0}
  /\ O2_OFF_DELAY_AFTER_VALVE_OPEN <= RUNNING_DURATION

VARIABLES
  FAULT_FLAGS,               \* set of faults
  INPUT_FLAGS,               \* set of operator requests, and the link bit
  RESET_ACK_EVENT_COUNTER,
  SEQUENCE_PHASE,
  OUTPUT_STATUS,             \* outputs driven high (the GPIO levels are stored with it)
  SERVO_CONTROL_MODE,
  SERVO_TARGET_ANGLE_X10,
  ANGLE_COMMAND_SIGNAL       \* an angle nobody has taken yet, or None

\* Written by the tasks that feed the supervisor, and by the supervisor.
inputVars == <<FAULT_FLAGS, INPUT_FLAGS, RESET_ACK_EVENT_COUNTER>>
outputVars == <<SEQUENCE_PHASE, OUTPUT_STATUS, SERVO_CONTROL_MODE,
                SERVO_TARGET_ANGLE_X10, ANGLE_COMMAND_SIGNAL>>
sharedVars == <<inputVars, outputVars>>

SharedTypeOK ==
  /\ FAULT_FLAGS \subseteq AllFaults
  /\ INPUT_FLAGS \subseteq InputBits
  /\ RESET_ACK_EVENT_COUNTER \in 0 .. RESET_ACK_MODULUS - 1
  /\ SEQUENCE_PHASE \in Phases
  /\ OUTPUT_STATUS \subseteq Outputs
  /\ SERVO_CONTROL_MODE \in {"HOLD", "COMMAND"}
  /\ SERVO_TARGET_ANGLE_X10 \in Angles
  /\ ANGLE_COMMAND_SIGNAL \in Angles \cup {None}

SharedInit ==
  /\ FAULT_FLAGS = {}
  /\ INPUT_FLAGS = {}
  /\ RESET_ACK_EVENT_COUNTER = 0
  /\ SEQUENCE_PHASE = "Idle"
  /\ OUTPUT_STATUS = {}
  /\ SERVO_CONTROL_MODE = "HOLD"
  /\ SERVO_TARGET_ANGLE_X10 = MAIN_VALVE_CLOSED_ANGLE_X10
  /\ ANGLE_COMMAND_SIGNAL = None

-----------------------------------------------------------------------------
(* The atomic updates of lib.rs.                                            *)

set_fault_flags(flags) == FAULT_FLAGS' = FAULT_FLAGS \cup flags
clear_fault_flags(flags) == FAULT_FLAGS' = FAULT_FLAGS \ flags

replace_operator_input_flags(requests) ==
  INPUT_FLAGS' = (INPUT_FLAGS \cap {Link}) \cup requests
replace_operator_input_flags_and_set_can_link_active(requests) ==
  INPUT_FLAGS' = {Link} \cup requests

\* A slip: a counter wider than the one the supervisor compares.
signal_reset_ack_event_wide == RESET_ACK_EVENT_COUNTER' = RESET_ACK_EVENT_COUNTER + 1

signal_reset_ack_event ==
  RESET_ACK_EVENT_COUNTER' = (RESET_ACK_EVENT_COUNTER + 1) % RESET_ACK_MODULUS

-----------------------------------------------------------------------------
(* resolve_control: what the phase, the faults and the link let through of  *)
(* an intent [on |-> outputs, servo |-> angle or None].                     *)

hard_output_inhibited(faults) == faults \cap HardOutputInhibitFaults # {}
operator_input_available(flags) == Link \in flags

allow_new_ignition(phase, faults, flags) ==
  phase = "Idle" /\ operator_input_available(flags) /\ faults = {}

permitted_outputs(phase, faults) ==
  {"DUMP", "O2"} \cup
    (IF phase # "Firing" THEN {"FILL", "SEPARATE"}
     ELSE IF faults = {} THEN {"IGNITER"} ELSE {})

servo_allowed(phase, faults) ==
  /\ phase # "Abort"
  /\ faults \cap ServoFaults = {}
  /\ phase = "Firing" => faults = {}

\* Slips of resolve_control: it trusts a dead link, or only the link.
resolve_control_without_link(phase, faults, flags, intent) ==
  IF ~hard_output_inhibited(faults)
    THEN [on    |-> intent.on \cap permitted_outputs(phase, faults),
          servo |-> IF servo_allowed(phase, faults) THEN intent.servo ELSE None]
    ELSE [on |-> {}, servo |-> None]
resolve_control_without_inhibit(phase, faults, flags, intent) ==
  IF operator_input_available(flags)
    THEN [on    |-> intent.on \cap permitted_outputs(phase, faults),
          servo |-> IF servo_allowed(phase, faults) THEN intent.servo ELSE None]
    ELSE [on |-> {}, servo |-> None]

resolve_control(phase, faults, flags, intent) ==
  IF operator_input_available(flags) /\ ~hard_output_inhibited(faults)
    THEN [on    |-> intent.on \cap permitted_outputs(phase, faults),
          servo |-> IF servo_allowed(phase, faults) THEN intent.servo ELSE None]
    ELSE [on |-> {}, servo |-> None]

-----------------------------------------------------------------------------
(* What can_manager_task stores, one atomic at a time.  A CAN fault is      *)
(* raised after the inputs have been withdrawn; a frame restores the link   *)
(* with its requests and then clears what it proves recovered; a reset      *)
(* acknowledgement is counted only for a frame without requests.            *)

ButtonFrame(b) ==
  /\ replace_operator_input_flags_and_set_can_link_active(b)
  /\ UNCHANGED <<FAULT_FLAGS, RESET_ACK_EVENT_COUNTER, outputVars>>

DropLink ==
  /\ Link \in INPUT_FLAGS
  /\ INPUT_FLAGS' = INPUT_FLAGS \ {Link}
  /\ UNCHANGED <<FAULT_FLAGS, RESET_ACK_EVENT_COUNTER, outputVars>>

DropCommands ==
  /\ Link \notin INPUT_FLAGS
  /\ replace_operator_input_flags({})
  /\ UNCHANGED <<FAULT_FLAGS, RESET_ACK_EVENT_COUNTER, outputVars>>

RaiseCanFault(f) ==
  /\ INPUT_FLAGS = {}
  /\ set_fault_flags({f})
  /\ UNCHANGED <<INPUT_FLAGS, RESET_ACK_EVENT_COUNTER, outputVars>>

ClearCanFaults(fs) ==
  /\ Link \in INPUT_FLAGS
  /\ clear_fault_flags(fs)
  /\ UNCHANGED <<INPUT_FLAGS, RESET_ACK_EVENT_COUNTER, outputVars>>

SignalResetAck ==
  /\ INPUT_FLAGS = {Link}
  /\ signal_reset_ack_event
  /\ UNCHANGED <<FAULT_FLAGS, INPUT_FLAGS, outputVars>>

CanStep ==
  \/ \E b \in Frames : ButtonFrame(b)
  \/ DropLink
  \/ DropCommands
  \/ \E f \in RaisedCanFaults : RaiseCanFault(f)
  \/ \E fs \in SUBSET ClearableCanFaults : ClearCanFaults(fs)
  \/ SignalResetAck

(* What servo_task does to the statics, only while the supervisor awaits.   *)

TakeAngleCommand ==
  /\ ANGLE_COMMAND_SIGNAL # None
  /\ ANGLE_COMMAND_SIGNAL' = None
  /\ UNCHANGED <<inputVars, SEQUENCE_PHASE, OUTPUT_STATUS, SERVO_CONTROL_MODE,
                 SERVO_TARGET_ANGLE_X10>>

RaiseServoFault ==
  /\ set_fault_flags(ServoFaults)
  /\ UNCHANGED <<INPUT_FLAGS, RESET_ACK_EVENT_COUNTER, outputVars>>

ClearServoFault ==
  /\ clear_fault_flags(ServoFaults)
  /\ UNCHANGED <<INPUT_FLAGS, RESET_ACK_EVENT_COUNTER, outputVars>>

ServoStep == TakeAngleCommand \/ RaiseServoFault \/ ClearServoFault
=============================================================================

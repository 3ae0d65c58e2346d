----------------------------- MODULE ServoTask ------------------------------
(***************************************************************************)
(* servo_task of src/src/tasks/servo.rs: it sends the angle the supervisor *)
(* signals, asks for the position when there is none for a while, and      *)
(* turns consecutive failures into SERVO_COMM_ERROR.                       *)
(*                                                                         *)
(* It shares the executor of core 0 with the supervisor, so what it does   *)
(* between two awaits is one action.  A transfer (krs_servo.rs) awaits its *)
(* reply up to 100 ms; only its outcome matters here.                      *)
(***************************************************************************)
EXTENDS GseBoard

CONSTANTS
  SERVO_COMM_ERROR_LIMIT,
  ERROR_COUNT_MAX,           \* 255: the count is an AtomicU8
  GetPosition                \* the transfer that asks for the position

VARIABLES
  SERVO_COMM_ERROR_COUNT,
  transfer                   \* the angle being set, GetPosition, or None at the select

servoVars == <<SERVO_COMM_ERROR_COUNT, transfer>>
vars == <<sharedVars, servoVars>>

TypeOK ==
  /\ SharedTypeOK
  /\ SERVO_COMM_ERROR_COUNT \in 0 .. ERROR_COUNT_MAX
  /\ transfer \in Angles \cup {GetPosition, None}

TaskInit == SERVO_COMM_ERROR_COUNT = 0 /\ transfer = None
Init == SharedInit /\ TaskInit

\* Slips: the count wraps, or outgrows its byte.
wrapping_add(count) == IF count < ERROR_COUNT_MAX THEN count + 1 ELSE 0
widening_add(count) == count + 1

saturating_add(count) == IF count < ERROR_COUNT_MAX THEN count + 1 ELSE ERROR_COUNT_MAX

servo_fault_active(count) == count >= SERVO_COMM_ERROR_LIMIT
servo_fault_raised(count) == count = SERVO_COMM_ERROR_LIMIT

-----------------------------------------------------------------------------
\* A slip: an angle is sent whatever the mode.
TakeCommand_in_any_mode ==
  /\ transfer = None
  /\ ANGLE_COMMAND_SIGNAL # None
  /\ ANGLE_COMMAND_SIGNAL' = None
  /\ transfer' = ANGLE_COMMAND_SIGNAL
  /\ UNCHANGED <<inputVars, SEQUENCE_PHASE, OUTPUT_STATUS, SERVO_CONTROL_MODE,
                 SERVO_TARGET_ANGLE_X10, SERVO_COMM_ERROR_COUNT>>

\* A signalled angle goes out if the supervisor still commands the servo.
TakeCommand ==
  /\ transfer = None
  /\ ANGLE_COMMAND_SIGNAL # None
  /\ ANGLE_COMMAND_SIGNAL' = None
  /\ transfer' = IF SERVO_CONTROL_MODE = "COMMAND" THEN ANGLE_COMMAND_SIGNAL ELSE None
  /\ UNCHANGED <<inputVars, SEQUENCE_PHASE, OUTPUT_STATUS, SERVO_CONTROL_MODE,
                 SERVO_TARGET_ANGLE_X10, SERVO_COMM_ERROR_COUNT>>

\* The select prefers the signal to the timer.
PollPosition ==
  /\ transfer = None
  /\ ANGLE_COMMAND_SIGNAL = None
  /\ transfer' = GetPosition
  /\ UNCHANGED <<sharedVars, SERVO_COMM_ERROR_COUNT>>

TransferOk ==
  /\ transfer # None
  /\ transfer' = None
  /\ SERVO_COMM_ERROR_COUNT' = 0
  /\ IF servo_fault_active(SERVO_COMM_ERROR_COUNT)
       THEN clear_fault_flags(ServoFaults)
       ELSE UNCHANGED FAULT_FLAGS
  /\ UNCHANGED <<INPUT_FLAGS, RESET_ACK_EVENT_COUNTER, outputVars>>

\* A slip: a failed poll does not count.
TransferErr_commands_only ==
  /\ transfer # None
  /\ transfer' = None
  /\ SERVO_COMM_ERROR_COUNT' = IF transfer \in Angles THEN saturating_add(SERVO_COMM_ERROR_COUNT)
                                                      ELSE SERVO_COMM_ERROR_COUNT
  /\ IF transfer \in Angles /\ servo_fault_raised(SERVO_COMM_ERROR_COUNT')
       THEN set_fault_flags(ServoFaults)
       ELSE UNCHANGED FAULT_FLAGS
  /\ UNCHANGED <<INPUT_FLAGS, RESET_ACK_EVENT_COUNTER, outputVars>>

TransferErr ==
  /\ transfer # None
  /\ transfer' = None
  /\ SERVO_COMM_ERROR_COUNT' = saturating_add(SERVO_COMM_ERROR_COUNT)
  /\ IF servo_fault_raised(SERVO_COMM_ERROR_COUNT')
       THEN set_fault_flags(ServoFaults)
       ELSE UNCHANGED FAULT_FLAGS
  /\ UNCHANGED <<INPUT_FLAGS, RESET_ACK_EVENT_COUNTER, outputVars>>

Task == TakeCommand \/ PollPosition \/ TransferOk \/ TransferErr

FaultIffLimit ==
  "SERVO_COMM_ERROR" \in FAULT_FLAGS <=> servo_fault_active(SERVO_COMM_ERROR_COUNT)
=============================================================================

----------------------------- MODULE Supervisor -----------------------------
(***************************************************************************)
(* supervisor_task of src/src/tasks/supervisor.rs: the loop that turns     *)
(* inputs and faults into a firing sequence, output levels and servo       *)
(* commands.  One iteration is cut at every load of a static another core  *)
(* writes, because can_manager_task may store between any two of them;     *)
(* servo_task shares the supervisor's executor and runs only while the     *)
(* supervisor awaits its ticker.                                           *)
(*                                                                         *)
(* The code reads the clock once an iteration (line 88).  Wake(d) lets d   *)
(* ticks pass since the previous reading: timestamps are ages as of the    *)
(* last Wake.  An iteration is started by the 10 ms ticker or by           *)
(* CONTROL_UPDATE_SIGNAL, so any d, 0 included, is possible.               *)
(***************************************************************************)
EXTENDS ServoControl

CONSTANT Delays              \* ticks that may separate two iterations
ASSUME DelaysAssumption == Delays \subseteq Nat

VARIABLES
  pc,                        \* the next load, or "wait" at the select
  inputs, faults,            \* the locals of the same name
  previous_reset_ack_event,
  firing_started_at,         \* age of the firing, or None
  abort_before_firing,
  servo_abort_latched,
  servo_command_state

localVars == <<pc, inputs, faults, previous_reset_ack_event,
               firing_started_at, abort_before_firing, servo_abort_latched,
               servo_command_state>>
vars == <<sharedVars, localVars>>

PcLabels ==
  {"wait", "load_faults", "load_reset_ack", "inhibit", "reset_ack", "recover", "handle", "apply"}

TypeOK ==
  /\ SharedTypeOK
  /\ pc \in PcLabels
  /\ inputs \subseteq InputBits
  /\ faults \subseteq AllFaults
  /\ previous_reset_ack_event \in 0 .. RESET_ACK_MODULUS - 1
  /\ firing_started_at \in Ages(FIRING_TOTAL_TIMEOUT)
  /\ abort_before_firing \in BOOLEAN
  /\ servo_abort_latched \in BOOLEAN
  /\ servo_command_state \in ServoCommandStates

Init ==
  /\ SharedInit
  /\ pc = "wait"
  /\ inputs = {} /\ faults = {}
  /\ previous_reset_ack_event = RESET_ACK_EVENT_COUNTER
  /\ firing_started_at = None
  /\ abort_before_firing = FALSE
  /\ servo_abort_latched = FALSE
  /\ servo_command_state = new

-----------------------------------------------------------------------------
(* Predicates of the code, by their names.                                  *)

\* A slip: only a lost peer counts.
has_active_can_input_fault_peer_only ==
  "CAN_PEER_LOST" \in faults /\ Link \notin inputs

has_active_can_input_fault ==
  faults \cap CanFaults # {} /\ Link \notin inputs

\* A slip: a servo fault does not end a firing.
has_firing_fault_not_servo(fs) == fs \ ServoFaults # {} /\ SEQUENCE_PHASE = "Firing"

has_firing_fault(fs) == fs # {} /\ SEQUENCE_PHASE = "Firing"

\* A slip: the link bit is taken for a request.
neutral_and_healthy_link_counted(fs) ==
  fs = {} /\ SEQUENCE_PHASE = "Abort" /\ inputs = {}

\* Common to both ways back from Abort: no fault, link up, no request held.
neutral_and_healthy(fs) ==
  fs = {} /\ SEQUENCE_PHASE = "Abort" /\ inputs = {Link}

\* A slip: a reset acknowledgement also undoes a servo abort.
reset_ack_allows_idle_after_servo(fs) == neutral_and_healthy(fs)

reset_ack_allows_idle(fs) == neutral_and_healthy(fs) /\ ~servo_abort_latched
pre_firing_recovery_allows_idle(fs) == neutral_and_healthy(fs) /\ abort_before_firing

\* set_sequence_phase and the observe_phase_transition that follows it:
\* previous_phase equals SEQUENCE_PHASE between two stores.
set_sequence_phase(phase) ==
  /\ SEQUENCE_PHASE' = phase
  /\ servo_command_state' =
       IF phase # SEQUENCE_PHASE THEN on_phase_transition(servo_command_state, phase)
                                 ELSE servo_command_state

\* A slip: an abort after Timeout counts as one before firing.
enter_abort_not_firing ==
  /\ set_sequence_phase("Abort")
  /\ abort_before_firing' = IF SEQUENCE_PHASE = "Abort" THEN abort_before_firing
                                                        ELSE SEQUENCE_PHASE # "Firing"

enter_abort ==
  /\ set_sequence_phase("Abort")
  /\ abort_before_firing' = IF SEQUENCE_PHASE = "Abort" THEN abort_before_firing
                                                        ELSE SEQUENCE_PHASE = "Idle"

return_to_idle ==
  /\ set_sequence_phase("Idle")
  /\ abort_before_firing' = FALSE
  /\ firing_started_at' = None

\* A slip: Hold leaves the servo in the mode it had.
apply_decision_keeps_mode(on, action, signal) ==
  /\ OUTPUT_STATUS' = on
  /\ SERVO_CONTROL_MODE' = IF action = None THEN SERVO_CONTROL_MODE ELSE "COMMAND"
  /\ SERVO_TARGET_ANGLE_X10' = IF action = None THEN SERVO_TARGET_ANGLE_X10 ELSE action
  /\ ANGLE_COMMAND_SIGNAL' = IF signal = None THEN ANGLE_COMMAND_SIGNAL ELSE signal

\* GPIO levels and OUTPUT_STATUS, the servo mode and target, the angle signal.
apply_decision(on, action, signal) ==
  /\ OUTPUT_STATUS' = on
  /\ SERVO_CONTROL_MODE' = IF action = None THEN "HOLD" ELSE "COMMAND"
  /\ SERVO_TARGET_ANGLE_X10' = IF action = None THEN SERVO_TARGET_ANGLE_X10 ELSE action
  /\ ANGLE_COMMAND_SIGNAL' = IF signal = None THEN ANGLE_COMMAND_SIGNAL ELSE signal

force_safe_outputs == apply_decision({}, None, None)

\* The end of an iteration; its locals are dead.
await_next ==
  pc' = "wait" /\ inputs' = {} /\ faults' = {}

-----------------------------------------------------------------------------
(* What each phase asks for (an intent), from the inputs loaded at Wake.    *)

requested_outputs ==
  ({"DUMP", "FILL", "SEPARATE"} \cap inputs) \cup (IF "O2_TEST" \in inputs THEN {"O2"} ELSE {})

apply_manual_outputs(fire_means_main_valve_open) ==
  [on    |-> requested_outputs,
   servo |-> IF "VALVE_SET" \in inputs THEN MAIN_VALVE_CLOSED_ANGLE_X10
             ELSE IF \/ "VALVE_OPEN" \in inputs
                     \/ fire_means_main_valve_open /\ "FIRE" \in inputs
               THEN MAIN_VALVE_OPEN_ANGLE_X10
             ELSE None]

\* A slip: the igniter is left on when the valve opens.
apply_firing_sequence_outputs_igniter_on(age) ==
  [on    |-> ({"DUMP"} \cap inputs)
               \cup (IF age < VALVE_OPEN_AT + O2_OFF_DELAY_AFTER_VALVE_OPEN
                       THEN {"O2"} ELSE {})
               \cup (IF IGNITION_WAIT <= age THEN {"IGNITER"} ELSE {}),
   servo |-> IF age >= VALVE_OPEN_AT THEN MAIN_VALVE_OPEN_ANGLE_X10 ELSE None]

apply_firing_sequence_outputs(age) ==
  [on    |-> ({"DUMP"} \cap inputs)
               \cup (IF age < VALVE_OPEN_AT + O2_OFF_DELAY_AFTER_VALVE_OPEN
                       THEN {"O2"} ELSE {})
               \cup (IF IGNITION_WAIT <= age /\ age < VALVE_OPEN_AT
                       THEN {"IGNITER"} ELSE {}),
   servo |-> IF age >= VALVE_OPEN_AT THEN MAIN_VALVE_OPEN_ANGLE_X10 ELSE None]

intent == IF SEQUENCE_PHASE = "Firing"
            THEN apply_firing_sequence_outputs(firing_started_at)
            ELSE apply_manual_outputs(SEQUENCE_PHASE # "Idle")

firing_open_phase == SEQUENCE_PHASE = "Firing" /\ firing_started_at >= VALVE_OPEN_AT

-----------------------------------------------------------------------------
(* The steps of one iteration.                                              *)

\* Lines 84-92.
Wake(d) ==
  /\ pc = "wait"
  /\ pc' = "load_faults"
  /\ servo_command_state' = update_latch_release(aged(servo_command_state, d))
  /\ firing_started_at' = older(firing_started_at, d, FIRING_TOTAL_TIMEOUT)
  /\ inputs' = INPUT_FLAGS
  /\ UNCHANGED <<sharedVars, faults, previous_reset_ack_event,
                 abort_before_firing, servo_abort_latched>>

\* Line 93.
LoadFaults ==
  /\ pc = "load_faults"
  /\ pc' = "load_reset_ack"
  /\ faults' = FAULT_FLAGS
  /\ UNCHANGED <<sharedVars, inputs, previous_reset_ack_event,
                 firing_started_at, abort_before_firing, servo_abort_latched,
                 servo_command_state>>

\* A slip: a servo fault in any phase latches the servo abort.
LoadResetAck_latch_in_any_phase ==
  /\ pc = "load_reset_ack"
  /\ previous_reset_ack_event' = RESET_ACK_EVENT_COUNTER
  /\ servo_abort_latched' = (servo_abort_latched \/ "SERVO_COMM_ERROR" \in faults)
  /\ pc' = IF has_active_can_input_fault THEN "inhibit"
           ELSE IF RESET_ACK_EVENT_COUNTER # previous_reset_ack_event THEN "reset_ack"
           ELSE "recover"
  /\ UNCHANGED <<sharedVars, inputs, faults, firing_started_at, abort_before_firing,
                 servo_command_state>>

\* Lines 94-102 and the test of 120.
LoadResetAck ==
  /\ pc = "load_reset_ack"
  /\ previous_reset_ack_event' = RESET_ACK_EVENT_COUNTER
  /\ servo_abort_latched' =
       (servo_abort_latched \/ (has_firing_fault(faults) /\ "SERVO_COMM_ERROR" \in faults))
  /\ pc' = IF has_active_can_input_fault THEN "inhibit"
           ELSE IF RESET_ACK_EVENT_COUNTER # previous_reset_ack_event THEN "reset_ack"
           ELSE "recover"
  /\ UNCHANGED <<sharedVars, inputs, faults, firing_started_at, abort_before_firing,
                 servo_command_state>>

\* Lines 102-118: a CAN fault without the link.
InhibitInputs ==
  /\ pc = "inhibit"
  /\ replace_operator_input_flags({})
  /\ enter_abort
  /\ firing_started_at' = None
  /\ force_safe_outputs
  /\ await_next
  /\ UNCHANGED <<FAULT_FLAGS, RESET_ACK_EVENT_COUNTER, previous_reset_ack_event,
                 servo_abort_latched>>

\* Lines 120-131: an acknowledged reset, if nothing forbids it.
ReturnToIdleAfterResetAck ==
  /\ pc = "reset_ack"
  /\ pc' = "recover"
  /\ faults' = FAULT_FLAGS
  /\ IF reset_ack_allows_idle(FAULT_FLAGS)
       THEN return_to_idle
       ELSE UNCHANGED <<SEQUENCE_PHASE, servo_command_state, abort_before_firing,
                        firing_started_at>>
  /\ UNCHANGED <<inputVars, OUTPUT_STATUS, SERVO_CONTROL_MODE, SERVO_TARGET_ANGLE_X10,
                 ANGLE_COMMAND_SIGNAL, inputs, previous_reset_ack_event,
                 servo_abort_latched>>

\* Lines 133-140: an abort that began in Idle needs no reset.
ReturnToIdleAfterPreFiringRecovery ==
  /\ pc = "recover"
  /\ pc' = "handle"
  /\ faults' = FAULT_FLAGS
  /\ IF pre_firing_recovery_allows_idle(FAULT_FLAGS)
       THEN return_to_idle
       ELSE UNCHANGED <<SEQUENCE_PHASE, servo_command_state, abort_before_firing,
                        firing_started_at>>
  /\ UNCHANGED <<inputVars, OUTPUT_STATUS, SERVO_CONTROL_MODE, SERVO_TARGET_ANGLE_X10,
                 ANGLE_COMMAND_SIGNAL, inputs, previous_reset_ack_event,
                 servo_abort_latched>>

\* Lines 142-157: any fault ends a firing.
AbortFiring ==
  /\ pc = "handle"
  /\ has_firing_fault(faults)
  /\ enter_abort
  /\ firing_started_at' = None
  /\ force_safe_outputs
  /\ await_next
  /\ UNCHANGED <<inputVars, previous_reset_ack_event, servo_abort_latched>>

\* A phase handler has run; line 183 reloads the faults.
handled ==
  /\ pc = "handle"
  /\ ~has_firing_fault(faults)
  /\ pc' = "apply"
  /\ faults' = FAULT_FLAGS
  /\ UNCHANGED <<inputVars, OUTPUT_STATUS, SERVO_CONTROL_MODE, SERVO_TARGET_ANGLE_X10,
                 ANGLE_COMMAND_SIGNAL, inputs, previous_reset_ack_event,
                 servo_abort_latched>>

\* A slip: a firing may start while the valve is still latched open.
start_permission_while_latched ==
  allow_new_ignition(SEQUENCE_PHASE, faults, inputs) /\ "FIRE" \in inputs

start_permission ==
  /\ allow_new_ignition(SEQUENCE_PHASE, faults, inputs)
  /\ can_start_firing(servo_command_state)
  /\ "FIRE" \in inputs

StartFiring ==
  /\ handled
  /\ start_permission
  /\ set_sequence_phase("Firing")
  /\ abort_before_firing' = FALSE
  /\ firing_started_at' = 0

StayIdle ==
  /\ handled
  /\ SEQUENCE_PHASE = "Idle" /\ ~start_permission
  /\ firing_started_at' = None
  /\ UNCHANGED <<SEQUENCE_PHASE, servo_command_state, abort_before_firing>>

\* get_or_insert(now): a firing without a start starts now.
ContinueFiring ==
  /\ handled
  /\ SEQUENCE_PHASE = "Firing" /\ ~elapsed(firing_started_at, FIRING_TOTAL_TIMEOUT)
  /\ firing_started_at' = IF firing_started_at = None THEN 0 ELSE firing_started_at
  /\ UNCHANGED <<SEQUENCE_PHASE, servo_command_state, abort_before_firing>>

\* A slip: a finished firing keeps its start time.
FinishFiring_keeps_start ==
  /\ handled
  /\ SEQUENCE_PHASE = "Firing" /\ elapsed(firing_started_at, FIRING_TOTAL_TIMEOUT)
  /\ set_sequence_phase("Timeout")
  /\ UNCHANGED <<firing_started_at, abort_before_firing>>

FinishFiring ==
  /\ handled
  /\ SEQUENCE_PHASE = "Firing" /\ elapsed(firing_started_at, FIRING_TOTAL_TIMEOUT)
  /\ set_sequence_phase("Timeout")
  /\ firing_started_at' = None
  /\ UNCHANGED abort_before_firing

HoldTimeout ==
  /\ handled
  /\ SEQUENCE_PHASE = "Timeout"
  /\ firing_started_at' = None
  /\ abort_before_firing' = FALSE
  /\ UNCHANGED <<SEQUENCE_PHASE, servo_command_state>>

HoldAbort ==
  /\ handled
  /\ SEQUENCE_PHASE = "Abort"
  /\ firing_started_at' = None
  /\ UNCHANGED <<SEQUENCE_PHASE, servo_command_state, abort_before_firing>>

HandlePhase ==
  StartFiring \/ StayIdle \/ ContinueFiring \/ FinishFiring \/ HoldTimeout \/ HoldAbort

\* Lines 181-213, with the inputs reloaded by line 184.
decision == resolve_control(SEQUENCE_PHASE, faults, INPUT_FLAGS, intent)
dispatch == schedule(servo_command_state, SEQUENCE_PHASE, firing_open_phase, decision.servo)

ApplyDecision ==
  /\ pc = "apply"
  /\ servo_command_state' = dispatch.state
  /\ apply_decision(decision.on, dispatch.action, dispatch.signal)
  /\ await_next
  /\ UNCHANGED <<inputVars, SEQUENCE_PHASE, previous_reset_ack_event, firing_started_at,
                 abort_before_firing, servo_abort_latched>>

\* Every step of an iteration after its first.
Work ==
  \/ LoadFaults \/ LoadResetAck \/ InhibitInputs
  \/ ReturnToIdleAfterResetAck \/ ReturnToIdleAfterPreFiringRecovery
  \/ AbortFiring \/ HandlePhase \/ ApplyDecision

Iteration == (\E d \in Delays : Wake(d)) \/ Work

-----------------------------------------------------------------------------
Environment ==
  /\ CanStep \/ (pc = "wait" /\ ServoStep)
  /\ UNCHANGED localVars

Next == Iteration \/ Environment

Spec == Init /\ [][Next]_vars

(* The ticker keeps starting iterations and each runs to its end, whatever  *)
(* the other core does; and the clock advances, so it is not always the     *)
(* signal that wakes the task within the same tick.                         *)
TimePasses == \E d \in Delays \ {0} : Wake(d)

Fairness == WF_vars(Iteration) /\ SF_vars(TimePasses)

FairSpec == Spec /\ Fairness

-----------------------------------------------------------------------------
(* Safety.                                                                  *)

awaiting == pc = "wait"

\* Between iterations the igniter is driven only in its window of a running
\* firing (supervisor.rs 300-316), and while it is, the valve is neither
\* latched open nor commanded and no fill or separate output is on.
IgniterOnlyInWindow ==
  awaiting /\ "IGNITER" \in OUTPUT_STATUS =>
    /\ SEQUENCE_PHASE = "Firing"
    /\ elapsed(firing_started_at, IGNITION_WAIT)
    /\ ~elapsed(firing_started_at, VALVE_OPEN_AT)
    /\ SERVO_CONTROL_MODE = "HOLD"
    /\ ~servo_command_state.open_latched
    /\ OUTPUT_STATUS \cap {"FILL", "SEPARATE"} = {}

\* The open latch of servo_control.rs can always be undone: its release timer
\* runs exactly while the valve is latched outside Firing, whatever path
\* (timeout, fault abort, CAN abort, recovery) led there.
LatchReleasable ==
  (servo_command_state.open_latch_release_started # None) <=>
    (servo_command_state.open_latched /\ SEQUENCE_PHASE # "Firing")

\* Once a firing has begun to open the valve, nothing commands it elsewhere
\* before the firing ends: a servo command during Firing is OPEN, latched.
FiringOnlyOpensValve ==
  awaiting /\ SEQUENCE_PHASE = "Firing" /\ SERVO_CONTROL_MODE = "COMMAND" =>
    /\ servo_command_state.open_latched
    /\ elapsed(firing_started_at, VALVE_OPEN_AT)
    /\ SERVO_TARGET_ANGLE_X10 = MAIN_VALVE_OPEN_ANGLE_X10

\* servo_task takes an angle while the supervisor awaits and sends it if the
\* mode is COMMAND (servo.rs 43-52): then it is the current target, never one
\* left over from an earlier command that was held or overridden.
NoStaleAngle ==
  awaiting /\ SERVO_CONTROL_MODE = "COMMAND" /\ ANGLE_COMMAND_SIGNAL # None =>
    ANGLE_COMMAND_SIGNAL = SERVO_TARGET_ANGLE_X10

\* A servo fault seen during a firing has ended it by the end of the iteration,
\* although servo_abort_latched is set (line 98) before the faults are loaded
\* again (line 133).
ServoFaultAborts ==
  awaiting /\ servo_abort_latched => SEQUENCE_PHASE = "Abort" /\ ~abort_before_firing

\* ... and neither way out of Abort is open after it: only a reboot is
\* (supervisor.rs 359-398).
ServoAbortIsFinal ==
  [][servo_abort_latched /\ SEQUENCE_PHASE = "Abort" => SEQUENCE_PHASE' = "Abort"]_vars

-----------------------------------------------------------------------------
(* Why the safety properties hold: together these parts are inductive       *)
(* (SupervisorProofs).                                                      *)

\* A firing is timed, and nothing else is.
FiringTimed == (SEQUENCE_PHASE = "Firing") <=> (firing_started_at # None)

\* An unlatched valve has no send history, and a firing latches it only from
\* its valve-open time on.
LatchFresh ==
  /\ consistent(servo_command_state)
  /\ SEQUENCE_PHASE = "Firing" /\ servo_command_state.open_latched =>
       firing_started_at >= VALVE_OPEN_AT

\* The igniter outlives its phase only until the decision of that iteration.
IgniterPhase ==
  "IGNITER" \in OUTPUT_STATUS =>
    SEQUENCE_PHASE = "Firing" \/ (SEQUENCE_PHASE = "Timeout" /\ pc = "apply")

\* An angle not yet taken was signalled by the last command of its kind.
PendingAngle ==
  /\ ANGLE_COMMAND_SIGNAL = MAIN_VALVE_CLOSED_ANGLE_X10 =>
       /\ ~servo_command_state.manual_open_command_active
       /\ servo_command_state.last_firing_open_send = None
  /\ ANGLE_COMMAND_SIGNAL = MAIN_VALVE_OPEN_ANGLE_X10 =>
       servo_command_state.last_close_send = None

\* The command in force has been sent.
CommandSent ==
  awaiting /\ SERVO_CONTROL_MODE = "COMMAND" =>
    IF SERVO_TARGET_ANGLE_X10 = MAIN_VALVE_CLOSED_ANGLE_X10
      THEN servo_command_state.last_close_send # None
      ELSE \/ servo_command_state.manual_open_command_active
           \/ servo_command_state.last_firing_open_send # None

AbortOrigin == abort_before_firing => SEQUENCE_PHASE = "Abort"

\* The servo fault cannot clear while the supervisor runs, and a latched servo
\* abort is on its way to Abort if it is not there.
ServoFaultStable ==
  "SERVO_COMM_ERROR" \in faults => ~awaiting /\ "SERVO_COMM_ERROR" \in FAULT_FLAGS
ServoAbortPending ==
  servo_abort_latched =>
    /\ ~abort_before_firing
    /\ \/ SEQUENCE_PHASE = "Abort"
       \/ /\ SEQUENCE_PHASE = "Firing"
          /\ \/ pc = "inhibit"
             \/ pc \in {"reset_ack", "recover"} /\ "SERVO_COMM_ERROR" \in FAULT_FLAGS
             \/ pc = "handle" /\ "SERVO_COMM_ERROR" \in faults

IInv ==
  /\ TypeOK
  /\ FiringTimed /\ LatchFresh /\ LatchReleasable
  /\ IgniterPhase /\ IgniterOnlyInWindow
  /\ FiringOnlyOpensValve /\ PendingAngle /\ CommandSent
  /\ AbortOrigin /\ ServoFaultStable /\ ServoAbortPending

-----------------------------------------------------------------------------
(* The abstract firing this task implements.                                *)

Sequence == INSTANCE FiringSequence WITH
              stage   <- SEQUENCE_PHASE,
              igniter <- "IGNITER" \in OUTPUT_STATUS,
              opened  <- servo_command_state.open_latched

\* Every step of the task is a step of the abstract firing or invisible to it.
ImplementsSequence == Sequence!Spec

\* Every started firing ends and every opened valve is released, too.
ImplementsFairSequence == Sequence!FairSpec

-----------------------------------------------------------------------------
(* Liveness, under FairSpec.                                                *)

\* Losing the link switches every output off, unless it comes back first.
LinkLossStopsOutputs ==
  Link \notin INPUT_FLAGS ~> (OUTPUT_STATUS = {} \/ Link \in INPUT_FLAGS)

\* An abort that began in Idle is left without a reset once the panel stays
\* neutral and no fault remains (supervisor.rs 374-398).
PreFiringAbortRecovers ==
  <>[](INPUT_FLAGS = {Link} /\ FAULT_FLAGS = {}) =>
    []<>~(SEQUENCE_PHASE = "Abort" /\ abort_before_firing)
=============================================================================

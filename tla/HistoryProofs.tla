--------------------------- MODULE HistoryProofs ----------------------------
(***************************************************************************)
(* What the supervisor's own state does not show and its histories do:     *)
(* that a fault lasting an iteration has had its effect, that an abort of  *)
(* a firing waits for an acknowledgement, and that the valve is left alone *)
(* from its opening until the latch is released.  Each history adds its    *)
(* own inductive invariant to the supervisor's IInv.                       *)
(***************************************************************************)
EXTENDS FiringHistory, FaultHistory, SupervisorProofs

-----------------------------------------------------------------------------
(* The faults of an iteration.                                              *)

\* The record only watches: every behaviour with it is one of the supervisor.
LEMMA FaultHistoryStep == [FaultHistoryNext]_<<vars, faultHistory>> => [Next]_vars
BY DEF FaultHistoryNext, ObserveWake, ObserveWork, ObserveEnvironment, Next, Iteration

\* So what is invariant of the supervisor is invariant of the record's module.
LEMMA FaultHistoryIInv == FaultHistorySpec => []IInv
<1>1. FaultHistoryInit => Init
  BY DEF FaultHistoryInit
<1> QED
  BY <1>1, FaultHistoryStep, Invariance, PTL DEF FaultHistorySpec, Spec

\* What was held can only shrink, and is what holds after the step.
LEMMA KeptHeld ==
  ASSUME KeepHeld
  PROVE  /\ HeldNow'
         /\ held' \subseteq held
         /\ link_down' => link_down
BY DEF KeepHeld, HeldNow

\* The initial state, and nothing at all.
LEMMA FaultHistoryInitInv == FaultHistoryInit => FaultInv
BY DEF FaultHistoryInit, Init, SharedInit, FaultInv, HeldNow, HeldLoaded, InhibitDone,
   FiringClear, AbortStart, AckCounted, HeldFaultEndsFiring, OutputsOffWhenInhibited,
   CanFaultWithoutLinkAborts, awaiting

LEMMA FaultStutterInv == ASSUME FaultInv, UNCHANGED <<vars, faultHistory>> PROVE FaultInv'
BY DEF FaultInv, HeldNow, HeldLoaded, InhibitDone, FiringClear, AbortStart, AckCounted,
   HeldFaultEndsFiring, OutputsOffWhenInhibited, CanFaultWithoutLinkAborts, awaiting, vars,
   faultHistory, sharedVars, inputVars, outputVars, localVars

\* Line 88: the record begins again, and an acknowledgement counts for the abort
\* that it follows.
LEMMA ObserveWakeInv ==
  ASSUME FaultInv, NEW d \in Delays, ObserveWake(d) PROVE FaultInv'
<1>1. /\ pc = "wait" /\ pc' = "load_faults" /\ inputs' = INPUT_FLAGS
      /\ held' = FAULT_FLAGS /\ link_down' = (Link \notin INPUT_FLAGS)
      /\ acked' = (acked /\ SEQUENCE_PHASE = "Abort")
      /\ UNCHANGED <<FAULT_FLAGS, INPUT_FLAGS, RESET_ACK_EVENT_COUNTER, SEQUENCE_PHASE,
                     previous_reset_ack_event, abort_before_firing, aborted_from>>
  BY DEF ObserveWake, Wake, sharedVars, inputVars, outputVars
<1>2. HeldNow' /\ HeldLoaded' /\ InhibitDone' /\ FiringClear'
  BY <1>1 DEF HeldNow, HeldLoaded, InhibitDone, FiringClear, awaiting
<1>3. AbortStart' /\ AckCounted'
  BY <1>1 DEF FaultInv, AbortStart, AckCounted
<1>4. HeldFaultEndsFiring' /\ OutputsOffWhenInhibited' /\ CanFaultWithoutLinkAborts'
  BY <1>1 DEF HeldFaultEndsFiring, OutputsOffWhenInhibited, CanFaultWithoutLinkAborts, awaiting
<1> QED
  BY <1>2, <1>3, <1>4 DEF FaultInv

\* Lines 93-102: what is held has been loaded, and the test of line 102 leaves
\* no CAN fault without the link behind.
LEMMA ObserveLoadInv ==
  ASSUME FaultInv, ObserveWork, LoadFaults \/ LoadResetAck PROVE FaultInv'
<1>1. /\ KeepHeld /\ acked' = acked
      /\ UNCHANGED <<FAULT_FLAGS, INPUT_FLAGS, RESET_ACK_EVENT_COUNTER, SEQUENCE_PHASE,
                     inputs, abort_before_firing>>
      /\ pc' \notin {"wait", "handle", "apply"}
  BY DEF ObserveWork, LoadFaults, LoadResetAck, sharedVars, inputVars, outputVars
<1>2. HeldNow' /\ held' \subseteq held /\ (link_down' => link_down)
  BY <1>1, KeptHeld
<1>3. aborted_from' = aborted_from
  BY <1>1 DEF ObserveWork, entering_abort
<1>4. HeldLoaded'
  BY <1>1, <1>2 DEF FaultInv, HeldLoaded, HeldNow, awaiting, LoadFaults, LoadResetAck
<1>5. InhibitDone'
  <2>1. CASE LoadFaults
    BY <2>1 DEF LoadFaults, InhibitDone
  <2>2. CASE LoadResetAck
    <3>1. ~(link_down /\ held \cap CanFaults # {}) \/ pc' = "inhibit"
      BY <2>2 DEF LoadResetAck, has_active_can_input_fault, FaultInv, HeldLoaded, awaiting
    <3> QED BY <1>2, <3>1 DEF InhibitDone
  <2> QED BY <2>1, <2>2
<1>6. FiringClear' /\ AbortStart'
  BY <1>1, <1>3 DEF FaultInv, FiringClear, AbortStart
<1>7. AckCounted'
  BY <1>1 DEF FaultInv, AckCounted, LoadFaults, LoadResetAck
<1>8. HeldFaultEndsFiring' /\ OutputsOffWhenInhibited' /\ CanFaultWithoutLinkAborts'
  BY <1>1 DEF HeldFaultEndsFiring, OutputsOffWhenInhibited, CanFaultWithoutLinkAborts, awaiting
<1> QED
  BY <1>2, <1>4, <1>5, <1>6, <1>7, <1>8 DEF FaultInv

\* Lines 102-118 and 142-157: the transition to Abort.
LEMMA ObserveAbortInv ==
  ASSUME FaultInv, ObserveWork, InhibitInputs \/ AbortFiring PROVE FaultInv'
<1>1. /\ KeepHeld /\ acked' = acked
      /\ pc \in {"inhibit", "handle"} /\ pc' = "wait"
      /\ SEQUENCE_PHASE' = "Abort" /\ OUTPUT_STATUS' = {} /\ SERVO_CONTROL_MODE' = "HOLD"
      /\ UNCHANGED <<RESET_ACK_EVENT_COUNTER, previous_reset_ack_event>>
      /\ abort_before_firing' = IF SEQUENCE_PHASE = "Abort" THEN abort_before_firing
                                                            ELSE SEQUENCE_PHASE = "Idle"
  BY DEF ObserveWork, InhibitInputs, AbortFiring, enter_abort, set_sequence_phase,
         force_safe_outputs, apply_decision, await_next, inputVars
<1>2. HeldNow' /\ held' \subseteq held /\ (link_down' => link_down)
  BY <1>1, KeptHeld
<1>3. aborted_from' = IF SEQUENCE_PHASE # "Abort" THEN SEQUENCE_PHASE ELSE aborted_from
  BY <1>1 DEF ObserveWork, entering_abort
<1>4. HeldLoaded' /\ InhibitDone' /\ FiringClear'
  BY <1>1 DEF HeldLoaded, InhibitDone, FiringClear, awaiting
<1>5. AbortStart'
  BY <1>1, <1>3 DEF FaultInv, AbortStart
<1>6. AckCounted'
  BY <1>1 DEF FaultInv, AckCounted
<1>7. HeldFaultEndsFiring' /\ OutputsOffWhenInhibited'
  BY <1>1 DEF HeldFaultEndsFiring, OutputsOffWhenInhibited
<1>8. CanFaultWithoutLinkAborts'
  <2>1. CASE InhibitInputs
    <3>1. INPUT_FLAGS' = (INPUT_FLAGS \cap {Link}) \cup {}
      BY <2>1 DEF InhibitInputs, replace_operator_input_flags
    <3>2. link_down' => INPUT_FLAGS' = {}
      BY <1>2, <3>1 DEF HeldNow
    <3> QED BY <1>1, <3>2 DEF CanFaultWithoutLinkAborts
  <2>2. CASE AbortFiring
    <3>1. ~(link_down /\ held \cap CanFaults # {})
      BY <2>2 DEF AbortFiring, FaultInv, InhibitDone
    <3> QED BY <1>2, <3>1 DEF CanFaultWithoutLinkAborts
  <2> QED BY <2>1, <2>2
<1> QED
  BY <1>2, <1>4, <1>5, <1>6, <1>7, <1>8 DEF FaultInv

\* Lines 120-140: a return to Idle undoes the flag, and a reload keeps what is held.
LEMMA ObserveReturnInv ==
  ASSUME FaultInv, ObserveWork,
         ReturnToIdleAfterResetAck \/ ReturnToIdleAfterPreFiringRecovery
  PROVE  FaultInv'
<1>1. /\ KeepHeld /\ acked' = acked
      /\ pc \in {"reset_ack", "recover"} /\ pc' \in {"recover", "handle"}
      /\ faults' = FAULT_FLAGS
      /\ UNCHANGED <<FAULT_FLAGS, INPUT_FLAGS, RESET_ACK_EVENT_COUNTER,
                     previous_reset_ack_event, inputs>>
      /\ \/ UNCHANGED <<SEQUENCE_PHASE, abort_before_firing>>
         \/ SEQUENCE_PHASE' = "Idle" /\ abort_before_firing' = FALSE
  BY DEF ObserveWork, ReturnToIdleAfterResetAck, ReturnToIdleAfterPreFiringRecovery,
         return_to_idle, set_sequence_phase, inputVars
<1>2. HeldNow' /\ held' \subseteq held /\ (link_down' => link_down)
  BY <1>1, KeptHeld
<1>3. aborted_from' = aborted_from
  BY <1>1 DEF ObserveWork, entering_abort
<1>4. HeldLoaded'
  BY <1>1, <1>2 DEF FaultInv, HeldLoaded, HeldNow, awaiting
<1>5. InhibitDone' /\ FiringClear'
  BY <1>1, <1>2 DEF FaultInv, InhibitDone, FiringClear
<1>6. AbortStart' /\ AckCounted'
  BY <1>1, <1>3 DEF FaultInv, AbortStart, AckCounted
<1>7. HeldFaultEndsFiring' /\ OutputsOffWhenInhibited' /\ CanFaultWithoutLinkAborts'
  BY <1>1 DEF HeldFaultEndsFiring, OutputsOffWhenInhibited, CanFaultWithoutLinkAborts, awaiting
<1> QED
  BY <1>2, <1>4, <1>5, <1>6, <1>7 DEF FaultInv

\* Lines 159-180: past the phase handlers no fault is held in a firing.
LEMMA ObserveHandledInv == ASSUME FaultInv, ObserveWork, HandlePhase PROVE FaultInv'
<1>1. /\ KeepHeld /\ acked' = acked /\ pc = "handle" /\ pc' = "apply"
      /\ faults' = FAULT_FLAGS /\ ~(faults # {} /\ SEQUENCE_PHASE = "Firing")
      /\ UNCHANGED <<FAULT_FLAGS, INPUT_FLAGS, RESET_ACK_EVENT_COUNTER,
                     previous_reset_ack_event, inputs>>
  BY DEF ObserveWork, HandlePhase, StartFiring, StayIdle, ContinueFiring, FinishFiring,
         HoldTimeout, HoldAbort, handled, has_firing_fault, inputVars
<1>2. /\ SEQUENCE_PHASE' = "Firing" => faults = {}
      /\ SEQUENCE_PHASE' = "Abort" => SEQUENCE_PHASE = "Abort"
      /\ abort_before_firing' => abort_before_firing
  BY <1>1 DEF HandlePhase, StartFiring, StayIdle, ContinueFiring, FinishFiring, HoldTimeout,
         HoldAbort, set_sequence_phase, start_permission, allow_new_ignition
<1>3. HeldNow' /\ held' \subseteq held /\ (link_down' => link_down)
  BY <1>1, KeptHeld
<1>4. aborted_from' = aborted_from
  BY <1>2 DEF ObserveWork, entering_abort
<1>5. HeldLoaded'
  BY <1>1, <1>3 DEF FaultInv, HeldLoaded, HeldNow, awaiting
<1>6. InhibitDone' /\ AbortStart' /\ AckCounted'
  BY <1>1, <1>2, <1>3, <1>4 DEF FaultInv, InhibitDone, AbortStart, AckCounted
<1>7. FiringClear'
  BY <1>1, <1>2, <1>3 DEF FaultInv, HeldLoaded, FiringClear
<1>8. HeldFaultEndsFiring' /\ OutputsOffWhenInhibited' /\ CanFaultWithoutLinkAborts'
  BY <1>1 DEF HeldFaultEndsFiring, OutputsOffWhenInhibited, CanFaultWithoutLinkAborts, awaiting
<1> QED
  BY <1>3, <1>5, <1>6, <1>7, <1>8 DEF FaultInv

\* Lines 181-213: the decision sees what is held, in the faults and in the
\* inputs that line 184 loads again.
LEMMA ObserveDecisionInv == ASSUME IInv, FaultInv, ObserveWork, ApplyDecision PROVE FaultInv'
<1>1. /\ KeepHeld /\ acked' = acked /\ pc = "apply" /\ pc' = "wait"
      /\ OUTPUT_STATUS' = decision.on
      /\ SERVO_CONTROL_MODE' = IF dispatch.action = None THEN "HOLD" ELSE "COMMAND"
      /\ UNCHANGED <<FAULT_FLAGS, INPUT_FLAGS, RESET_ACK_EVENT_COUNTER, SEQUENCE_PHASE,
                     previous_reset_ack_event, abort_before_firing>>
  BY DEF ObserveWork, ApplyDecision, apply_decision, await_next, inputVars
<1>2. HeldNow' /\ held' \subseteq held /\ (link_down' => link_down)
  BY <1>1, KeptHeld
<1>3. aborted_from' = aborted_from
  BY <1>1 DEF ObserveWork, entering_abort
<1>4. HeldLoaded' /\ InhibitDone' /\ FiringClear'
  BY <1>1 DEF HeldLoaded, InhibitDone, FiringClear, awaiting
<1>5. AbortStart' /\ AckCounted'
  BY <1>1, <1>3 DEF FaultInv, AbortStart, AckCounted
<1>6. HeldFaultEndsFiring'
  <2>1. "IGNITER" \in decision.on => SEQUENCE_PHASE = "Firing"
    BY <1>1, DecisionFacts
  <2> QED BY <1>1, <1>2, <2>1 DEF FaultInv, FiringClear, HeldFaultEndsFiring
<1>7. OutputsOffWhenInhibited'
  <2>1. decision.servo = None => dispatch.action = None
    <3>1. /\ servo_command_state \in ServoCommandStates /\ consistent(servo_command_state)
          /\ SEQUENCE_PHASE \in Phases
      BY DEF IInv, TypeOK, SharedTypeOK, LatchFresh
    <3>2. decision.servo \in Angles \cup {None} /\ firing_open_phase \in BOOLEAN
      BY <1>1, DecisionFacts
    <3>3. dispatch.action # None => dispatch.action = decision.servo
      BY <3>1, <3>2, ScheduleFacts DEF dispatch
    <3> QED BY <3>3
  <2>2. ASSUME link_down' \/ held' \cap HardOutputInhibitFaults # {}
        PROVE  decision = [on |-> {}, servo |-> None]
    <3>1. link_down => Link \notin INPUT_FLAGS
      BY DEF FaultInv, HeldNow
    <3>2. held \subseteq faults
      BY <1>1 DEF FaultInv, HeldLoaded
    <3> QED
      BY <1>2, <2>2, <3>1, <3>2
         DEF decision, resolve_control, operator_input_available, hard_output_inhibited
  <2> QED BY <1>1, <2>1, <2>2 DEF OutputsOffWhenInhibited
<1>8. CanFaultWithoutLinkAborts'
  BY <1>1, <1>2 DEF FaultInv, InhibitDone, CanFaultWithoutLinkAborts
<1> QED
  BY <1>2, <1>4, <1>5, <1>6, <1>7, <1>8 DEF FaultInv

\* The environment touches no phase, output or local, and a frame, which alone
\* adds requests, brings the link with them.
LEMMA EnvironmentFacts ==
  ASSUME Environment
  PROVE  /\ UNCHANGED <<SEQUENCE_PHASE, OUTPUT_STATUS, SERVO_CONTROL_MODE, localVars>>
         /\ Link \in INPUT_FLAGS' \/ INPUT_FLAGS' \subseteq INPUT_FLAGS
BY DEF Environment, CanStep, ServoStep, ButtonFrame, DropLink, DropCommands, RaiseCanFault,
   ClearCanFaults, SignalResetAck, TakeAngleCommand, RaiseServoFault, ClearServoFault,
   inputVars, outputVars, replace_operator_input_flags,
   replace_operator_input_flags_and_set_can_link_active

\* Core 1 and servo_task: they end what was held, or leave its effect.
LEMMA ObserveEnvironmentInv == ASSUME FaultInv, ObserveEnvironment PROVE FaultInv'
<1>1. /\ UNCHANGED <<SEQUENCE_PHASE, OUTPUT_STATUS, SERVO_CONTROL_MODE>>
      /\ UNCHANGED <<pc, inputs, faults, previous_reset_ack_event, abort_before_firing>>
      /\ Link \in INPUT_FLAGS' \/ INPUT_FLAGS' \subseteq INPUT_FLAGS
      /\ aborted_from' = aborted_from
      /\ acked' = (acked \/ RESET_ACK_EVENT_COUNTER' # RESET_ACK_EVENT_COUNTER)
  BY EnvironmentFacts DEF ObserveEnvironment, localVars
<1>2. HeldNow' /\ held' \subseteq held /\ (link_down' => link_down)
  BY KeptHeld DEF ObserveEnvironment
<1>3. HeldLoaded' /\ InhibitDone' /\ FiringClear'
  BY <1>1, <1>2 DEF FaultInv, HeldLoaded, InhibitDone, FiringClear, awaiting
<1>4. AbortStart' /\ AckCounted'
  BY <1>1 DEF FaultInv, AbortStart, AckCounted
<1>5. HeldFaultEndsFiring' /\ OutputsOffWhenInhibited'
  BY <1>1, <1>2 DEF FaultInv, HeldFaultEndsFiring, OutputsOffWhenInhibited, awaiting
<1>6. CanFaultWithoutLinkAborts'
  BY <1>1, <1>2 DEF FaultInv, CanFaultWithoutLinkAborts, HeldNow, awaiting
<1> QED
  BY <1>2, <1>3, <1>4, <1>5, <1>6 DEF FaultInv

\* Every step preserves what the record shows, given the supervisor's invariant.
LEMMA FaultStepInv ==
  IInv /\ FaultInv /\ [FaultHistoryNext]_<<vars, faultHistory>> => FaultInv'
<1> SUFFICES ASSUME IInv, FaultInv, [FaultHistoryNext]_<<vars, faultHistory>>
             PROVE  FaultInv'
  OBVIOUS
<1>1. CASE UNCHANGED <<vars, faultHistory>>
  BY <1>1, FaultStutterInv
<1>2. CASE \E d \in Delays : ObserveWake(d)
  BY <1>2, ObserveWakeInv
<1>3. CASE ObserveWork
  <2>1. CASE LoadFaults \/ LoadResetAck
    BY <1>3, <2>1, ObserveLoadInv
  <2>2. CASE InhibitInputs \/ AbortFiring
    BY <1>3, <2>2, ObserveAbortInv
  <2>3. CASE ReturnToIdleAfterResetAck \/ ReturnToIdleAfterPreFiringRecovery
    BY <1>3, <2>3, ObserveReturnInv
  <2>4. CASE HandlePhase
    BY <1>3, <2>4, ObserveHandledInv
  <2>5. CASE ApplyDecision
    BY <1>3, <2>5, ObserveDecisionInv
  <2> QED
    BY <1>3, <2>1, <2>2, <2>3, <2>4, <2>5 DEF ObserveWork, Work
<1>4. CASE ObserveEnvironment
  BY <1>4, ObserveEnvironmentInv
<1> QED
  BY <1>1, <1>2, <1>3, <1>4 DEF FaultHistoryNext

\* The invariant of the fault record.
LEMMA FaultInvariance == FaultHistorySpec => []FaultInv
<1> QED
  BY FaultHistoryIInv, FaultHistoryInitInv, FaultStepInv, PTL DEF FaultHistorySpec

\* A fault that lasts an iteration, whichever of its four loads saw it first, has
\* ended the firing and switched the igniter off.
THEOREM LastingFaultEndsFiring == FaultHistorySpec => []HeldFaultEndsFiring
<1>1. FaultInv => HeldFaultEndsFiring
  BY DEF FaultInv
<1> QED
  BY FaultInvariance, <1>1, PTL

\* A hard inhibit, or a lost link, that lasts an iteration leaves no output on.
THEOREM LastingInhibitStopsOutputs == FaultHistorySpec => []OutputsOffWhenInhibited
<1>1. FaultInv => OutputsOffWhenInhibited
  BY DEF FaultInv
<1> QED
  BY FaultInvariance, <1>1, PTL

\* A CAN fault without the link, lasting an iteration, means Abort and no request.
THEOREM LastingCanFaultAborts == FaultHistorySpec => []CanFaultWithoutLinkAborts
<1>1. FaultInv => CanFaultWithoutLinkAborts
  BY DEF FaultInv
<1> QED
  BY FaultInvariance, <1>1, PTL

\* Abort is left only by the two returns of lines 120-140.
LEMMA LeavingAbort ==
  ASSUME FaultHistoryNext, SEQUENCE_PHASE = "Abort", SEQUENCE_PHASE' = "Idle"
  PROVE  ReturnToIdleAfterResetAck \/ ReturnToIdleAfterPreFiringRecovery
<1>1. CASE \E d \in Delays : ObserveWake(d)
  BY <1>1 DEF ObserveWake, Wake, sharedVars, outputVars
<1>2. CASE ObserveEnvironment
  BY <1>2, EnvironmentFacts DEF ObserveEnvironment
<1>3. CASE LoadFaults \/ LoadResetAck \/ ApplyDecision
  BY <1>3 DEF LoadFaults, LoadResetAck, ApplyDecision, sharedVars, outputVars
<1>4. CASE InhibitInputs \/ AbortFiring
  BY <1>4 DEF InhibitInputs, AbortFiring, enter_abort, set_sequence_phase
<1>5. CASE HandlePhase
  BY <1>5 DEF HandlePhase, StartFiring, StayIdle, ContinueFiring, FinishFiring, HoldTimeout,
     HoldAbort, set_sequence_phase
<1> QED
  BY <1>1, <1>2, <1>3, <1>4, <1>5 DEF FaultHistoryNext, ObserveWork, Work

\* An abort that did not begin in Idle is left only after a reset event counted
\* since the iteration in which it began: one counted before it is used up by
\* line 94 of that iteration.
THEOREM AbortWaitsForAck == FaultHistorySpec => FiringAbortNeedsAck
<1>1. FaultInv /\ [FaultHistoryNext]_<<vars, faultHistory>> =>
        [SEQUENCE_PHASE = "Abort" /\ SEQUENCE_PHASE' = "Idle" =>
           aborted_from = "Idle" \/ acked]_<<vars, faultHistory>>
  <2> SUFFICES ASSUME FaultInv, FaultHistoryNext,
                      SEQUENCE_PHASE = "Abort", SEQUENCE_PHASE' = "Idle"
               PROVE  aborted_from = "Idle" \/ acked
    OBVIOUS
  <2>1. CASE ReturnToIdleAfterResetAck
    BY <2>1 DEF ReturnToIdleAfterResetAck, FaultInv, AckCounted
  <2>2. CASE ReturnToIdleAfterPreFiringRecovery
    BY <2>2 DEF ReturnToIdleAfterPreFiringRecovery, pre_firing_recovery_allows_idle,
       FaultInv, AbortStart
  <2> QED
    BY <2>1, <2>2, LeavingAbort
<1> QED
  BY FaultInvariance, <1>1, PTL DEF FaultHistorySpec, FiringAbortNeedsAck

-----------------------------------------------------------------------------
(* The servo commands around a firing.                                      *)

\* This record only watches, too.
LEMMA FiringHistoryStep == [FiringHistoryNext]_<<vars, firingHistory>> => [Next]_vars
BY DEF FiringHistoryNext, RecordWake, RecordStart, RecordDispatch, RecordEnd, RecordNothing,
   Next, Iteration, Work, HandlePhase

\* So the supervisor's invariant holds beside it.
LEMMA FiringHistoryIInv == FiringHistorySpec => []IInv
<1>1. FiringHistoryInit => Init
  BY DEF FiringHistoryInit
<1> QED
  BY <1>1, FiringHistoryStep, Invariance, PTL DEF FiringHistorySpec, Spec

\* The servo state and what IInv says of its latch, in one place.
LEMMA ServoFacts ==
  ASSUME IInv
  PROVE  /\ servo_command_state \in ServoCommandStates
         /\ consistent(servo_command_state)
         /\ SEQUENCE_PHASE \in Phases
         /\ (servo_command_state.open_latch_release_started # None) <=>
              (servo_command_state.open_latched /\ SEQUENCE_PHASE # "Firing")
         /\ servo_command_state.open_latch_release_started \in Ages(OPEN_LATCH_RELEASE_DELAY)
BY DEF IInv, TypeOK, SharedTypeOK, LatchFresh, LatchReleasable, ServoCommandStates

\* The initial state: nothing is recorded.
LEMMA FiringHistoryInitInv == FiringHistoryInit => FiringInv
<1> SUFFICES ASSUME FiringHistoryInit PROVE FiringInv
  OBVIOUS
<1>1. /\ SEQUENCE_PHASE = "Idle" /\ opens = 0 /\ since_open = None
      /\ ~burning /\ burning \in BOOLEAN /\ since_burn = None
  BY DEF FiringHistoryInit, Init, SharedInit
<1>2. FiringHistoryTypeOK /\ OpenSendsBounded
  BY <1>1, Durations DEF FiringHistoryTypeOK, OpenSendsBounded, Ages
<1>3. SendsCounted /\ BurnLatched /\ BurnReleases
  BY <1>1 DEF SendsCounted, BurnLatched, BurnReleases, due
<1> QED
  BY <1>2, <1>3 DEF FiringInv

\* Nothing the invariant reads has changed, or a phase outside Firing has.
LEMMA FiringKept ==
  ASSUME FiringInv, UNCHANGED firingHistory, UNCHANGED servo_command_state,
         \/ SEQUENCE_PHASE' = SEQUENCE_PHASE
         \/ SEQUENCE_PHASE # "Firing" /\ SEQUENCE_PHASE' # "Firing"
  PROVE  FiringInv'
BY DEF FiringInv, FiringHistoryTypeOK, SendsCounted, OpenSendsBounded, BurnLatched,
   BurnReleases, firingHistory

\* Line 88: the record and the code's timestamps grow together, and the latch
\* is not released before the record allows it.
LEMMA RecordWakeInv ==
  ASSUME IInv, FiringInv, NEW d \in Delays, RecordWake(d) PROVE FiringInv'
<1> DEFINE s == servo_command_state
           a == aged(s, d)
           t == update_latch_release(a)
<1>1. d \in Nat
  BY DelaysAssumption
<1>2. /\ s \in ServoCommandStates /\ consistent(s)
      /\ (s.open_latch_release_started # None) <=> (s.open_latched /\ SEQUENCE_PHASE # "Firing")
      /\ s.open_latch_release_started \in Ages(OPEN_LATCH_RELEASE_DELAY)
  BY ServoFacts
<1>3. /\ a \in ServoCommandStates
      /\ a.open_latched = s.open_latched
      /\ a.firing_open_send_count = s.firing_open_send_count
      /\ a.open_latch_release_started = None <=> s.open_latch_release_started = None
      /\ a.last_firing_open_send = older(s.last_firing_open_send, d, SERVO_POLL_INTERVAL)
      /\ a.open_latch_release_started =
           older(s.open_latch_release_started, d, OPEN_LATCH_RELEASE_DELAY)
  BY <1>1, <1>2, AgedState
<1>4. /\ servo_command_state' = t
      /\ SEQUENCE_PHASE' = SEQUENCE_PHASE
      /\ since_open' = older(since_open, d, SERVO_POLL_INTERVAL)
      /\ since_burn' = older(since_burn, d, OPEN_LATCH_RELEASE_DELAY)
      /\ UNCHANGED <<opens, burning>>
  BY DEF RecordWake, Wake, sharedVars, outputVars
<1> HIDE DEF a
<1>5. \/ t = a
      \/ a.open_latch_release_started # None
           /\ a.open_latch_release_started >= OPEN_LATCH_RELEASE_DELAY
  BY <1>3, ReleaseState
<1> HIDE DEF t
<1>6. FiringHistoryTypeOK'
  BY <1>1, <1>4, OlderAge, Durations DEF FiringInv, FiringHistoryTypeOK
<1>7. CASE SEQUENCE_PHASE = "Firing"
  <2>1. t = a
    BY <1>2, <1>3, <1>5, <1>7
  <2>2. SendsCounted'
    BY <1>3, <1>4, <1>7, <2>1 DEF FiringInv, SendsCounted
  <2>3. BurnLatched'
    BY <1>3, <1>4, <1>7, <2>1 DEF FiringInv, BurnLatched
  <2>4. BurnReleases'
    <3> SUFFICES ASSUME ~due(since_burn', OPEN_LATCH_RELEASE_DELAY) PROVE FALSE
      BY DEF BurnReleases
    <3>1. since_burn \in 0 .. OPEN_LATCH_RELEASE_DELAY
      BY <1>4 DEF FiringInv, FiringHistoryTypeOK, Ages, due, older
    <3>2. ~due(since_burn, OPEN_LATCH_RELEASE_DELAY)
      BY <1>1, <1>4, <3>1, Durations, OlderOrdered
    <3> QED BY <1>7, <3>2 DEF FiringInv, BurnReleases
  <2> QED
    BY <1>4, <1>6, <2>2, <2>3, <2>4 DEF FiringInv, OpenSendsBounded
<1>8. CASE SEQUENCE_PHASE # "Firing"
  <2>1. SendsCounted' /\ BurnLatched'
    BY <1>4, <1>8 DEF FiringInv, SendsCounted, BurnLatched
  <2>2. BurnReleases'
    <3> SUFFICES ASSUME ~due(since_burn', OPEN_LATCH_RELEASE_DELAY)
                 PROVE  /\ t.open_latched
                        /\ t.open_latch_release_started # None
                        /\ t.open_latch_release_started <= since_burn'
      BY <1>4, <1>8 DEF BurnReleases
    <3>1. since_burn \in 0 .. OPEN_LATCH_RELEASE_DELAY
      BY <1>4 DEF FiringInv, FiringHistoryTypeOK, Ages, due, older
    <3>2. ~due(since_burn, OPEN_LATCH_RELEASE_DELAY)
      BY <1>1, <1>4, <3>1, Durations, OlderOrdered
    <3>3. /\ s.open_latched
          /\ s.open_latch_release_started \in 0 .. OPEN_LATCH_RELEASE_DELAY
          /\ s.open_latch_release_started # None
          /\ s.open_latch_release_started <= since_burn
      BY <1>2, <3>2 DEF FiringInv, BurnReleases, Ages
    <3>4. a.open_latch_release_started <= since_burn'
      BY <1>1, <1>3, <1>4, <3>1, <3>3, Durations, OlderOrdered
    <3>5. a.open_latch_release_started \in Nat /\ since_burn' \in Nat
      BY <1>3, <1>6, <3>3, Durations
         DEF FiringHistoryTypeOK, ServoCommandStates, Ages, due
    <3>6. a.open_latch_release_started < OPEN_LATCH_RELEASE_DELAY
      BY <3>4, <3>5, Durations DEF due
    <3>7. t = a
      BY <1>5, <3>5, <3>6, Durations
    <3> QED
      BY <1>3, <3>3, <3>4, <3>7
  <2> QED
    BY <1>4, <1>6, <2>1, <2>2 DEF FiringInv, OpenSendsBounded
<1> QED
  BY <1>7, <1>8

\* Line 231: a firing starts with a count of none, and not while the record
\* says that the valve is to be left alone.
LEMMA RecordStartInv == ASSUME IInv, FiringInv, RecordStart PROVE FiringInv'
<1> DEFINE s == servo_command_state
           t == on_phase_transition(s, "Firing")
<1>1. /\ SEQUENCE_PHASE = "Idle" /\ SEQUENCE_PHASE' = "Firing"
      /\ ~s.open_latched
      /\ servo_command_state' = t
      /\ opens' = 0 /\ since_open' = None
      /\ UNCHANGED <<burning, since_burn>>
  BY DEF RecordStart, StartFiring, start_permission, allow_new_ignition, can_start_firing,
     set_sequence_phase
<1>2. s \in ServoCommandStates /\ consistent(s)
  BY ServoFacts
<1>3. /\ t.firing_open_send_count = s.firing_open_send_count
      /\ t.last_firing_open_send = s.last_firing_open_send
  BY <1>2, TransitionState DEF Phases
<1> HIDE DEF t
<1>4. SendsCounted'
  BY <1>1, <1>2, <1>3 DEF SendsCounted, consistent
<1>5. FiringHistoryTypeOK' /\ OpenSendsBounded'
  BY <1>1, Durations DEF FiringInv, FiringHistoryTypeOK, OpenSendsBounded, Ages
<1>6. BurnLatched' /\ BurnReleases'
  BY <1>1 DEF FiringInv, BurnLatched, BurnReleases
<1> QED
  BY <1>4, <1>5, <1>6 DEF FiringInv

\* What a decision may signal to a valve that is latched or in a firing.
LEMMA DispatchFacts ==
  ASSUME IInv, pc = "apply"
  PROVE  LET s == servo_command_state
             t == dispatch.state
         IN
         /\ t.open_latched <=> (s.open_latched \/ firing_open_phase)
         /\ t.open_latch_release_started = s.open_latch_release_started
         /\ SEQUENCE_PHASE # "Firing" /\ s.open_latched => dispatch.signal = None
         /\ SEQUENCE_PHASE = "Firing" =>
              /\ dispatch.signal \in {MAIN_VALVE_OPEN_ANGLE_X10, None}
              /\ dispatch.signal = None =>
                   /\ t.firing_open_send_count = s.firing_open_send_count
                   /\ t.last_firing_open_send = s.last_firing_open_send
              /\ dispatch.signal # None =>
                   /\ due(s.last_firing_open_send, SERVO_POLL_INTERVAL)
                   /\ s.firing_open_send_count < FIRING_OPEN_SEND_MAX
                   /\ t.firing_open_send_count = s.firing_open_send_count + 1
                   /\ t.last_firing_open_send = 0
<1> DEFINE s == servo_command_state
           t == dispatch.state
<1>1. /\ s \in ServoCommandStates /\ consistent(s) /\ SEQUENCE_PHASE \in Phases
      /\ decision.servo \in Angles \cup {None} /\ firing_open_phase \in BOOLEAN
  BY ServoFacts, DecisionFacts
<1>2. /\ t.open_latched <=> (s.open_latched \/ (SEQUENCE_PHASE = "Firing" /\ firing_open_phase))
      /\ t.open_latch_release_started = s.open_latch_release_started
  BY <1>1, ScheduleFacts DEF dispatch
<1>3. firing_open_phase => SEQUENCE_PHASE = "Firing"
  BY DEF firing_open_phase
<1>4. s.open_latched \/ SEQUENCE_PHASE = "Firing" =>
        /\ SEQUENCE_PHASE # "Firing" => dispatch.signal = None
        /\ dispatch.signal \in {MAIN_VALVE_OPEN_ANGLE_X10, None}
        /\ dispatch.signal = None =>
             /\ t.firing_open_send_count = s.firing_open_send_count
             /\ t.last_firing_open_send = s.last_firing_open_send
        /\ dispatch.signal # None =>
             /\ due(s.last_firing_open_send, SERVO_POLL_INTERVAL)
             /\ s.firing_open_send_count < FIRING_OPEN_SEND_MAX
             /\ t.firing_open_send_count = s.firing_open_send_count + 1
             /\ t.last_firing_open_send = 0
  BY <1>1, LatchedDispatch DEF dispatch
<1> HIDE DEF s, t
<1> QED
  BY <1>2, <1>3, <1>4 DEF s, t

\* Lines 181-213: the code counts each OPEN as the record does, and latches the
\* valve in the iteration that first finds it open.
LEMMA RecordDispatchInv == ASSUME IInv, FiringInv, RecordDispatch PROVE FiringInv'
<1> DEFINE s == servo_command_state
           t == dispatch.state
           sends == SEQUENCE_PHASE = "Firing" /\ signalled = MAIN_VALVE_OPEN_ANGLE_X10
<1>1. /\ pc = "apply" /\ SEQUENCE_PHASE' = SEQUENCE_PHASE
      /\ servo_command_state' = t
      /\ since_burn' = since_burn
      /\ opens' = IF sends THEN opens + 1 ELSE opens
      /\ since_open' = IF sends THEN 0 ELSE since_open
      /\ signalled = dispatch.signal
  BY DEF RecordDispatch, ApplyDecision, signalled
<1>2. /\ t.open_latched <=> (s.open_latched \/ firing_open_phase)
      /\ t.open_latch_release_started = s.open_latch_release_started
      /\ SEQUENCE_PHASE = "Firing" =>
           /\ dispatch.signal \in {MAIN_VALVE_OPEN_ANGLE_X10, None}
           /\ dispatch.signal = None =>
                /\ t.firing_open_send_count = s.firing_open_send_count
                /\ t.last_firing_open_send = s.last_firing_open_send
           /\ dispatch.signal # None =>
                /\ s.firing_open_send_count < FIRING_OPEN_SEND_MAX
                /\ t.firing_open_send_count = s.firing_open_send_count + 1
                /\ t.last_firing_open_send = 0
  BY <1>1, DispatchFacts
<1>3. /\ firing_open_phase \in BOOLEAN /\ (firing_open_phase => SEQUENCE_PHASE = "Firing")
      /\ burning' = (burning \/ firing_open_phase)
  BY DEF RecordDispatch, firing_open_phase
<1>4. FiringHistoryTypeOK'
  BY <1>1, <1>3, Durations DEF FiringInv, FiringHistoryTypeOK, Ages
<1>5. ASSUME sends PROVE SendsCounted' /\ OpenSendsBounded'
  <2>1. /\ dispatch.signal # None
        /\ opens' = s.firing_open_send_count + 1 /\ since_open' = 0
    BY <1>1, <1>5, NoneIsNoNumber DEF FiringInv, SendsCounted
  <2>2. s.firing_open_send_count \in Nat
    BY ServoFacts, Durations DEF ServoCommandStates
  <2> HIDE DEF t
  <2> QED
    BY <1>1, <1>2, <1>5, <2>1, <2>2, Durations DEF SendsCounted, OpenSendsBounded
<1>6. ASSUME ~sends PROVE SendsCounted' /\ OpenSendsBounded'
  <2> HIDE DEF t
  <2> QED
    BY <1>1, <1>2, <1>6 DEF FiringInv, SendsCounted, OpenSendsBounded
<1>7. SendsCounted' /\ OpenSendsBounded'
  BY <1>5, <1>6
<1> HIDE DEF t, s
<1>8. BurnLatched'
  BY <1>1, <1>2, <1>3 DEF FiringInv, BurnLatched, s
<1>9. BurnReleases'
  BY <1>1, <1>2 DEF FiringInv, BurnReleases, s
<1> QED
  BY <1>4, <1>7, <1>8, <1>9 DEF FiringInv

\* Every end of a firing that had opened the valve starts the release timer then,
\* and no later transition starts it again.
LEMMA RecordEndInv == ASSUME IInv, FiringInv, RecordEnd PROVE FiringInv'
<1> DEFINE s == servo_command_state
           t == on_phase_transition(s, SEQUENCE_PHASE')
<1>1. /\ SEQUENCE_PHASE' \in {"Timeout", "Abort"}
      /\ servo_command_state' = IF SEQUENCE_PHASE' # SEQUENCE_PHASE THEN t ELSE s
      /\ ~burning' /\ burning' \in BOOLEAN
      /\ since_burn' = IF burning THEN 0 ELSE since_burn
      /\ UNCHANGED <<opens, since_open>>
  BY DEF RecordEnd, AbortFiring, FinishFiring, InhibitInputs, enter_abort, set_sequence_phase
<1>2. /\ s \in ServoCommandStates /\ consistent(s)
      /\ (s.open_latch_release_started # None) <=> (s.open_latched /\ SEQUENCE_PHASE # "Firing")
  BY ServoFacts
<1>3. /\ t.open_latched = s.open_latched
      /\ s.open_latched =>
           t.open_latch_release_started =
             IF s.open_latch_release_started = None THEN 0 ELSE s.open_latch_release_started
  BY <1>1, <1>2, TransitionState DEF Phases
<1> HIDE DEF t
<1>4. FiringHistoryTypeOK' /\ OpenSendsBounded' /\ SendsCounted' /\ BurnLatched'
  BY <1>1, Durations
     DEF FiringInv, FiringHistoryTypeOK, OpenSendsBounded, SendsCounted, BurnLatched, Ages
<1>5. BurnReleases'
  <2>1. CASE burning
    <3>1. s.open_latched /\ SEQUENCE_PHASE = "Firing"
      BY <2>1 DEF FiringInv, BurnLatched
    <3>2. t.open_latched /\ t.open_latch_release_started = 0
      BY <1>2, <1>3, <3>1
    <3> QED
      BY <1>1, <2>1, <3>1, <3>2, NoneIsNoNumber DEF BurnReleases
  <2>2. CASE ~burning
    BY <1>1, <1>3, <2>2 DEF FiringInv, BurnReleases
  <2> QED BY <2>1, <2>2
<1> QED
  BY <1>4, <1>5 DEF FiringInv

\* The other steps: none changes the servo state or enters or leaves Firing.
LEMMA RecordNothingInv == ASSUME FiringInv, RecordNothing PROVE FiringInv'
<1>1. UNCHANGED firingHistory
  BY DEF RecordNothing
<1>2. /\ servo_command_state' = servo_command_state
      /\ \/ SEQUENCE_PHASE' = SEQUENCE_PHASE
         \/ SEQUENCE_PHASE # "Firing" /\ SEQUENCE_PHASE' # "Firing"
  <2>1. CASE LoadFaults \/ LoadResetAck
    BY <2>1 DEF LoadFaults, LoadResetAck, sharedVars, outputVars
  <2>2. CASE ReturnToIdleAfterResetAck \/ ReturnToIdleAfterPreFiringRecovery
    BY <2>2 DEF ReturnToIdleAfterResetAck, ReturnToIdleAfterPreFiringRecovery,
       return_to_idle, set_sequence_phase, on_phase_transition, reset_ack_allows_idle,
       pre_firing_recovery_allows_idle, neutral_and_healthy
  <2>3. CASE StayIdle \/ ContinueFiring \/ HoldTimeout \/ HoldAbort
    BY <2>3 DEF StayIdle, ContinueFiring, HoldTimeout, HoldAbort
  <2>4. CASE Environment
    BY <2>4, EnvironmentFacts DEF localVars
  <2> QED BY <2>1, <2>2, <2>3, <2>4 DEF RecordNothing
<1> QED
  BY <1>1, <1>2, FiringKept

\* Every step preserves what the record shows, given the supervisor's invariant.
LEMMA FiringStepInv ==
  IInv /\ FiringInv /\ [FiringHistoryNext]_<<vars, firingHistory>> => FiringInv'
<1> SUFFICES ASSUME IInv, FiringInv, [FiringHistoryNext]_<<vars, firingHistory>>
             PROVE  FiringInv'
  OBVIOUS
<1>1. CASE UNCHANGED <<vars, firingHistory>>
  BY <1>1, FiringKept DEF vars, localVars, sharedVars, outputVars
<1>2. CASE \E d \in Delays : RecordWake(d)
  BY <1>2, RecordWakeInv
<1>3. CASE RecordStart
  BY <1>3, RecordStartInv
<1>4. CASE RecordDispatch
  BY <1>4, RecordDispatchInv
<1>5. CASE RecordEnd
  BY <1>5, RecordEndInv
<1>6. CASE RecordNothing
  BY <1>6, RecordNothingInv
<1> QED
  BY <1>1, <1>2, <1>3, <1>4, <1>5, <1>6 DEF FiringHistoryNext

\* The invariant of the firing record.
LEMMA FiringInvariance == FiringHistorySpec => []FiringInv
<1> QED
  BY FiringHistoryIInv, FiringHistoryInitInv, FiringStepInv, PTL DEF FiringHistorySpec

\* A firing signals OPEN no more than FIRING_OPEN_SEND_MAX times, for every such
\* limit and however the link comes and goes.
THEOREM SendsBounded == FiringHistorySpec => []OpenSendsBounded
<1>1. FiringInv => OpenSendsBounded
  BY DEF FiringInv
<1> QED
  BY FiringInvariance, <1>1, PTL

\* Two OPEN signals of a firing are a poll interval apart.
THEOREM SendsSpaced == FiringHistorySpec => OpenSendsSpaced
<1>1. IInv /\ FiringInv /\ [FiringHistoryNext]_<<vars, firingHistory>> =>
        [opens' > opens => due(since_open, SERVO_POLL_INTERVAL)]_<<vars, firingHistory>>
  <2> SUFFICES ASSUME IInv, FiringInv, FiringHistoryNext, opens' > opens
               PROVE  due(since_open, SERVO_POLL_INTERVAL)
    OBVIOUS
  <2>1. opens \in Nat
    BY DEF FiringInv, FiringHistoryTypeOK
  <2>2. RecordDispatch
    BY <2>1 DEF FiringHistoryNext, RecordWake, RecordStart, RecordEnd, RecordNothing,
       firingHistory
  <2>3. /\ pc = "apply" /\ SEQUENCE_PHASE = "Firing"
        /\ dispatch.signal = MAIN_VALVE_OPEN_ANGLE_X10
    BY <2>1, <2>2 DEF RecordDispatch, ApplyDecision, signalled
  <2>4. due(servo_command_state.last_firing_open_send, SERVO_POLL_INTERVAL)
    BY <2>3, DispatchFacts, NoneIsNoNumber
  <2> QED
    BY <2>3, <2>4 DEF FiringInv, SendsCounted
<1> QED
  BY FiringHistoryIInv, FiringInvariance, <1>1, PTL DEF FiringHistorySpec, OpenSendsSpaced

\* From the valve-open time of a firing until the release delay after its end no
\* other command reaches the servo and no firing starts, for all durations.
THEOREM ValveUndisturbed == FiringHistorySpec => ValveLeftAlone
<1>1. IInv /\ FiringInv /\ [FiringHistoryNext]_<<vars, firingHistory>> =>
        [burning \/ ~due(since_burn, OPEN_LATCH_RELEASE_DELAY) =>
           /\ signalled # None =>
                burning /\ SEQUENCE_PHASE = "Firing" /\ signalled = MAIN_VALVE_OPEN_ANGLE_X10
           /\ ~(SEQUENCE_PHASE = "Idle" /\ SEQUENCE_PHASE' = "Firing")]_<<vars, firingHistory>>
  <2> SUFFICES ASSUME IInv, FiringInv, FiringHistoryNext,
                      burning \/ ~due(since_burn, OPEN_LATCH_RELEASE_DELAY)
               PROVE  /\ signalled # None =>
                           /\ burning /\ SEQUENCE_PHASE = "Firing"
                           /\ signalled = MAIN_VALVE_OPEN_ANGLE_X10
                      /\ ~(SEQUENCE_PHASE = "Idle" /\ SEQUENCE_PHASE' = "Firing")
    OBVIOUS
  <2>1. /\ servo_command_state.open_latched
        /\ SEQUENCE_PHASE = "Firing" => burning
    BY DEF FiringInv, BurnLatched, BurnReleases
  <2>2. ASSUME signalled # None
        PROVE  burning /\ SEQUENCE_PHASE = "Firing" /\ signalled = MAIN_VALVE_OPEN_ANGLE_X10
    <3>1. pc = "apply" /\ signalled = dispatch.signal
      BY <2>2 DEF signalled
    <3> QED BY <2>1, <2>2, <3>1, DispatchFacts
  <2>3. ASSUME SEQUENCE_PHASE = "Idle", SEQUENCE_PHASE' = "Firing" PROVE FALSE
    <3>1. CASE RecordStart
      BY <2>1, <3>1 DEF RecordStart, StartFiring, start_permission, can_start_firing
    <3>2. CASE \E d \in Delays : RecordWake(d)
      BY <2>3, <3>2 DEF RecordWake, Wake, sharedVars, outputVars
    <3>3. CASE RecordDispatch
      BY <2>3, <3>3 DEF RecordDispatch, ApplyDecision
    <3>4. CASE RecordEnd
      BY <2>3, <3>4 DEF RecordEnd, AbortFiring, FinishFiring, InhibitInputs, enter_abort,
         set_sequence_phase
    <3>5. CASE RecordNothing
      <4>1. CASE Environment
        BY <2>3, <4>1, EnvironmentFacts
      <4>2. CASE ~Environment
        BY <2>3, <3>5, <4>2 DEF RecordNothing, LoadFaults, LoadResetAck,
           ReturnToIdleAfterResetAck, ReturnToIdleAfterPreFiringRecovery, return_to_idle,
           set_sequence_phase, StayIdle, ContinueFiring, HoldTimeout, HoldAbort,
           sharedVars, outputVars
      <4> QED BY <4>1, <4>2
    <3> QED
      BY <3>1, <3>2, <3>3, <3>4, <3>5 DEF FiringHistoryNext
  <2> QED
    BY <2>2, <2>3
<1> QED
  BY FiringHistoryIInv, FiringInvariance, <1>1, PTL DEF FiringHistorySpec, ValveLeftAlone
=============================================================================

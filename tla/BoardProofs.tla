----------------------------- MODULE BoardProofs -----------------------------
(***************************************************************************)
(* The composition, for all constants of its parts: first the two tasks of *)
(* core 0, where servo_task does no more than ServoStep, so that what is   *)
(* proved of the supervisor alone holds with it; then both cores.          *)
(***************************************************************************)
EXTENDS Board, SupervisorProofs

-----------------------------------------------------------------------------
(* Core 0.                                                                  *)

\* An aborted sequence commands no servo.
AbortHolds == awaiting /\ SEQUENCE_PHASE = "Abort" => SERVO_CONTROL_MODE = "HOLD"

ServoTyped ==
  /\ SERVO_COMM_ERROR_COUNT \in 0 .. ERROR_COUNT_MAX
  /\ transfer \in Angles \cup {GetPosition, None}

\* No step of the supervisor writes the faults.
LEMMA IterationKeepsFaults ==
  ASSUME Iteration PROVE FAULT_FLAGS' = FAULT_FLAGS
BY DEF Iteration, Work, HandlePhase, Wake, LoadFaults, LoadResetAck, InhibitInputs,
   ReturnToIdleAfterResetAck, ReturnToIdleAfterPreFiringRecovery, AbortFiring, StartFiring,
   StayIdle, ContinueFiring, FinishFiring, HoldTimeout, HoldAbort, handled, ApplyDecision,
   sharedVars, inputVars

\* The requests are withdrawn or left alone by the supervisor.
LEMMA IterationInputs ==
  ASSUME Iteration PROVE INPUT_FLAGS' \in {INPUT_FLAGS, INPUT_FLAGS \cap {Link}}
<1>1. CASE InhibitInputs
  BY <1>1 DEF InhibitInputs, replace_operator_input_flags
<1>2. CASE ~InhibitInputs
  BY <1>2 DEF Iteration, Work, HandlePhase, Wake, LoadFaults, LoadResetAck,
     ReturnToIdleAfterResetAck, ReturnToIdleAfterPreFiringRecovery, AbortFiring, StartFiring,
     StayIdle, ContinueFiring, FinishFiring, HoldTimeout, HoldAbort, handled, ApplyDecision,
     sharedVars, inputVars
<1> QED BY <1>1, <1>2

\* The steps of the task in terms of its statics alone.
LEMMA TaskFacts ==
  ASSUME Servo!Task
  PROVE  /\ UNCHANGED <<INPUT_FLAGS, RESET_ACK_EVENT_COUNTER, SEQUENCE_PHASE, OUTPUT_STATUS,
                        SERVO_CONTROL_MODE, SERVO_TARGET_ANGLE_X10>>
         /\ ServoStep \/ UNCHANGED sharedVars
         /\ \/ /\ transfer = None /\ ANGLE_COMMAND_SIGNAL # None
               /\ transfer' \in {ANGLE_COMMAND_SIGNAL, None}
               /\ transfer' # None => SERVO_CONTROL_MODE = "COMMAND"
               /\ UNCHANGED <<FAULT_FLAGS, SERVO_COMM_ERROR_COUNT>>
            \/ transfer' = GetPosition /\ UNCHANGED <<FAULT_FLAGS, SERVO_COMM_ERROR_COUNT>>
            \/ /\ transfer' = None /\ SERVO_COMM_ERROR_COUNT' = 0
               /\ FAULT_FLAGS' = IF SERVO_COMM_ERROR_COUNT >= SERVO_COMM_ERROR_LIMIT
                                   THEN FAULT_FLAGS \ ServoFaults ELSE FAULT_FLAGS
            \/ /\ transfer' = None
               /\ SERVO_COMM_ERROR_COUNT' = Servo!saturating_add(SERVO_COMM_ERROR_COUNT)
               /\ FAULT_FLAGS' = IF SERVO_COMM_ERROR_COUNT' = SERVO_COMM_ERROR_LIMIT
                                   THEN FAULT_FLAGS \cup ServoFaults ELSE FAULT_FLAGS
<1> USE DEF sharedVars, inputVars, outputVars, Servo!sharedVars, Servo!inputVars, Servo!outputVars
<1>1. CASE Servo!TakeCommand
  BY <1>1 DEF Servo!TakeCommand, ServoStep, TakeAngleCommand
<1>2. CASE Servo!PollPosition
  BY <1>2 DEF Servo!PollPosition
<1>3. CASE Servo!TransferOk
  BY <1>3 DEF Servo!TransferOk, Servo!servo_fault_active, Servo!clear_fault_flags,
     Servo!ServoFaults, ServoFaults, ServoStep, ClearServoFault, clear_fault_flags
<1>4. CASE Servo!TransferErr
  BY <1>4 DEF Servo!TransferErr, Servo!servo_fault_raised, Servo!set_fault_flags,
     Servo!ServoFaults, ServoFaults, ServoStep, RaiseServoFault, set_fault_flags
<1> QED BY <1>1, <1>2, <1>3, <1>4 DEF Servo!Task

\* In Abort the scheduler holds the servo, whatever is requested.
LEMMA AbortDispatch ==
  ASSUME SEQUENCE_PHASE = "Abort" PROVE dispatch.action = None
<1>1. decision.servo = None
  BY DEF decision, resolve_control, servo_allowed
<1>2. ~(SEQUENCE_PHASE = "Firing")
  OBVIOUS
<1>3. None # MAIN_VALVE_OPEN_ANGLE_X10 /\ None # MAIN_VALVE_CLOSED_ANGLE_X10
  BY NoneIsNoNumber
<1> QED
  BY <1>1, <1>2, <1>3 DEF dispatch, schedule, schedule_latched, schedule_manual, hold

\* An iteration that leaves the board in Abort holds the servo.
LEMMA AbortHoldsStep ==
  ASSUME AbortHolds, Iteration PROVE AbortHolds'
<1>1. CASE InhibitInputs \/ AbortFiring
  BY <1>1 DEF InhibitInputs, AbortFiring, force_safe_outputs, apply_decision, AbortHolds
<1>2. CASE ApplyDecision
  <2>1. /\ SEQUENCE_PHASE' = SEQUENCE_PHASE
        /\ SERVO_CONTROL_MODE' = IF dispatch.action = None THEN "HOLD" ELSE "COMMAND"
    BY <1>2 DEF ApplyDecision, apply_decision
  <2> QED BY <2>1, AbortDispatch DEF AbortHolds
<1>3. CASE ~(InhibitInputs \/ AbortFiring \/ ApplyDecision)
  <2>1. pc' # "wait"
    BY <1>3 DEF Iteration, Work, HandlePhase, Wake, LoadFaults, LoadResetAck,
       ReturnToIdleAfterResetAck, ReturnToIdleAfterPreFiringRecovery, StartFiring, StayIdle,
       ContinueFiring, FinishFiring, HoldTimeout, HoldAbort, handled
  <2> QED BY <2>1 DEF AbortHolds, awaiting
<1> QED BY <1>1, <1>2, <1>3

\* A step of either task, or of the other core, is a step of Supervisor.
LEMMA CoreStepRefines ==
  ASSUME [CoreNext]_coreVars PROVE [Next]_vars
<1>1. CASE Supervise
  BY <1>1 DEF Supervise, Next
<1>2. CASE Serve
  BY <1>2, TaskFacts DEF Serve, Next, Environment, awaiting, vars
<1>3. CASE OtherCore
  BY <1>3 DEF OtherCore, Next, Environment
<1>4. CASE UNCHANGED coreVars
  BY <1>4 DEF coreVars
<1> QED BY <1>1, <1>2, <1>3, <1>4 DEF CoreNext

\* The error limit and the count's maximum, and a request that is no angle.
LEMMA Limits ==
  /\ SERVO_COMM_ERROR_LIMIT \in Nat /\ SERVO_COMM_ERROR_LIMIT > 0
  /\ ERROR_COUNT_MAX \in Nat /\ SERVO_COMM_ERROR_LIMIT <= ERROR_COUNT_MAX
  /\ GetPosition \notin Angles /\ GetPosition # None
BY LimitAssumption, GetPositionAssumption
   DEF Angles, MAIN_VALVE_OPEN_ANGLE_X10, MAIN_VALVE_CLOSED_ANGLE_X10

\* The other core touches neither the servo fault nor the servo.
LEMMA OtherCoreFacts ==
  ASSUME CanStep
  PROVE  /\ "SERVO_COMM_ERROR" \in FAULT_FLAGS' <=> "SERVO_COMM_ERROR" \in FAULT_FLAGS
         /\ UNCHANGED outputVars
BY RaisedAssumption DEF CanStep, ButtonFrame, DropLink, DropCommands, RaiseCanFault, ClearCanFaults,
   SignalResetAck, set_fault_flags, clear_fault_flags, ClearableCanFaults, CanFaults

ServoInv == AbortHolds /\ ServoTyped /\ FaultIffLimit

\* The invariant of the servo side is inductive, given the supervisor's.
LEMMA ServoInvStep ==
  ASSUME IInv, ServoInv, [CoreNext]_coreVars PROVE ServoInv'
<1> USE Limits DEF ServoFaults
<1>1. SERVO_COMM_ERROR_COUNT \in Nat /\ SERVO_COMM_ERROR_COUNT <= ERROR_COUNT_MAX
  BY DEF ServoInv, ServoTyped
<1>2. CASE Supervise
  <2>1. UNCHANGED <<SERVO_COMM_ERROR_COUNT, transfer, FAULT_FLAGS>>
    BY <1>2, IterationKeepsFaults DEF Supervise
  <2>2. AbortHolds'
    BY <1>2, AbortHoldsStep DEF Supervise, ServoInv
  <2> QED
    BY <2>1, <2>2 DEF ServoInv, ServoTyped, FaultIffLimit, Servo!FaultIffLimit,
       Servo!servo_fault_active
<1>3. CASE Serve
  <2>1. UNCHANGED <<pc, SEQUENCE_PHASE, SERVO_CONTROL_MODE>>
    BY <1>3, TaskFacts DEF Serve, localVars
  <2>2. AbortHolds'
    BY <2>1 DEF ServoInv, AbortHolds, awaiting
  <2>3. ANGLE_COMMAND_SIGNAL \in Angles \cup {None}
    BY DEF IInv, TypeOK, SharedTypeOK
  <2>4. Servo!saturating_add(SERVO_COMM_ERROR_COUNT) =
          IF SERVO_COMM_ERROR_COUNT < ERROR_COUNT_MAX THEN SERVO_COMM_ERROR_COUNT + 1
                                                      ELSE ERROR_COUNT_MAX
    BY DEF Servo!saturating_add
  <2>5. ServoTyped'
    BY <1>1, <1>3, <2>3, <2>4, TaskFacts DEF Serve, ServoInv, ServoTyped
  <2>6. "SERVO_COMM_ERROR" \in FAULT_FLAGS <=> SERVO_COMM_ERROR_COUNT >= SERVO_COMM_ERROR_LIMIT
    BY DEF ServoInv, FaultIffLimit, Servo!FaultIffLimit, Servo!servo_fault_active
  <2>7. "SERVO_COMM_ERROR" \in FAULT_FLAGS' <=>
          SERVO_COMM_ERROR_COUNT' >= SERVO_COMM_ERROR_LIMIT
    BY <1>1, <1>3, <2>4, <2>6, TaskFacts DEF Serve
  <2> QED
    BY <2>2, <2>5, <2>7 DEF ServoInv, FaultIffLimit, Servo!FaultIffLimit,
       Servo!servo_fault_active
<1>4. CASE OtherCore
  BY <1>4, OtherCoreFacts DEF OtherCore, ServoInv, AbortHolds, ServoTyped, FaultIffLimit,
     Servo!FaultIffLimit, Servo!servo_fault_active, awaiting, localVars, outputVars
<1>5. CASE UNCHANGED coreVars
  BY <1>5 DEF coreVars, vars, sharedVars, inputVars, outputVars, localVars, ServoInv, AbortHolds,
     ServoTyped, FaultIffLimit, Servo!FaultIffLimit, Servo!servo_fault_active, awaiting
<1> QED BY <1>2, <1>3, <1>4, <1>5 DEF CoreNext

\* It holds initially.
LEMMA ServoInvInit == CoreInit => ServoInv
BY Limits DEF CoreInit, Init, SharedInit, Servo!TaskInit, ServoInv, AbortHolds, ServoTyped,
   FaultIffLimit, Servo!FaultIffLimit, Servo!servo_fault_active

\* servo_task does to the supervisor only what ServoStep allows, so everything
\* proved of the supervisor holds with servo_task beside it (servo.rs 38-75).
THEOREM ServoKeepsItsWord == CoreSpec => ImplementsSupervisor
<1>1. CoreInit => Init
  BY DEF CoreInit
<1>2. [CoreNext]_coreVars => [Next]_vars
  BY CoreStepRefines
<1> QED BY <1>1, <1>2, PTL DEF CoreSpec, Spec, ImplementsSupervisor

\* Both hold for ever.
LEMMA CoreInvariance == CoreSpec => [](IInv /\ ServoInv)
<1>1. CoreSpec => []IInv
  BY ServoKeepsItsWord, Invariance, PTL DEF ImplementsSupervisor
<1>2. IInv /\ ServoInv /\ [CoreNext]_coreVars => ServoInv'
  BY ServoInvStep
<1> QED BY <1>1, <1>2, ServoInvInit, PTL DEF CoreSpec

\* For every error limit and count width SERVO_COMM_ERROR stands exactly while
\* the count of failures has reached the limit (servo.rs 57-75).
THEOREM ServoFaultCounts == CoreSpec => []FaultIffLimit
<1>1. ServoInv => FaultIffLimit
  BY DEF ServoInv
<1> QED BY <1>1, CoreInvariance, PTL

\* The variables of core 0 keep their types.
THEOREM CoreTypeCorrect == CoreSpec => []CoreTypeOK
<1>1. IInv /\ ServoInv => CoreTypeOK
  BY DEF IInv, TypeOK, ServoInv, ServoTyped, CoreTypeOK, Servo!TypeOK, Servo!SharedTypeOK,
     SharedTypeOK, Servo!AllFaults, AllFaults, Servo!CanFaults, CanFaults,
     Servo!HardOutputInhibitFaults, HardOutputInhibitFaults, Servo!ServoFaults, ServoFaults,
     Servo!InputBits, InputBits, Servo!OperatorActions, OperatorActions, Servo!Link, Link,
     Servo!Phases, Phases, Servo!Outputs, Outputs, Servo!Angles, Angles,
     Servo!MAIN_VALVE_OPEN_ANGLE_X10, MAIN_VALVE_OPEN_ANGLE_X10,
     Servo!MAIN_VALVE_CLOSED_ANGLE_X10, MAIN_VALVE_CLOSED_ANGLE_X10
<1> QED BY <1>1, CoreInvariance, PTL

\* The angle that goes out on the wire is always the target in force, and none
\* goes out in Abort, for every timing of the two tasks (servo.rs 43-52).
THEOREM WireAngleCurrent == CoreSpec => WireFollowsTarget
<1>1. IInv /\ ServoInv /\ [CoreNext]_coreVars =>
        [transfer' # transfer /\ transfer' \in Angles =>
           transfer' = SERVO_TARGET_ANGLE_X10 /\ SEQUENCE_PHASE # "Abort"]_coreVars
  <2> SUFFICES ASSUME IInv, ServoInv, CoreNext, transfer' # transfer, transfer' \in Angles
               PROVE  transfer' = SERVO_TARGET_ANGLE_X10 /\ SEQUENCE_PHASE # "Abort"
    BY DEF coreVars
  <2>1. Serve
    BY DEF CoreNext, Supervise, OtherCore
  <2>2. /\ transfer' = ANGLE_COMMAND_SIGNAL /\ ANGLE_COMMAND_SIGNAL # None
        /\ SERVO_CONTROL_MODE = "COMMAND" /\ awaiting
    BY <2>1, TaskFacts, Limits, NoneIsNoNumber DEF Serve, Angles
  <2>3. NoStaleAngle
    BY CurrentAngle
  <2> QED BY <2>2, <2>3 DEF NoStaleAngle, ServoInv, AbortHolds
<1> QED BY <1>1, CoreInvariance, PTL DEF CoreSpec, WireFollowsTarget

-----------------------------------------------------------------------------
(* Both cores.                                                              *)

BoardInv == IInv /\ Can!IInv

\* What core 1 does is a step of the environment of core 0, or none of it.
LEMMA Core1IsCanStep ==
  ASSUME CanAssumption, BoardInv, Core1Step
  PROVE  CanStep \/ UNCHANGED sharedVars
<1>1. RaisedCanFaults = Can!CanFaults
  BY DEF CanAssumption, Can!CanFaults, CanFaults
<1>2. Can!IInv
  BY DEF BoardInv
<1>3. Can!CanTask \/ Can!Tick \/ Can!ControllerChanges \/ Can!ControllerRecovers
  BY DEF Core1Step
<1>4. Can!CanStep \/ UNCHANGED Can!sharedVars
  BY <1>1, <1>2, <1>3, NoneAssumption, FramesAssumption, RaisedAssumption, CounterAssumption,
     DurationAssumption, Can!CanStepsGuarantee
     DEF CanAssumption, Can!OperatorActions, OperatorActions, Can!CanFaults, CanFaults
<1>5. Can!CanStep <=> CanStep
  BY DEF Can!CanStep, CanStep, Can!ButtonFrame, ButtonFrame, Can!DropLink, DropLink,
     Can!DropCommands, DropCommands, Can!RaiseCanFault, RaiseCanFault,
     Can!ClearCanFaults, ClearCanFaults, Can!SignalResetAck, SignalResetAck,
     Can!ClearableCanFaults, ClearableCanFaults, Can!Link, Link, Can!outputVars, outputVars,
     Can!replace_operator_input_flags_and_set_can_link_active,
     replace_operator_input_flags_and_set_can_link_active, Can!replace_operator_input_flags,
     replace_operator_input_flags, Can!set_fault_flags, set_fault_flags,
     Can!clear_fault_flags, clear_fault_flags, Can!signal_reset_ack_event, signal_reset_ack_event
<1>6. (UNCHANGED Can!sharedVars) <=> UNCHANGED sharedVars
  BY DEF Can!sharedVars, sharedVars, Can!inputVars, inputVars, Can!outputVars, outputVars
<1> QED BY <1>4, <1>5, <1>6

\* Core 0 withdraws requests and touches no CAN fault.
LEMMA Core0KeepsCan ==
  ASSUME CanAssumption, BoardInv, IInv', UNCHANGED core1Vars,
         Supervise \/ Serve \/ UNCHANGED coreVars
  PROVE  Can!IInv'
<1>1. INPUT_FLAGS' \in {INPUT_FLAGS, INPUT_FLAGS \cap {Link}}
  <2>1. CASE Supervise
    BY <2>1, IterationInputs DEF Supervise
  <2>2. CASE Serve
    BY <2>2, TaskFacts DEF Serve
  <2>3. CASE UNCHANGED coreVars
    BY <2>3 DEF coreVars, vars, sharedVars, inputVars
  <2> QED BY <2>1, <2>2, <2>3
<1>2. FAULT_FLAGS \cap CanFaults \subseteq FAULT_FLAGS'
  <2>1. CASE Supervise
    BY <2>1, IterationKeepsFaults DEF Supervise
  <2>2. CASE Serve
    BY <2>2, TaskFacts DEF Serve, ServoFaults, CanFaults
  <2>3. CASE UNCHANGED coreVars
    BY <2>3 DEF coreVars, vars, sharedVars, inputVars
  <2> QED BY <2>1, <2>2, <2>3
<1>3. Can!SharedTypeOK'
  <2>1. SharedTypeOK'
    BY DEF IInv, TypeOK
  <2> QED
    BY <2>1 DEF SharedTypeOK, Can!SharedTypeOK, Can!AllFaults, AllFaults, Can!CanFaults, CanFaults,
       Can!HardOutputInhibitFaults, HardOutputInhibitFaults, Can!ServoFaults, ServoFaults,
       Can!InputBits, InputBits, Can!OperatorActions, OperatorActions, Can!Link, Link,
       Can!Phases, Phases, Can!Outputs, Outputs, Can!Angles, Angles,
       Can!MAIN_VALVE_OPEN_ANGLE_X10, MAIN_VALVE_OPEN_ANGLE_X10,
       Can!MAIN_VALVE_CLOSED_ANGLE_X10, MAIN_VALVE_CLOSED_ANGLE_X10
<1>4. UNCHANGED Can!canVars
  BY DEF core1Vars, Can!canVars
<1>5. Can!IInv
  BY DEF BoardInv
<1>6. /\ INPUT_FLAGS' \in {INPUT_FLAGS, INPUT_FLAGS \cap {Can!Link}}
      /\ FAULT_FLAGS \cap Can!CanFaults \subseteq FAULT_FLAGS'
  BY <1>1, <1>2 DEF Can!Link, Link, Can!CanFaults, CanFaults
<1> QED
  BY <1>3, <1>4, <1>5, <1>6, NoneAssumption, FramesAssumption, RaisedAssumption,
     CounterAssumption, DurationAssumption, Can!OtherCoreInv
     DEF CanAssumption, Can!OperatorActions, OperatorActions, Can!CanFaults, CanFaults

\* Core 1 preserves its own invariant.
LEMMA Core1KeepsCan ==
  ASSUME CanAssumption, BoardInv, Core1Step
  PROVE  Can!IInv'
<1>1. Can!IInv
  BY DEF BoardInv
<1>2. Can!CanTask \/ Can!Tick \/ Can!ControllerChanges \/ Can!ControllerRecovers
  BY DEF Core1Step
<1> QED
  BY <1>1, <1>2, NoneAssumption, FramesAssumption, RaisedAssumption, CounterAssumption,
     DurationAssumption, Can!CanStepsInv
     DEF CanAssumption, Can!OperatorActions, OperatorActions, Can!CanFaults, CanFaults

\* A step of the board is a step of Core0.
LEMMA BoardStepRefines ==
  ASSUME CanAssumption, BoardInv, [BoardNext]_boardVars
  PROVE  [CoreNext]_coreVars
<1>1. CASE Core0Step
  BY <1>1 DEF Core0Step, CoreNext
<1>2. CASE Core1Step
  BY <1>2, Core1IsCanStep DEF Core1Step, CoreNext, OtherCore, coreVars, vars
<1>3. CASE UNCHANGED boardVars
  BY <1>3 DEF boardVars
<1> QED BY <1>1, <1>2, <1>3 DEF BoardNext

\* The invariants of the two cores are inductive together.
LEMMA BoardInvStep ==
  ASSUME CanAssumption, BoardInv, [BoardNext]_boardVars
  PROVE  BoardInv'
<1>1. IInv'
  <2>1. [Next]_vars
    BY BoardStepRefines, CoreStepRefines
  <2> QED BY <2>1, StepInv DEF BoardInv
<1>2. CASE Core0Step
  BY <1>1, <1>2, Core0KeepsCan DEF Core0Step, BoardInv
<1>3. CASE Core1Step
  BY <1>1, <1>3, Core1KeepsCan DEF BoardInv
<1>4. CASE UNCHANGED boardVars
  BY <1>1, <1>4, Core0KeepsCan DEF boardVars, BoardInv
<1> QED BY <1>2, <1>3, <1>4 DEF BoardNext

\* Both hold when core 1 is started.
LEMMA BoardInvInit == ASSUME CanAssumption, BoardInit PROVE BoardInv
<1>1. Init /\ Can!TaskInit
  BY DEF BoardInit, CoreInit
<1>2. SharedInit
  BY <1>1 DEF Init
<1>3. Can!SharedInit
  BY <1>2 DEF SharedInit, Can!SharedInit, Can!MAIN_VALVE_CLOSED_ANGLE_X10,
     MAIN_VALVE_CLOSED_ANGLE_X10
<1>4. Can!IInv
  BY <1>1, <1>3, NoneAssumption, FramesAssumption, RaisedAssumption, CounterAssumption,
     DurationAssumption, Can!InitIInv
     DEF CanAssumption, Can!OperatorActions, OperatorActions, Can!CanFaults, CanFaults
<1> QED BY <1>1, <1>4, InitInv DEF BoardInv

\* Both hold for ever.
LEMMA BoardInvariance == ASSUME CanAssumption PROVE BoardSpec => []BoardInv
<1>1. BoardInit => BoardInv
  BY BoardInvInit
<1>2. BoardInv /\ [BoardNext]_boardVars => BoardInv'
  BY BoardInvStep
<1> QED BY <1>1, <1>2, PTL DEF BoardSpec

\* The whole board behaves, on core 0, as Core0 does against a core 1 that obeys
\* CanStep: the interleaving of the single stores of can_manager_task with the
\* steps of the supervisor, its own store to the inputs included, adds nothing
\* (can_communication.rs 152-192, 403-472, supervisor.rs 102-118).
THEOREM BoardImplementsCore0 ==
  ASSUME CanAssumption
  PROVE  BoardSpec => ImplementsCore0
<1>1. BoardInit => CoreInit
  BY DEF BoardInit
<1>2. BoardInv /\ [BoardNext]_boardVars => [CoreNext]_coreVars
  BY BoardStepRefines
<1> QED BY <1>1, <1>2, BoardInvariance, PTL DEF BoardSpec, CoreSpec, ImplementsCore0

\* The safety of the supervisor on the whole board: the igniter, the valve, the
\* latch and the abort after a servo fault, with no assumption about what the
\* other tasks do left.
THEOREM BoardSafe ==
  ASSUME CanAssumption
  PROVE  BoardSpec => /\ [](IgniterOnlyInWindow /\ FiringOnlyOpensValve)
                      /\ [](LatchReleasable /\ ServoFaultAborts)
                      /\ ServoAbortIsFinal
<1>1. IInv => /\ IgniterOnlyInWindow /\ FiringOnlyOpensValve /\ LatchReleasable
              /\ ServoFaultAborts
  BY DEF IInv, ServoAbortPending, ServoFaultAborts, awaiting
<1>2. BoardInv => IInv
  BY DEF BoardInv
<1>3. BoardSpec => Spec
  BY BoardImplementsCore0, ServoKeepsItsWord, PTL DEF ImplementsCore0, ImplementsSupervisor
<1> QED BY <1>1, <1>2, <1>3, BoardInvariance, ServoAbortFinal, PTL

\* The three tasks together implement the abstract firing: whatever the other core
\* stores and however the servo answers, no step of the board leaves its order.
THEOREM BoardFires ==
  ASSUME CanAssumption
  PROVE  BoardSpec => ImplementsSequence
<1>1. BoardSpec => Spec
  BY BoardImplementsCore0, ServoKeepsItsWord, PTL DEF ImplementsCore0, ImplementsSupervisor
<1> QED BY <1>1, FiringSequenceImplemented, PTL

\* On the whole board every angle that reaches the servo is the target in force.
THEOREM BoardWireCurrent ==
  ASSUME CanAssumption
  PROVE  BoardSpec => WireFollowsTarget
BY BoardImplementsCore0, WireAngleCurrent, PTL DEF ImplementsCore0

\* A bus-off that core 1 knows at its select has left its fault and no request
\* or link bit, whatever core 0 stores meanwhile (can_communication.rs 403-436).
THEOREM BoardBusOff ==
  ASSUME CanAssumption
  PROVE  BoardSpec => []BusOffStopsBoard
<1>1. Can!IInv => BusOffStopsBoard
  BY Can!NoStores DEF Can!IInv, Can!BusOffOnItsWay, Can!BusOffStopsInputs, Can!settled, Can!at,
     Can!Raises, BusOffStopsBoard
<1>2. BoardInv => Can!IInv
  BY DEF BoardInv
<1> QED BY <1>1, <1>2, BoardInvariance, PTL
=============================================================================

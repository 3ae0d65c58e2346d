------------------------------- MODULE Core0 --------------------------------
(***************************************************************************)
(* The two tasks of core 0 together: the supervisor of Supervisor and the  *)
(* servo_task of ServoTask on one cooperative executor, against whatever   *)
(* core 1 stores.  The supervisor awaits only at its select, so there the  *)
(* servo task runs.                                                        *)
(***************************************************************************)
EXTENDS Supervisor

CONSTANTS SERVO_COMM_ERROR_LIMIT, ERROR_COUNT_MAX, GetPosition
ASSUME GetPositionAssumption == GetPosition \notin Int \cup {None}
ASSUME LimitAssumption ==
  /\ SERVO_COMM_ERROR_LIMIT \in Nat \ {0}
  /\ ERROR_COUNT_MAX \in Nat /\ SERVO_COMM_ERROR_LIMIT <= ERROR_COUNT_MAX

VARIABLES SERVO_COMM_ERROR_COUNT, transfer

Servo == INSTANCE ServoTask

coreVars == <<vars, SERVO_COMM_ERROR_COUNT, transfer>>

CoreInit == Init /\ Servo!TaskInit

Supervise == Iteration /\ UNCHANGED <<SERVO_COMM_ERROR_COUNT, transfer>>

\* A slip: servo_task is given an executor that preempts the supervisor's.
Serve_preempting == Servo!Task /\ UNCHANGED localVars

Serve == awaiting /\ Servo!Task /\ UNCHANGED localVars

OtherCore == CanStep /\ UNCHANGED <<localVars, SERVO_COMM_ERROR_COUNT, transfer>>

CoreNext == Supervise \/ Serve \/ OtherCore

CoreSpec == CoreInit /\ [][CoreNext]_coreVars

(* The executor runs a task that is ready: the ticker makes the supervisor  *)
(* ready again and again, and transfers begin and end: the reply timeout    *)
(* (100 ms) and the poll timer (200 ms) see to that, and a signalled angle  *)
(* is taken at the next await, which finds it cancelled only if core 1 had  *)
(* woken the supervisor in that very iteration.                             *)
CoreFairness ==
  /\ WF_coreVars(Supervise)
  /\ SF_coreVars(TimePasses /\ UNCHANGED <<SERVO_COMM_ERROR_COUNT, transfer>>)
  /\ SF_coreVars(Serve) /\ SF_coreVars(Serve /\ transfer' # transfer)

FairCoreSpec == CoreSpec /\ CoreFairness

-----------------------------------------------------------------------------
CoreTypeOK == TypeOK /\ Servo!TypeOK

\* What Supervisor assumes of the servo task holds of it: with servo_task in
\* the place of ServoStep, the supervisor behaves as checked and proved there.
ImplementsSupervisor == Spec

\* The fault is set exactly while the count has reached its limit, although it
\* is raised at one value of the count and cleared from any above it, and the
\* count saturates (servo.rs 57-75).
FaultIffLimit == Servo!FaultIffLimit

\* An angle that reaches the servo is the target in force at that moment: one
\* signalled for an earlier command never goes out after a newer decision
\* (servo.rs 43-52, servo_control.rs 157-184).
WireFollowsTarget ==
  [][transfer' # transfer /\ transfer' \in Angles =>
       transfer' = SERVO_TARGET_ANGLE_X10 /\ SEQUENCE_PHASE # "Abort"]_coreVars

\* A servo that answers no more keeps the board out of Firing for good, through
\* any phase the operator brings it to (servo.rs 64-75, supervisor.rs 142-157,
\* lib.rs 239-242).
DeadServoStopsFiring ==
  <>[][~(Servo!TransferOk /\ UNCHANGED localVars)]_coreVars =>
    <>[](SEQUENCE_PHASE # "Firing" /\ "SERVO_COMM_ERROR" \in FAULT_FLAGS)
=============================================================================

--------------------------- MODULE FiringHistory ----------------------------
(***************************************************************************)
(* The supervisor with a record of the servo commands it has signalled     *)
(* around a firing, kept from the outside: from the dispatches and the     *)
(* phases only, never from ServoCommandState, whose bookkeeping (latch,    *)
(* send count, timestamps) the properties below judge.                     *)
(***************************************************************************)
EXTENDS Supervisor

VARIABLES
  opens,                     \* OPEN signals in this firing
  since_open,                \* age of the last one, or None
  burning,                   \* this firing has reached its valve-open time
  since_burn                 \* age of the end of such a firing, or None

firingHistory == <<opens, since_open, burning, since_burn>>

FiringHistoryInit ==
  Init /\ opens = 0 /\ since_open = None /\ burning = FALSE /\ since_burn = None

signalled == IF pc = "apply" THEN dispatch.signal ELSE None

RecordWake(d) ==
  /\ Wake(d)
  /\ since_open' = older(since_open, d, SERVO_POLL_INTERVAL)
  /\ since_burn' = older(since_burn, d, OPEN_LATCH_RELEASE_DELAY)
  /\ UNCHANGED <<opens, burning>>

RecordStart ==
  /\ StartFiring
  /\ opens' = 0 /\ since_open' = None
  /\ UNCHANGED <<burning, since_burn>>

RecordDispatch ==
  /\ ApplyDecision
  /\ burning' = (burning \/ firing_open_phase)
  /\ IF SEQUENCE_PHASE = "Firing" /\ signalled = MAIN_VALVE_OPEN_ANGLE_X10
       THEN /\ since_open' = 0
            /\ opens' = opens + 1
       ELSE UNCHANGED <<opens, since_open>>
  /\ UNCHANGED since_burn

RecordEnd ==
  /\ AbortFiring \/ FinishFiring \/ InhibitInputs
  /\ burning' = FALSE
  /\ since_burn' = IF burning THEN 0 ELSE since_burn
  /\ UNCHANGED <<opens, since_open>>

RecordNothing ==
  /\ \/ LoadFaults \/ LoadResetAck
     \/ ReturnToIdleAfterResetAck \/ ReturnToIdleAfterPreFiringRecovery
     \/ StayIdle \/ ContinueFiring \/ HoldTimeout \/ HoldAbort
     \/ Environment
  /\ UNCHANGED firingHistory

FiringHistoryNext ==
  \/ \E d \in Delays : RecordWake(d)
  \/ RecordStart \/ RecordDispatch \/ RecordEnd \/ RecordNothing

FiringHistorySpec == FiringHistoryInit /\ [][FiringHistoryNext]_<<vars, firingHistory>>

-----------------------------------------------------------------------------
\* One firing signals OPEN at most FIRING_OPEN_SEND_MAX times, through every
\* loss and return of the link in between (servo_control.rs 130-148).
OpenSendsBounded == opens <= FIRING_OPEN_SEND_MAX

\* Two OPEN signals of a firing are a poll interval apart, so servo_task has
\* time for one before the next (servo_control.rs 141-147).
OpenSendsSpaced ==
  [][opens' > opens => due(since_open, SERVO_POLL_INTERVAL)]_<<vars, firingHistory>>

\* From the valve-open time of a firing until OPEN_LATCH_RELEASE_DELAY after
\* its end, no command but the firing's OPEN reaches the servo and no new
\* firing starts, whichever way the firing ended and through however many
\* phases since (servo_control.rs 58-85, 119-128; supervisor.rs 166).
ValveLeftAlone ==
  [][burning \/ ~due(since_burn, OPEN_LATCH_RELEASE_DELAY) =>
       /\ signalled # None =>
            burning /\ SEQUENCE_PHASE = "Firing" /\ signalled = MAIN_VALVE_OPEN_ANGLE_X10
       /\ ~(SEQUENCE_PHASE = "Idle" /\ SEQUENCE_PHASE' = "Firing")]_<<vars, firingHistory>>

-----------------------------------------------------------------------------
(* Why they hold: together these parts are inductive (HistoryProofs).       *)

FiringHistoryTypeOK ==
  /\ opens \in Nat
  /\ since_open \in Ages(SERVO_POLL_INTERVAL)
  /\ burning \in BOOLEAN
  /\ since_burn \in Ages(OPEN_LATCH_RELEASE_DELAY)

\* In a firing the code's memory of its sends is the record.
SendsCounted ==
  SEQUENCE_PHASE = "Firing" =>
    /\ opens = servo_command_state.firing_open_send_count
    /\ since_open = servo_command_state.last_firing_open_send

\* A firing that opens the valve has latched it, and the latch outlasts the
\* firing by the delay: its release timer is no older than the firing's end.
BurnLatched == burning => SEQUENCE_PHASE = "Firing" /\ servo_command_state.open_latched
BurnReleases ==
  ~due(since_burn, OPEN_LATCH_RELEASE_DELAY) =>
    /\ SEQUENCE_PHASE # "Firing"
    /\ servo_command_state.open_latched
    /\ servo_command_state.open_latch_release_started # None
    /\ servo_command_state.open_latch_release_started <= since_burn

FiringInv ==
  FiringHistoryTypeOK /\ SendsCounted /\ OpenSendsBounded /\ BurnLatched /\ BurnReleases
=============================================================================

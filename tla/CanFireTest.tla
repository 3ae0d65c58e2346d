----------------------------- MODULE CanFireTest -----------------------------
(***************************************************************************)
(* The hardware test src/tests/can_fire.rs: a board that drives only the   *)
(* igniter, straight from the FIRE bit of the panel's frames, with its own *)
(* command timeout and its own way out of a failed transmission.           *)
(*                                                                         *)
(* A branch of its select is an action; a transmission is two, because     *)
(* time passes in between.  At its select the loop is prompt: no time      *)
(* passes while a watch is due, and the select polls the watch before the  *)
(* status ticker.  The contents of status frames are left out.             *)
(***************************************************************************)
EXTENDS Integers

CONSTANTS
  None,
  COMMAND_TIMEOUT, COMMAND_WATCH_INTERVAL, CAN_RECOVERY_RETRY_INTERVAL, CAN_TX_TIMEOUT
ASSUME FireTestAssumption ==
  /\ None \notin Int
  /\ {COMMAND_TIMEOUT, COMMAND_WATCH_INTERVAL,
      CAN_RECOVERY_RETRY_INTERVAL, CAN_TX_TIMEOUT} \subseteq Nat \ {0}

\* The longest a command may keep the igniter on: the watch may just miss the
\* timeout, and then wait for a transmission.
LONGEST == COMMAND_TIMEOUT + COMMAND_WATCH_INTERVAL + CAN_TX_TIMEOUT

VARIABLES
  fire_on,
  command_age,               \* time since last_valid_command, or None
  tx_runtime_state,
  restart_in,                \* time until next_restart_at, or None
  watch_in,                  \* time until the next command_watch; it may be overdue
  transmitting,              \* for how long a frame has been under way, or None
  heard                      \* a button frame since transmission was last suspended

fireVars == <<fire_on, command_age, tx_runtime_state, restart_in, watch_in,
              transmitting, heard>>

TypeOK ==
  /\ fire_on \in BOOLEAN /\ heard \in BOOLEAN
  /\ command_age \in 0 .. LONGEST \cup {None}
  /\ tx_runtime_state \in {"Normal", "SuspendedAfterTimeout", "ProbePending"}
  /\ restart_in \in 0 .. CAN_RECOVERY_RETRY_INTERVAL \cup {None}
  /\ watch_in \in -CAN_TX_TIMEOUT .. COMMAND_WATCH_INTERVAL
  /\ transmitting \in 0 .. CAN_TX_TIMEOUT \cup {None}

Init ==
  /\ fire_on = FALSE /\ command_age = None
  /\ tx_runtime_state = "Normal" /\ restart_in = None
  /\ watch_in = COMMAND_WATCH_INTERVAL /\ transmitting = None
  /\ heard = TRUE

at_select == transmitting = None

force_fire_off == fire_on' = FALSE /\ command_age' = None

\* restart_now: the controller is restarted and a probe is due.
restart == tx_runtime_state' = "ProbePending" /\ restart_in' = None

\* A slip: the command is obeyed before transmission has recovered.
ReceiveButton_obeys(fire) ==
  /\ at_select
  /\ fire_on' = fire /\ command_age' = 0
  /\ tx_runtime_state' = IF tx_runtime_state = "SuspendedAfterTimeout"
                           THEN "ProbePending" ELSE tx_runtime_state
  /\ restart_in' = IF tx_runtime_state = "SuspendedAfterTimeout" THEN None ELSE restart_in
  /\ heard' = TRUE
  /\ UNCHANGED <<watch_in, transmitting>>

ReceiveButton(fire) ==
  /\ at_select
  /\ IF tx_runtime_state = "Normal"
       THEN /\ fire_on' = fire /\ command_age' = 0
            /\ UNCHANGED <<tx_runtime_state, restart_in>>
       ELSE /\ force_fire_off
            /\ IF tx_runtime_state = "SuspendedAfterTimeout"
                 THEN tx_runtime_state' = "ProbePending" /\ restart_in' = None
                 ELSE UNCHANGED <<tx_runtime_state, restart_in>>
  /\ heard' = TRUE
  /\ UNCHANGED <<watch_in, transmitting>>

\* A button frame of the wrong length, or an error other than bus-off.
ReceiveInvalid ==
  /\ at_select
  /\ force_fire_off
  /\ UNCHANGED <<tx_runtime_state, restart_in, watch_in, transmitting, heard>>

ReceiveBusOff ==
  /\ at_select
  /\ force_fire_off
  /\ restart
  /\ heard' = FALSE
  /\ UNCHANGED <<watch_in, transmitting>>

CommandWatch ==
  /\ at_select /\ watch_in <= 0
  /\ watch_in' = watch_in + COMMAND_WATCH_INTERVAL
  /\ IF fire_on /\ command_age # None /\ command_age >= COMMAND_TIMEOUT
       THEN force_fire_off ELSE UNCHANGED <<fire_on, command_age>>
  /\ UNCHANGED <<tx_runtime_state, restart_in, transmitting, heard>>

-----------------------------------------------------------------------------
(* The 50 ms ticker: a status frame, a probe, or a restart that is due.     *)

Transmit ==
  /\ at_select /\ watch_in > 0
  /\ tx_runtime_state # "SuspendedAfterTimeout"
  /\ transmitting' = 0
  /\ UNCHANGED <<fire_on, command_age, tx_runtime_state, restart_in, watch_in, heard>>

RestartDue ==
  /\ at_select /\ watch_in > 0
  /\ tx_runtime_state = "SuspendedAfterTimeout" /\ restart_in = 0
  /\ restart
  /\ UNCHANGED <<fire_on, command_age, watch_in, transmitting, heard>>

TransmitOk ==
  /\ transmitting # None
  /\ transmitting' = None
  /\ tx_runtime_state' = "Normal"
  /\ restart_in' = IF tx_runtime_state = "ProbePending" THEN None ELSE restart_in
  /\ UNCHANGED <<fire_on, command_age, watch_in, heard>>

\* An error after which the same frame is sent again.
TransmitRetry ==
  /\ transmitting # None
  /\ transmitting' = None
  /\ UNCHANGED <<fire_on, command_age, tx_runtime_state, restart_in, watch_in, heard>>

\* A timeout or bus-off: a failed status frame leads to a restart at once, a
\* failed probe to one later.
\* A slip: nobody restarts after a failed probe.
TransmitSuspends_for_good ==
  /\ transmitting # None
  /\ transmitting' = None
  /\ force_fire_off
  /\ IF tx_runtime_state = "Normal" THEN restart
     ELSE tx_runtime_state' = "SuspendedAfterTimeout" /\ UNCHANGED restart_in
  /\ heard' = FALSE
  /\ UNCHANGED watch_in

TransmitSuspends ==
  /\ transmitting # None
  /\ transmitting' = None
  /\ force_fire_off
  /\ IF tx_runtime_state = "Normal" THEN restart
     ELSE /\ tx_runtime_state' = "SuspendedAfterTimeout"
          /\ restart_in' = CAN_RECOVERY_RETRY_INTERVAL
  /\ heard' = FALSE
  /\ UNCHANGED watch_in

-----------------------------------------------------------------------------
later(time) == IF time = None THEN None ELSE time + 1
sooner(time) == IF time = None \/ time = 0 THEN time ELSE time - 1

\* Bound: the age of a command that keeps nothing on stops at LONGEST.
Tick ==
  /\ IF at_select THEN watch_in > 0 ELSE transmitting < CAN_TX_TIMEOUT
  /\ command_age' = IF command_age = LONGEST /\ ~fire_on THEN LONGEST ELSE later(command_age)
  /\ restart_in' = sooner(restart_in)
  /\ watch_in' = watch_in - 1
  /\ transmitting' = later(transmitting)
  /\ UNCHANGED <<fire_on, tx_runtime_state, heard>>

Failure == ReceiveInvalid \/ ReceiveBusOff \/ TransmitRetry \/ TransmitSuspends

Next ==
  \/ \E fire \in BOOLEAN : ReceiveButton(fire)
  \/ CommandWatch \/ Transmit \/ RestartDue \/ TransmitOk \/ Tick \/ Failure

Spec == Init /\ [][Next]_fireVars

(* Frames leave the tickers their turn, and a transmission is bounded.      *)
FairSpec ==
  /\ Spec
  /\ WF_fireVars(Tick) /\ WF_fireVars(CommandWatch)
  /\ SF_fireVars(Transmit) /\ SF_fireVars(RestartDue)
  /\ WF_fireVars(TransmitOk \/ TransmitRetry \/ TransmitSuspends)

-----------------------------------------------------------------------------
\* The igniter is on only by a command no older than what the code allows: the
\* timeout, one interval of the watch that looks for it and one transmission that
\* holds the loop; and never while transmission has not recovered, whatever arrives in
\* whatever order (can_fire.rs 126-153, 195-209, 301-313). The bound is the code's, not
\* the README's: LowAfterTimeout.
FireBacked ==
  fire_on =>
    command_age # None /\ command_age < LONGEST /\ tx_runtime_state = "Normal"

\* Once nothing fails any more, status frames are sent again, whatever failed
\* before and even if the panel is never heard (can_fire.rs 230-265).
TransmissionReturns ==
  <>[][~Failure]_fireVars => <>[](tx_runtime_state = "Normal")

\* "... if no next command is received within 500 ms of the last valid one, the output
\* goes Low by itself" (README.md 31-32 of the repository; can_fire.rs 195-209).
LowAfterTimeout ==
  fire_on => command_age # None /\ command_age <= COMMAND_TIMEOUT

\* "... stops the periodic transmission and sends a probe after receiving a
\* valid ButtonFromCtrlPanel" (README.md 36-38 of the repository).
ProbeAfterHeard ==
  [][Transmit /\ tx_runtime_state = "ProbePending" => heard]_fireVars
=============================================================================

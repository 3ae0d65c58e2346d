----------------------------- MODULE CanHistory -----------------------------
(***************************************************************************)
(* can_manager_task with a record of the traffic on the bus: what was      *)
(* heard from the panel and what was sent since the last failure.  The     *)
(* record is kept from the frames and the transmissions alone, never from  *)
(* tx_runtime_state, restart_attempted or reset_ack_prev, which it judges. *)
(***************************************************************************)
EXTENDS CanManager

VARIABLES
  heard,                     \* a frame accepted since transmission last failed
  sent_since_timeout,        \* a frame sent since a transmission last timed out
  sent_since_restart,        \* a frame sent since the controller was restarted
  last_reset_ack,            \* the reset-ack bit of the last button frame
  pressed                    \* it was set there and clear in the frame before

historyVars == <<heard, sent_since_timeout, sent_since_restart, last_reset_ack, pressed>>

HistoryInit ==
  /\ Init
  /\ heard = TRUE
  /\ sent_since_timeout = TRUE /\ sent_since_restart = TRUE
  /\ last_reset_ack = FALSE /\ pressed = FALSE

\* The controller was seen bus-off, so nothing that was heard counts.
seen_bus_off == health = "BusOff"

RecordButtons(b, ack) ==
  /\ ReceiveButtons(b, ack)
  /\ heard' = (heard \/ ~seen_bus_off)
  /\ last_reset_ack' = ack
  /\ pressed' = (ack /\ ~last_reset_ack)
  /\ UNCHANGED <<sent_since_timeout, sent_since_restart>>

RecordBranch ==
  /\ (\E error \in {"BusOff", "Overrun", "Other"} : ReceiveError(error)) \/ TxTick \/ HealthTick
  /\ heard' = (heard /\ ~seen_bus_off)
  /\ UNCHANGED <<sent_since_timeout, sent_since_restart, last_reset_ack, pressed>>

RecordTransmitted(result) ==
  /\ Transmitted(result)
  /\ heard' = (heard /\ ~suspends(result))
  /\ sent_since_timeout' = (result = "Ok" \/ (sent_since_timeout /\ result # "TimedOutUnknownState"))
  /\ sent_since_restart' = (result = "Ok" \/ sent_since_restart)
  /\ UNCHANGED <<last_reset_ack, pressed>>

RecordRestart ==
  /\ Restart
  /\ sent_since_restart' = FALSE
  /\ UNCHANGED <<heard, sent_since_timeout, last_reset_ack, pressed>>

RecordNothing ==
  /\ \/ ReceiveOther \/ Store \/ BackOff \/ Loop
     \/ Tick \/ ControllerChanges \/ ControllerRecovers \/ SupervisorStep
  /\ UNCHANGED historyVars

HistoryNext ==
  \/ \E b \in Frames, ack \in BOOLEAN : RecordButtons(b, ack)
  \/ RecordBranch
  \/ \E result \in TxResults : RecordTransmitted(result)
  \/ RecordRestart \/ RecordNothing

HistorySpec == HistoryInit /\ [][HistoryNext]_<<vars, historyVars>>

FairHistorySpec == HistorySpec /\ Fairness

-----------------------------------------------------------------------------
\* After a timeout or bus-off nothing is transmitted before the panel has been
\* heard again (can_communication.rs 78-80, 385-401; README.md 37-40 of the
\* repository states it for the test firmware).
SilentUntilHeard ==
  [][pc # "transmit" /\ pc' = "transmit" => heard]_<<vars, historyVars>>

\* CAN_TX_TIMEOUT is cleared, and with it a new firing allowed, only after a
\* transmission has been seen to complete again (can_communication.rs 253-262).
TimeoutClearedBySend ==
  []["CAN_TX_TIMEOUT" \in FAULT_FLAGS \ FAULT_FLAGS' => sent_since_timeout]_<<vars, historyVars>>

\* A controller that fails again before it has sent anything is not restarted
\* again (can_communication.rs 64-68, 142-149).
RestartsEarned ==
  [][Restart => sent_since_restart]_<<vars, historyVars>>

\* One press of reset, one event: holding the button through a bus-off, a lost
\* link or other commands counts nothing more (can_communication.rs 160-181).
AckIsEdge ==
  [][RESET_ACK_EVENT_COUNTER' # RESET_ACK_EVENT_COUNTER => pressed]_<<vars, historyVars>>

-----------------------------------------------------------------------------
(* Why they hold: together these parts are inductive (CanHistoryProofs).    *)

\* tx_runtime_state leaves its suspension only for what has been heard, and is
\* Normal only after something has been sent.
HeardNow == tx_runtime_state # "SuspendedAfterTimeout" => heard
SentNow == tx_runtime_state = "Normal" => sent_since_timeout /\ sent_since_restart

\* A restart is asked for only in suspension, and permitted again only by a send.
RestartNow ==
  /\ try_restart => pc = "restart" /\ tx_runtime_state = "SuspendedAfterTimeout"
  /\ ~restart_attempted => sent_since_restart

AckNow == reset_ack_prev = last_reset_ack

\* The stores on their way were justified when they were made, and still are:
\* no frame is received or sent before the last of them.
Earned(s) ==
  /\ s.op \in {"clear_on_recovery", "clear_for_reset"} /\ "CAN_TX_TIMEOUT" \in s.arg =>
       sent_since_timeout
  /\ s.op = "reset_ack" => pressed
StoresEarned == \A i \in 1 .. Len(stores) : Earned(stores[i])

TrafficInv == HeardNow /\ SentNow /\ RestartNow /\ AckNow /\ StoresEarned
=============================================================================

----------------------------- MODULE CanManager -----------------------------
(***************************************************************************)
(* can_manager_task of src/src/tasks/can_communication.rs, the only task   *)
(* of core 1: it receives the panel's button frames, transmits status      *)
(* frames on a ticker, watches the health of the controller, and stores    *)
(* what it learns in FAULT_FLAGS and INPUT_FLAGS.                          *)
(*                                                                         *)
(* A branch of the select decides from the controller and the task's own   *)
(* locals, so the whole branch is one action; but the supervisor on the    *)
(* other core may run between any two of its stores.  The action therefore *)
(* leaves its atomic stores, in the order of the code, in `stores', and    *)
(* Store performs them one by one.                                         *)
(*                                                                         *)
(* Left out: the payload of status frames, error counters, CAN_COMM_ACTIVE *)
(* and the log.  Tickers may fire whenever the task is at its select.      *)
(***************************************************************************)
EXTENDS GseBoard, Sequences

CONSTANTS
  COMMUNICATION_TIMEOUT,     \* in ticks
  TxResults                  \* what a transmission may end in
ASSUME TimeoutAssumption == COMMUNICATION_TIMEOUT \in Nat \ {0}
ASSUME ResultsAssumption ==
  TxResults \subseteq
    {"Ok", "TransmitFailed", "TimedOutUnknownState", "BusOff", "FrameCreateFailed"}

CanHealth == {"Active", "Warning", "Passive", "BusOff"}

VARIABLES
  controller,                \* the TWAI peripheral: its health, or "Recovering"
                             \* (restarted, and still bus-off for a while)
  CAN_HEALTH,
  pc,                        \* where the task goes once its stores are done
  stores,
  tx_runtime_state,
  peer_age,                  \* time since last_peer_rx, or since start before that
  reset_ack_prev,
  restart_attempted,
  try_restart

canVars == <<controller, CAN_HEALTH, pc, stores, tx_runtime_state, peer_age,
             reset_ack_prev, restart_attempted, try_restart>>
vars == <<sharedVars, canVars>>

store(op, arg) == [op |-> op, arg |-> arg]

TypeOK ==
  /\ SharedTypeOK
  /\ controller \in CanHealth \cup {"Recovering"}
  /\ CAN_HEALTH \in CanHealth
  /\ pc \in {"select", "transmit", "restart", "backoff"}
  /\ stores \in Seq([op : {"update_input_flag", "replace", "replace_and_link", "set_fault",
                           "clear_on_recovery", "clear_for_reset", "reset_ack"},
                     arg : SUBSET (InputBits \cup CanFaults)])
  /\ tx_runtime_state \in {"Normal", "SuspendedAfterTimeout", "ProbePending"}
  /\ peer_age \in 0 .. COMMUNICATION_TIMEOUT
  /\ reset_ack_prev \in BOOLEAN
  /\ restart_attempted \in BOOLEAN
  /\ try_restart \in BOOLEAN

\* The task starts right after its controller (update_can_health, line 58).
TaskInit ==
  /\ controller = "Active" /\ CAN_HEALTH = "Active"
  /\ pc = "select" /\ stores = <<>>
  /\ tx_runtime_state = "Normal"
  /\ peer_age = 0
  /\ reset_ack_prev = FALSE
  /\ restart_attempted = FALSE /\ try_restart = FALSE

Init == SharedInit /\ TaskInit

-----------------------------------------------------------------------------
(* The stores of the helpers, in order.                                     *)

inhibit_can_inputs == <<store("update_input_flag", {Link}), store("replace", {})>>

\* A slip: the fault is raised before the inputs are withdrawn.
raise_first(fault) == <<store("set_fault", {fault})>> \o inhibit_can_inputs

raise(fault) == inhibit_can_inputs \o <<store("set_fault", {fault})>>

\* What the peripheral reports now.
health == IF controller = "Recovering" THEN "BusOff" ELSE controller

update_can_health == IF health = "BusOff" THEN raise("CAN_BUS_OFF") ELSE <<>>

\* A slip: the fault is raised and the inputs are left standing.
update_peer_liveness_keeps_inputs ==
  IF peer_age >= COMMUNICATION_TIMEOUT
    THEN <<store("set_fault", {"CAN_PEER_LOST"})>> ELSE <<>>

update_peer_liveness ==
  IF peer_age >= COMMUNICATION_TIMEOUT THEN raise("CAN_PEER_LOST") ELSE <<>>

\* A slip: any frame proves that transmission works.
recoverable_can_faults_with_timeout ==
  {"CAN_PEER_LOST", "CAN_TX_TIMEOUT"}
    \cup (IF health = "Active" THEN {"CAN_BUS_OFF"} ELSE {})

recoverable_can_faults ==
  {"CAN_PEER_LOST"}
    \cup (IF tx_runtime_state = "Normal" THEN {"CAN_TX_TIMEOUT"} ELSE {})
    \cup (IF health = "Active" THEN {"CAN_BUS_OFF"} ELSE {})

\* The same faults are clearable: CAN_HEALTH has just been updated.
handle_reset_ack_edge ==
  <<store("clear_for_reset", recoverable_can_faults), store("reset_ack", {})>>

\* A slip: bus-off found by a transmission leaves the inputs to the next tick.
record_tx_error_later(result) ==
  CASE result = "FrameCreateFailed"    -> raise("CAN_TX_FRAME_CREATE_FAILED")
    [] result = "TimedOutUnknownState" -> raise("CAN_TX_TIMEOUT") \o update_can_health
    [] OTHER                           -> <<>>

record_tx_error(result) ==
  CASE result = "FrameCreateFailed"    -> raise("CAN_TX_FRAME_CREATE_FAILED")
    [] result = "TimedOutUnknownState" -> raise("CAN_TX_TIMEOUT") \o update_can_health
    [] result = "BusOff"               -> raise("CAN_BUS_OFF")
    [] OTHER                           -> <<>>

suspends(result) == result \in {"TimedOutUnknownState", "BusOff"}

-----------------------------------------------------------------------------
(* The branches of the select.  At each the task has no store left to make. *)

at(label) == pc = label /\ stores = <<>>

\* A branch that found the controller bus-off suspends transmission and asks
\* for a restart.
goes_on(label) ==
  /\ CAN_HEALTH' = health
  /\ IF health = "BusOff"
       THEN /\ pc' = "restart"
            /\ try_restart' = TRUE
            /\ tx_runtime_state' = "SuspendedAfterTimeout"
       ELSE /\ pc' = label
            /\ UNCHANGED <<try_restart, tx_runtime_state>>
  /\ UNCHANGED <<sharedVars, controller, peer_age, reset_ack_prev, restart_attempted>>

\* Slips: a frame lets a probe go only from an active controller; a frame met
\* in bus-off is not remembered.
ReceiveButtons_probe_if_active(b, reset_ack_now) ==
  /\ at("select")
  /\ pc' = "restart"
  /\ CAN_HEALTH' = health
  /\ reset_ack_prev' = reset_ack_now
  /\ IF health = "BusOff"
       THEN /\ stores' = update_can_health \o inhibit_can_inputs
            /\ UNCHANGED <<peer_age, tx_runtime_state>>
       ELSE /\ stores' =
                 <<store("replace_and_link", b),
                   store("clear_on_recovery", recoverable_can_faults)>>
                 \o (IF reset_ack_now /\ ~reset_ack_prev /\ b = {}
                       THEN handle_reset_ack_edge ELSE <<>>)
            /\ peer_age' = 0
            /\ tx_runtime_state' =
                 IF tx_runtime_state = "SuspendedAfterTimeout" /\ health = "Active"
                   THEN "ProbePending" ELSE tx_runtime_state
  /\ UNCHANGED <<sharedVars, controller, restart_attempted, try_restart>>

ReceiveButtons_forgets_press(b, reset_ack_now) ==
  /\ at("select")
  /\ pc' = "restart"
  /\ CAN_HEALTH' = health
  /\ IF health = "BusOff"
       THEN /\ stores' = update_can_health \o inhibit_can_inputs
            /\ UNCHANGED <<peer_age, tx_runtime_state, reset_ack_prev>>
       ELSE /\ stores' =
                 <<store("replace_and_link", b),
                   store("clear_on_recovery", recoverable_can_faults)>>
                 \o (IF reset_ack_now /\ ~reset_ack_prev /\ b = {}
                       THEN handle_reset_ack_edge ELSE <<>>)
            /\ peer_age' = 0
            /\ reset_ack_prev' = reset_ack_now
            /\ tx_runtime_state' = IF tx_runtime_state = "SuspendedAfterTimeout"
                                     THEN "ProbePending" ELSE tx_runtime_state
  /\ UNCHANGED <<sharedVars, controller, restart_attempted, try_restart>>

\* A button frame: its requests and its reset-ack bit.
ReceiveButtons(b, reset_ack_now) ==
  /\ at("select")
  /\ pc' = "restart"
  /\ CAN_HEALTH' = health
  /\ reset_ack_prev' = reset_ack_now
  /\ IF health = "BusOff"
       THEN /\ stores' = update_can_health \o inhibit_can_inputs
            /\ UNCHANGED <<peer_age, tx_runtime_state>>
       ELSE /\ stores' =
                 <<store("replace_and_link", b),
                   store("clear_on_recovery", recoverable_can_faults)>>
                 \o (IF reset_ack_now /\ ~reset_ack_prev /\ b = {}
                       THEN handle_reset_ack_edge ELSE <<>>)
            /\ peer_age' = 0
            /\ tx_runtime_state' = IF tx_runtime_state = "SuspendedAfterTimeout"
                                     THEN "ProbePending" ELSE tx_runtime_state
  /\ UNCHANGED <<sharedVars, controller, restart_attempted, try_restart>>

\* A frame with another identifier, or of the wrong length.
ReceiveOther ==
  /\ at("select")
  /\ pc' = "restart"
  /\ CAN_HEALTH' = health
  /\ stores' = update_can_health
  /\ UNCHANGED <<sharedVars, controller, tx_runtime_state, peer_age, reset_ack_prev,
                 restart_attempted, try_restart>>

ReceiveError(error) ==
  /\ at("select")
  /\ stores' = (CASE error = "BusOff"  -> raise("CAN_BUS_OFF")
                  [] error = "Overrun" -> raise("CAN_PEER_LOST")
                  [] OTHER             -> <<>>) \o update_can_health
  /\ goes_on("restart")

\* The 50 ms ticker: liveness, health, then a status frame or a probe.
TxTick ==
  /\ at("select")
  /\ stores' = update_peer_liveness \o update_can_health
  /\ goes_on(IF tx_runtime_state = "SuspendedAfterTimeout" THEN "restart" ELSE "transmit")

\* The 100 ms ticker.
HealthTick ==
  /\ at("select")
  /\ stores' = update_peer_liveness \o update_can_health
  /\ goes_on("restart")

\* A slip: a failed status frame is followed by a probe at once.
StatusSent_then_probe(result) ==
  /\ at("transmit") /\ tx_runtime_state = "Normal"
  /\ tx_runtime_state' = IF suspends(result) THEN "ProbePending" ELSE "Normal"
  /\ stores' = record_tx_error(result)

StatusSent(result) ==
  /\ at("transmit") /\ tx_runtime_state = "Normal"
  /\ tx_runtime_state' = IF suspends(result) THEN "SuspendedAfterTimeout" ELSE "Normal"
  /\ stores' = record_tx_error(result)

ProbeSent(result) ==
  /\ at("transmit") /\ tx_runtime_state = "ProbePending"
  /\ tx_runtime_state' = IF result = "Ok" THEN "Normal" ELSE "SuspendedAfterTimeout"
  /\ stores' = record_tx_error(result) \o (IF result = "Ok" THEN <<>> ELSE inhibit_can_inputs)

\* transmit_frame_with_timeout is over.  (TxInhibited cannot happen: the
\* health was tested before, and nothing else stores it.)
Transmitted(result) ==
  /\ StatusSent(result) \/ ProbeSent(result)
  /\ pc' = "restart"
  /\ try_restart' = suspends(result)
  /\ CAN_HEALTH' = CASE result = "TimedOutUnknownState" -> health
                     [] result = "BusOff"               -> "BusOff"
                     [] OTHER                           -> CAN_HEALTH
  /\ UNCHANGED <<sharedVars, controller, peer_age, reset_ack_prev, restart_attempted>>

\* A slip: a good health alone earns another restart.
still_attempted_until_healthy(attempted) == attempted /\ CAN_HEALTH = "BusOff"

\* The test at the head of the loop, on the flag as the last round left it.
still_attempted(attempted) ==
  attempted /\ ~(CAN_HEALTH # "BusOff" /\ tx_runtime_state = "Normal")

\* Lines 142-148: one restart, then only a pause, until transmission is Normal.
Restart ==
  /\ at("restart") /\ try_restart /\ ~restart_attempted
  /\ controller' = IF controller = "BusOff" THEN "Recovering" ELSE controller
  /\ restart_attempted' = still_attempted(TRUE)
  /\ pc' = "select"
  /\ try_restart' = FALSE
  /\ UNCHANGED <<sharedVars, CAN_HEALTH, stores, tx_runtime_state, peer_age, reset_ack_prev>>

BackOff ==
  /\ at("restart") /\ try_restart /\ restart_attempted
  /\ pc' = "backoff"
  /\ try_restart' = FALSE
  /\ UNCHANGED <<sharedVars, controller, CAN_HEALTH, stores, tx_runtime_state, peer_age,
                 reset_ack_prev, restart_attempted>>

Loop ==
  /\ at("backoff") \/ (at("restart") /\ ~try_restart)
  /\ pc' = "select"
  /\ restart_attempted' = still_attempted(restart_attempted)
  /\ UNCHANGED <<sharedVars, controller, CAN_HEALTH, stores, tx_runtime_state, peer_age,
                 reset_ack_prev, try_restart>>

\* One atomic of lib.rs.
Store ==
  /\ stores # <<>>
  /\ stores' = Tail(stores)
  /\ LET s == Head(stores)
     IN  \/ /\ s.op = "update_input_flag"
            /\ INPUT_FLAGS' = INPUT_FLAGS \ s.arg
            /\ UNCHANGED <<FAULT_FLAGS, RESET_ACK_EVENT_COUNTER>>
         \/ /\ s.op = "replace"
            /\ replace_operator_input_flags(s.arg)
            /\ UNCHANGED <<FAULT_FLAGS, RESET_ACK_EVENT_COUNTER>>
         \/ /\ s.op = "replace_and_link"
            /\ replace_operator_input_flags_and_set_can_link_active(s.arg)
            /\ UNCHANGED <<FAULT_FLAGS, RESET_ACK_EVENT_COUNTER>>
         \/ /\ s.op = "set_fault"
            /\ set_fault_flags(s.arg)
            /\ UNCHANGED <<INPUT_FLAGS, RESET_ACK_EVENT_COUNTER>>
         \/ /\ s.op \in {"clear_on_recovery", "clear_for_reset"}
            /\ clear_fault_flags(s.arg)
            /\ UNCHANGED <<INPUT_FLAGS, RESET_ACK_EVENT_COUNTER>>
         \/ /\ s.op = "reset_ack"
            /\ signal_reset_ack_event
            /\ UNCHANGED <<FAULT_FLAGS, INPUT_FLAGS>>
  /\ UNCHANGED <<outputVars, controller, CAN_HEALTH, pc, tx_runtime_state, peer_age,
                 reset_ack_prev, restart_attempted, try_restart>>

-----------------------------------------------------------------------------
(* The environment: time at an await, the peripheral, the supervisor.       *)

Tick ==
  /\ stores = <<>> /\ pc # "restart"
  /\ peer_age < COMMUNICATION_TIMEOUT
  /\ peer_age' = peer_age + 1
  /\ UNCHANGED <<sharedVars, controller, CAN_HEALTH, pc, stores, tx_runtime_state,
                 reset_ack_prev, restart_attempted, try_restart>>

\* Only a restart takes the peripheral out of bus-off.
ControllerChanges ==
  /\ stores = <<>>
  /\ controller \notin {"BusOff", "Recovering"}
  /\ controller' \in CanHealth \ {controller}
  /\ UNCHANGED <<sharedVars, CAN_HEALTH, pc, stores, tx_runtime_state, peer_age,
                 reset_ack_prev, restart_attempted, try_restart>>

ControllerRecovers ==
  /\ stores = <<>>
  /\ controller = "Recovering"
  /\ controller' = "Active"
  /\ UNCHANGED <<sharedVars, CAN_HEALTH, pc, stores, tx_runtime_state, peer_age,
                 reset_ack_prev, restart_attempted, try_restart>>

SupervisorStep ==
  /\ replace_operator_input_flags({})
  /\ UNCHANGED <<FAULT_FLAGS, RESET_ACK_EVENT_COUNTER, outputVars, canVars>>

Branch ==
  \/ \E b \in Frames, ack \in BOOLEAN : ReceiveButtons(b, ack)
  \/ ReceiveOther
  \/ \E error \in {"BusOff", "Overrun", "Other"} : ReceiveError(error)
  \/ TxTick \/ HealthTick

GoOn == Store \/ (\E result \in TxResults : Transmitted(result)) \/ Restart \/ BackOff \/ Loop

CanTask == Branch \/ GoOn

Next == CanTask \/ Tick \/ ControllerChanges \/ ControllerRecovers \/ SupervisorStep

Spec == Init /\ [][Next]_vars

(* What the task has begun it completes (a transmission is bounded by its   *)
(* timeout), and a restarted controller recovers.  The select polls the     *)
(* reception first.  In bus-off that is ready in every round, with a frame  *)
(* still queued or with the error, so some branch is taken, but a ticker    *)
(* perhaps never.  Otherwise a frame takes longer to arrive at 125 kbit/s   *)
(* than to be handled, so each ticker has its turn again and again.         *)
Fairness ==
  /\ WF_vars(GoOn) /\ WF_vars(ControllerRecovers)
  /\ WF_vars(Branch /\ health = "BusOff")
  /\ SF_vars(TxTick /\ health # "BusOff")
  /\ SF_vars(HealthTick /\ health # "BusOff")

FairSpec == Spec /\ Fairness

-----------------------------------------------------------------------------
settled == at("select")

\* Whatever order its branches and the supervisor's stores interleave in, this
\* task changes the statics only in the ways the supervisor is modelled and
\* proved against: a fault is raised with the inputs already withdrawn, cleared
\* with the link up, and a reset counted with no request left
\* (can_communication.rs 152-192, 466-472).
GuaranteesCanStep == [][CanStep \/ SupervisorStep]_sharedVars

\* A controller known to be bus-off has left its fault, and no request of the
\* operator or link bit survives it, in whatever branch it was noticed
\* (can_communication.rs 161-165, 403-416, 431-436).
BusOffStopsInputs ==
  settled /\ CAN_HEALTH = "BusOff" =>
    INPUT_FLAGS = {} /\ "CAN_BUS_OFF" \in FAULT_FLAGS

silent == peer_age = COMMUNICATION_TIMEOUT
lost_for(faults) == INPUT_FLAGS = {} /\ faults \cap FAULT_FLAGS # {}

\* A panel that stays silent is noticed, through transmissions that time out,
\* restarts and back-offs: its requests and its link go, and a fault stands. That
\* fault is CAN_PEER_LOST if the controller is ever off bus-off again. In a bus-off
\* for good the error is received in every round, ahead of the tickers that look at
\* the panel, and the fault may be CAN_BUS_OFF alone (can_communication.rs 68,
\* 80-87, 142-148, 264-276).
SilentPanelIsLost ==
  /\ silent ~> lost_for({"CAN_PEER_LOST", "CAN_BUS_OFF"}) \/ peer_age = 0
  /\ []<>(health # "BusOff") => (silent ~> lost_for({"CAN_PEER_LOST"}) \/ peer_age = 0)

\* Once the controller stays off bus-off, transmissions succeed and the panel
\* keeps sending, transmission is Normal again and stays so, and the link comes back,
\* from every state a failure can have left. A controller whose one restart is
\* spent and that is bus-off again stays so: the first hypothesis excludes it
\* (can_communication.rs 76-81, 127-133).
TransmissionResumes ==
  /\ <>[](controller \notin {"BusOff", "Recovering"})
  /\ <>[][~\E result \in TxResults \ {"Ok"} : Transmitted(result)]_vars
  /\ []<><<\E b \in Frames, ack \in BOOLEAN : ReceiveButtons(b, ack)>>_vars
  => <>[](tx_runtime_state = "Normal") /\ []<>(Link \in INPUT_FLAGS)

\* lib.rs 44: "CAN faults are latched until an explicit reset".
CanFaultsLatched ==
  [][CanFaults \cap (FAULT_FLAGS \ FAULT_FLAGS') # {} =>
       Head(stores).op = "clear_for_reset"]_vars
=============================================================================

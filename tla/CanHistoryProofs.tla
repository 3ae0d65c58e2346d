-------------------------- MODULE CanHistoryProofs --------------------------
(***************************************************************************)
(* can_manager_task judged by the traffic on the bus: it is silent until   *)
(* the panel is heard, restarts its controller once, clears a timeout only *)
(* after a transmission and counts one reset for one press, for every      *)
(* timeout, frame set, counter width and outcome of the transmissions.     *)
(***************************************************************************)
EXTENDS CanHistory, CanManagerProofs

\* The record only watches: every behaviour with it is one of the task.
LEMMA HistoryStep == [HistoryNext]_<<vars, historyVars>> => [Next]_vars
BY DEF HistoryNext, RecordButtons, RecordBranch, RecordTransmitted, RecordRestart,
   RecordNothing, Next, CanTask, Branch, GoOn

\* So the task's invariant holds beside it.
LEMMA HistoryIInv == HistorySpec => []IInv
<1>1. HistoryInit => Init
  BY DEF HistoryInit
<1> QED
  BY <1>1, HistoryStep, Invariance, PTL DEF HistorySpec, Spec

\* A store that withdraws or raises needs no justification.
LEMMA WithdrawingEarned ==
  ASSUME Withdraws(stores')
  PROVE  StoresEarned'
BY DEF Withdraws, Withdrawing, StoresEarned, Earned

\* The initial state: nothing has failed yet.
LEMMA HistoryInitInv == HistoryInit => TrafficInv
<1> SUFFICES ASSUME HistoryInit PROVE TrafficInv
  OBVIOUS
<1>1. HeardNow /\ SentNow /\ RestartNow
  BY DEF HistoryInit, Init, TaskInit, HeardNow, SentNow, RestartNow
<1>2. AckNow
  BY DEF HistoryInit, Init, TaskInit, AckNow
<1>3. stores = <<>>
  BY DEF HistoryInit, Init, TaskInit
<1>4. StoresEarned
  BY <1>3, NoStores DEF StoresEarned
<1> QED
  BY <1>1, <1>2, <1>4 DEF TrafficInv

\* The stores of an accepted frame: a timeout among the faults they clear needs
\* a transmission, and a reset event the press.
LEMMA FrameEarned ==
  ASSUME NEW b \in Frames, NEW cs \in SUBSET ClearableCanFaults, NEW edge \in BOOLEAN,
         "CAN_TX_TIMEOUT" \in cs => sent_since_timeout', edge => pressed',
         stores' = <<store("replace_and_link", b), store("clear_on_recovery", cs)>>
                   \o (IF edge THEN <<store("clear_for_reset", cs), store("reset_ack", {})>>
                               ELSE <<>>)
  PROVE  StoresEarned'
<1> DEFINE s == <<store("replace_and_link", b), store("clear_on_recovery", cs)>>
           t == <<store("clear_for_reset", cs), store("reset_ack", {})>>
<1>1. /\ b \in SUBSET (InputBits \cup CanFaults)
      /\ cs \in SUBSET (InputBits \cup CanFaults)
  BY FramesAssumption DEF InputBits, ClearableCanFaults, CanFaults
<1>2. /\ s \in Seq(StoreRecords) /\ Len(s) = 2
      /\ s[1] = store("replace_and_link", b) /\ s[2] = store("clear_on_recovery", cs)
      /\ t \in Seq(StoreRecords) /\ Len(t) = 2
      /\ t[1] = store("clear_for_reset", cs) /\ t[2] = store("reset_ack", {})
  BY <1>1 DEF store, StoreRecords, Ops
<1>3. stores' = s \o (IF edge THEN t ELSE <<>>)
  OBVIOUS
<1> HIDE DEF s, t
<1>4. CASE edge
  <2>1. stores' = s \o t
    BY <1>3, <1>4
  <2>2. /\ Len(stores') = 4
        /\ \A i \in 1 .. 4 : stores'[i] = IF i <= 2 THEN s[i] ELSE t[i - 2]
    BY <1>2, <2>1, ConcatProperties
  <2>3. /\ stores'[1] = store("replace_and_link", b)
        /\ stores'[2] = store("clear_on_recovery", cs)
        /\ stores'[3] = store("clear_for_reset", cs)
        /\ stores'[4] = store("reset_ack", {})
    BY <1>2, <2>2
  <2> QED
    BY <1>4, <2>2, <2>3 DEF StoresEarned, Earned, store
<1>5. CASE ~edge
  <2>1. stores' = s
    BY <1>2, <1>3, <1>5, ConcatEmptySeq
  <2> QED
    BY <1>2, <2>1 DEF StoresEarned, Earned, store
<1> QED BY <1>4, <1>5

\* A button frame: it lets transmission resume only outside bus-off, clears a
\* timeout only in Normal transmission and acknowledges only the press it is.
LEMMA RecordButtonsInv ==
  ASSUME TrafficInv, NEW b \in Frames, NEW ack \in BOOLEAN, RecordButtons(b, ack)
  PROVE  TrafficInv'
<1>1. /\ pc = "select" /\ pc' = "restart" /\ reset_ack_prev' = ack
      /\ UNCHANGED <<restart_attempted, try_restart>>
      /\ last_reset_ack' = ack
      /\ UNCHANGED <<sent_since_timeout, sent_since_restart>>
  BY DEF RecordButtons, ReceiveButtons, at
<1>2. /\ pressed' <=> ack /\ ~last_reset_ack
      /\ heard' <=> heard \/ ~seen_bus_off
  BY DEF RecordButtons
<1>3. ~try_restart
  BY <1>1 DEF TrafficInv, RestartNow
<1>4. AckNow' /\ RestartNow'
  BY <1>1, <1>3 DEF TrafficInv, AckNow, RestartNow
<1>5. CASE health = "BusOff"
  <2>1. /\ stores' = update_can_health \o inhibit_can_inputs
        /\ tx_runtime_state' = tx_runtime_state
    BY <1>5 DEF RecordButtons, ReceiveButtons
  <2>2. StoresEarned'
    BY <2>1, HealthWithdraws, InhibitWithdraws, WithdrawsConcat, WithdrawingEarned
  <2>3. HeardNow' /\ SentNow'
    BY <1>1, <1>2, <2>1 DEF TrafficInv, HeardNow, SentNow
  <2> QED BY <1>4, <2>2, <2>3 DEF TrafficInv
<1>6. CASE health # "BusOff"
  <2> DEFINE edge == ack /\ ~reset_ack_prev /\ b = {}
  <2>1. /\ tx_runtime_state' = IF tx_runtime_state = "SuspendedAfterTimeout"
                                 THEN "ProbePending" ELSE tx_runtime_state
        /\ stores' = <<store("replace_and_link", b),
                       store("clear_on_recovery", recoverable_can_faults)>>
                     \o (IF edge THEN handle_reset_ack_edge ELSE <<>>)
    BY <1>6 DEF RecordButtons, ReceiveButtons
  <2>2. HeardNow' /\ SentNow'
    BY <1>1, <1>2, <1>6, <2>1 DEF TrafficInv, HeardNow, SentNow, seen_bus_off
  <2>3. /\ recoverable_can_faults \in SUBSET ClearableCanFaults
        /\ "CAN_TX_TIMEOUT" \in recoverable_can_faults => sent_since_timeout'
    BY <1>1 DEF TrafficInv, SentNow, recoverable_can_faults, ClearableCanFaults
  <2>4. edge => pressed'
    BY <1>2 DEF TrafficInv, AckNow
  <2>5. edge \in BOOLEAN
    OBVIOUS
  <2> HIDE DEF edge
  <2>6. StoresEarned'
    BY <2>1, <2>3, <2>4, <2>5, FrameEarned DEF handle_reset_ack_edge
  <2> QED BY <1>4, <2>2, <2>6 DEF TrafficInv
<1> QED BY <1>5, <1>6

\* The branches that transmit nothing: whichever finds the controller bus-off
\* suspends transmission, too.
LEMMA RecordBranchInv == ASSUME TrafficInv, RecordBranch PROVE TrafficInv'
<1>1. /\ UNCHANGED <<sent_since_timeout, sent_since_restart, last_reset_ack>>
      /\ heard' <=> heard /\ ~seen_bus_off
  BY DEF RecordBranch
<1>2. PICK label : goes_on(label)
  BY DEF RecordBranch, ReceiveError, TxTick, HealthTick
<1>3. /\ UNCHANGED <<reset_ack_prev, restart_attempted>>
      /\ health = "BusOff" => tx_runtime_state' = "SuspendedAfterTimeout" /\ pc' = "restart"
      /\ health # "BusOff" => UNCHANGED <<try_restart, tx_runtime_state>>
  BY <1>2 DEF goes_on
<1>4. pc = "select"
  BY DEF RecordBranch, ReceiveError, TxTick, HealthTick, at
<1>5. HeardNow' /\ SentNow'
  BY <1>1, <1>3 DEF TrafficInv, HeardNow, SentNow, seen_bus_off
<1>6. RestartNow' /\ AckNow'
  BY <1>1, <1>3, <1>4 DEF TrafficInv, RestartNow, AckNow
<1>7. Withdraws(stores')
  BY BranchWithdraws DEF RecordBranch
<1> QED
  BY <1>5, <1>6, <1>7, WithdrawingEarned DEF TrafficInv

\* The end of a transmission: only Ok makes or keeps it Normal after a failure.
LEMMA RecordTransmittedInv ==
  ASSUME TrafficInv, NEW result \in TxResults, RecordTransmitted(result)
  PROVE  TrafficInv'
<1>1. /\ pc = "transmit" /\ pc' = "restart"
      /\ UNCHANGED <<reset_ack_prev, restart_attempted, last_reset_ack>>
  BY DEF RecordTransmitted, Transmitted, StatusSent, ProbeSent, at
<1>2. /\ try_restart' <=> suspends(result)
      /\ heard' <=> heard /\ ~suspends(result)
      /\ sent_since_timeout' <=>
           result = "Ok" \/ (sent_since_timeout /\ result # "TimedOutUnknownState")
      /\ sent_since_restart' <=> result = "Ok" \/ sent_since_restart
  BY DEF RecordTransmitted, Transmitted
<1>3. /\ tx_runtime_state # "SuspendedAfterTimeout"
      /\ suspends(result) => tx_runtime_state' = "SuspendedAfterTimeout"
      /\ tx_runtime_state' = "Normal" =>
           result = "Ok" \/ (tx_runtime_state = "Normal" /\ ~suspends(result))
  BY DEF RecordTransmitted, Transmitted, StatusSent, ProbeSent, suspends
<1>4. HeardNow'
  BY <1>2, <1>3 DEF TrafficInv, HeardNow
<1>5. SentNow'
  BY <1>2, <1>3 DEF TrafficInv, SentNow, suspends
<1>6. RestartNow' /\ AckNow'
  BY <1>1, <1>2, <1>3 DEF TrafficInv, RestartNow, AckNow
<1>7. Withdraws(stores')
  BY TransmittedWithdraws DEF RecordTransmitted
<1> QED
  BY <1>4, <1>5, <1>6, <1>7, WithdrawingEarned DEF TrafficInv

\* Lines 142-149: a restart is remembered, for transmission is suspended.
LEMMA RecordRestartInv == ASSUME TrafficInv, RecordRestart PROVE TrafficInv'
<1>1. /\ try_restart /\ stores = <<>>
      /\ UNCHANGED <<stores, tx_runtime_state, reset_ack_prev, heard, sent_since_timeout,
                     last_reset_ack>>
      /\ ~try_restart'
  BY DEF RecordRestart, Restart, at
<1>2. tx_runtime_state = "SuspendedAfterTimeout"
  BY <1>1 DEF TrafficInv, RestartNow
<1>3. restart_attempted'
  BY <1>2 DEF RecordRestart, Restart, still_attempted
<1>4. HeardNow' /\ SentNow' /\ RestartNow' /\ AckNow'
  BY <1>1, <1>2, <1>3 DEF TrafficInv, HeardNow, SentNow, RestartNow, AckNow
<1>5. StoresEarned'
  BY <1>1, NoStores DEF StoresEarned
<1> QED
  BY <1>4, <1>5 DEF TrafficInv

\* A store leaves fewer to be made.
LEMMA RecordStoreInv ==
  ASSUME IInv, TrafficInv, Store, UNCHANGED historyVars PROVE TrafficInv'
<1>1. /\ UNCHANGED <<pc, tx_runtime_state, reset_ack_prev, restart_attempted, try_restart>>
      /\ stores # <<>> /\ stores' = Tail(stores)
  BY DEF Store
<1>2. HeardNow' /\ SentNow' /\ RestartNow' /\ AckNow'
  BY <1>1 DEF TrafficInv, HeardNow, SentNow, RestartNow, AckNow, historyVars
<1>3. /\ Len(stores') = Len(stores) - 1 /\ Len(stores) \in Nat
      /\ \A i \in 1 .. Len(stores') : stores'[i] = stores[i + 1]
  BY <1>1, NextStore
<1>4. StoresEarned'
  <2>1. SUFFICES ASSUME NEW i \in 1 .. Len(stores') PROVE Earned(stores[i])'
    BY DEF StoresEarned
  <2>2. i + 1 \in 1 .. Len(stores) /\ stores'[i] = stores[i + 1]
    BY <1>3
  <2>3. Earned(stores[i + 1])
    BY <2>2 DEF TrafficInv, StoresEarned
  <2> QED BY <2>2, <2>3 DEF Earned, historyVars
<1> QED
  BY <1>2, <1>4 DEF TrafficInv

\* The rest: no frame, no transmission, and the flag of the restart only cleared
\* once transmission is Normal.
LEMMA RecordNothingInv == ASSUME IInv, TrafficInv, RecordNothing PROVE TrafficInv'
<1>1. UNCHANGED historyVars
  BY DEF RecordNothing
<1>2. CASE Store
  BY <1>1, <1>2, RecordStoreInv
<1>3. CASE ReceiveOther
  <2>1. /\ UNCHANGED <<tx_runtime_state, reset_ack_prev, restart_attempted, try_restart>>
        /\ pc = "select"
    BY <1>3 DEF ReceiveOther, at
  <2>2. HeardNow' /\ SentNow' /\ RestartNow' /\ AckNow'
    BY <1>1, <2>1 DEF TrafficInv, HeardNow, SentNow, RestartNow, AckNow, historyVars
  <2> QED BY <1>3, <2>2, BranchWithdraws, WithdrawingEarned DEF TrafficInv
<1>4. CASE BackOff \/ Loop
  <2>1. /\ UNCHANGED <<tx_runtime_state, reset_ack_prev, stores>>
        /\ stores = <<>> /\ ~try_restart'
        /\ ~restart_attempted' => ~restart_attempted \/ tx_runtime_state = "Normal"
    <3>1. CASE BackOff
      BY <3>1 DEF BackOff, at
    <3>2. CASE Loop
      <4>1. restart_attempted' <=> still_attempted(restart_attempted)
        BY <3>2 DEF Loop
      <4>2. ~restart_attempted' => ~restart_attempted \/ tx_runtime_state = "Normal"
        BY <4>1 DEF still_attempted
      <4>3. ~try_restart
        BY <3>2 DEF Loop, at, TrafficInv, RestartNow
      <4> QED BY <3>2, <4>2, <4>3 DEF Loop, at
    <3> QED BY <1>4, <3>1, <3>2
  <2>2. HeardNow' /\ SentNow' /\ RestartNow' /\ AckNow'
    BY <1>1, <2>1 DEF TrafficInv, HeardNow, SentNow, RestartNow, AckNow, historyVars
  <2>3. StoresEarned'
    BY <2>1, NoStores DEF StoresEarned
  <2> QED BY <2>2, <2>3 DEF TrafficInv
<1>5. CASE Tick \/ ControllerChanges \/ ControllerRecovers \/ SupervisorStep
  <2>1. UNCHANGED <<pc, stores, tx_runtime_state, reset_ack_prev, restart_attempted, try_restart>>
    BY <1>5 DEF Tick, ControllerChanges, ControllerRecovers, SupervisorStep, canVars
  <2> QED
    BY <1>1, <2>1 DEF TrafficInv, HeardNow, SentNow, RestartNow, AckNow, StoresEarned, Earned,
       historyVars
<1> QED
  BY <1>2, <1>3, <1>4, <1>5 DEF RecordNothing

\* Every step preserves what the record shows, given the task's invariant.
LEMMA HistoryStepInv ==
  IInv /\ TrafficInv /\ [HistoryNext]_<<vars, historyVars>> => TrafficInv'
<1> SUFFICES ASSUME IInv, TrafficInv, [HistoryNext]_<<vars, historyVars>> PROVE TrafficInv'
  OBVIOUS
<1>1. CASE UNCHANGED <<vars, historyVars>>
  BY <1>1 DEF TrafficInv, HeardNow, SentNow, RestartNow, AckNow, StoresEarned, Earned, vars,
     canVars, historyVars
<1>2. ASSUME NEW b \in Frames, NEW ack \in BOOLEAN, RecordButtons(b, ack) PROVE TrafficInv'
  BY <1>2, RecordButtonsInv
<1>3. CASE RecordBranch
  BY <1>3, RecordBranchInv
<1>4. ASSUME NEW result \in TxResults, RecordTransmitted(result) PROVE TrafficInv'
  BY <1>4, RecordTransmittedInv
<1>5. CASE RecordRestart
  BY <1>5, RecordRestartInv
<1>6. CASE RecordNothing
  BY <1>6, RecordNothingInv
<1> QED
  BY <1>1, <1>2, <1>3, <1>4, <1>5, <1>6 DEF HistoryNext

\* The invariant of the traffic record.
LEMMA TrafficInvariance == HistorySpec => []TrafficInv
<1> QED
  BY HistoryIInv, HistoryInitInv, HistoryStepInv, PTL DEF HistorySpec

-----------------------------------------------------------------------------
(* The theorems.                                                            *)

\* After a timeout or bus-off nothing is transmitted before the panel is heard.
THEOREM PanelHeardFirst == HistorySpec => SilentUntilHeard
<1>1. TrafficInv /\ [HistoryNext]_<<vars, historyVars>> =>
        [pc # "transmit" /\ pc' = "transmit" => heard]_<<vars, historyVars>>
  <2> SUFFICES ASSUME TrafficInv, HistoryNext, pc # "transmit", pc' = "transmit"
               PROVE  heard
    OBVIOUS
  <2>1. TxTick
    BY DEF HistoryNext, RecordButtons, ReceiveButtons, RecordBranch, ReceiveError, HealthTick,
       goes_on, RecordTransmitted, Transmitted, RecordRestart, Restart, RecordNothing,
       ReceiveOther, Store, BackOff, Loop, Tick, ControllerChanges, ControllerRecovers,
       SupervisorStep, canVars
  <2>2. tx_runtime_state # "SuspendedAfterTimeout"
    BY <2>1 DEF TxTick, goes_on
  <2> QED
    BY <2>2 DEF TrafficInv, HeardNow
<1> QED
  BY TrafficInvariance, <1>1, PTL DEF HistorySpec, SilentUntilHeard

\* CAN_TX_TIMEOUT is cleared only once a transmission has completed again.
THEOREM SendClearsTimeout == HistorySpec => TimeoutClearedBySend
<1>1. IInv /\ TrafficInv /\ [HistoryNext]_<<vars, historyVars>> =>
        ["CAN_TX_TIMEOUT" \in FAULT_FLAGS \ FAULT_FLAGS' => sent_since_timeout]_<<vars, historyVars>>
  <2> SUFFICES ASSUME IInv, TrafficInv, HistoryNext,
                      "CAN_TX_TIMEOUT" \in FAULT_FLAGS \ FAULT_FLAGS'
               PROVE  sent_since_timeout
    OBVIOUS
  <2>1. Store
    BY DEF HistoryNext, RecordButtons, ReceiveButtons, RecordBranch, ReceiveError, TxTick,
       HealthTick, goes_on, RecordTransmitted, Transmitted, RecordRestart, Restart,
       RecordNothing, ReceiveOther, BackOff, Loop, Tick, ControllerChanges,
       ControllerRecovers, SupervisorStep, sharedVars, inputVars
  <2> DEFINE x == Head(stores)
  <2>2. x = stores[1] /\ 1 \in 1 .. Len(stores)
    BY <2>1, NextStore DEF Store
  <2>3. /\ x.op \in {"clear_on_recovery", "clear_for_reset"}
        /\ FAULT_FLAGS' = FAULT_FLAGS \ x.arg
    BY <2>1 DEF Store, set_fault_flags, clear_fault_flags
  <2> HIDE DEF x
  <2>4. Earned(x)
    BY <2>2 DEF TrafficInv, StoresEarned
  <2> QED
    BY <2>3, <2>4 DEF Earned
<1> QED
  BY HistoryIInv, TrafficInvariance, <1>1, PTL DEF HistorySpec, TimeoutClearedBySend

\* No second restart of the controller without a frame sent in between.
THEOREM RestartsAreEarned == HistorySpec => RestartsEarned
<1>1. TrafficInv /\ [HistoryNext]_<<vars, historyVars>> =>
        [Restart => sent_since_restart]_<<vars, historyVars>>
  BY DEF TrafficInv, RestartNow, Restart
<1> QED
  BY TrafficInvariance, <1>1, PTL DEF HistorySpec, RestartsEarned

\* A reset event is counted for a press and never for a button held.
THEOREM ResetCountsPresses == HistorySpec => AckIsEdge
<1>1. IInv /\ TrafficInv /\ [HistoryNext]_<<vars, historyVars>> =>
        [RESET_ACK_EVENT_COUNTER' # RESET_ACK_EVENT_COUNTER => pressed]_<<vars, historyVars>>
  <2> SUFFICES ASSUME IInv, TrafficInv, HistoryNext,
                      RESET_ACK_EVENT_COUNTER' # RESET_ACK_EVENT_COUNTER
               PROVE  pressed
    OBVIOUS
  <2>1. Store
    BY DEF HistoryNext, RecordButtons, ReceiveButtons, RecordBranch, ReceiveError, TxTick,
       HealthTick, goes_on, RecordTransmitted, Transmitted, RecordRestart, Restart,
       RecordNothing, ReceiveOther, BackOff, Loop, Tick, ControllerChanges,
       ControllerRecovers, SupervisorStep, sharedVars, inputVars
  <2> DEFINE x == Head(stores)
  <2>2. x = stores[1] /\ 1 \in 1 .. Len(stores)
    BY <2>1, NextStore DEF Store
  <2>3. x.op = "reset_ack"
    BY <2>1 DEF Store
  <2> HIDE DEF x
  <2>4. Earned(x)
    BY <2>2 DEF TrafficInv, StoresEarned
  <2> QED
    BY <2>3, <2>4 DEF Earned
<1> QED
  BY HistoryIInv, TrafficInvariance, <1>1, PTL DEF HistorySpec, AckIsEdge
=============================================================================

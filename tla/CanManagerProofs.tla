-------------------------- MODULE CanManagerProofs --------------------------
(***************************************************************************)
(* The safety of can_manager_task for every timeout, frame set, counter    *)
(* width and outcome of its transmissions, whatever the supervisor's own   *)
(* store interleaves with.                                                 *)
(*                                                                         *)
(* The statics are the business of the stores still to be made: every one  *)
(* of them is backed by the store before it or, when it is the next one,   *)
(* by what the inputs already are.                                         *)
(***************************************************************************)
EXTENDS CanManager, SequenceTheorems, TLAPS

Ops == {"update_input_flag", "replace", "replace_and_link", "set_fault",
        "clear_on_recovery", "clear_for_reset", "reset_ack"}
StoreRecords == [op : Ops, arg : SUBSET (InputBits \cup CanFaults)]

\* The stores that withdraw inputs or raise a fault, and nothing else.
Withdrawing == {"update_input_flag", "replace", "set_fault"}

\* What a store carries, wherever it stands.
ArgOK(x) ==
  /\ x.op = "update_input_flag" => x.arg = {Link}
  /\ x.op = "replace" => x.arg = {}
  /\ x.op = "replace_and_link" => x.arg \in Frames
  /\ x.op = "set_fault" => \E f \in CanFaults : x.arg = {f}
  /\ x.op \in {"clear_on_recovery", "clear_for_reset"} => x.arg \subseteq ClearableCanFaults

\* The store that must stand right before one of this kind.
Before(op) ==
  CASE op = "replace"           -> "update_input_flag"
    [] op = "set_fault"         -> "replace"
    [] op = "clear_on_recovery" -> "replace_and_link"
    [] op = "clear_for_reset"   -> "clear_on_recovery"
    [] op = "reset_ack"         -> "clear_for_reset"
    [] OTHER                    -> "none"

\* What the inputs are when a store of this kind is the next one.
Ready(op, flags) ==
  /\ op \in {"replace"} => Link \notin flags
  /\ op = "set_fault" => flags = {}
  /\ op = "clear_on_recovery" => Link \in flags
  /\ op \in {"clear_for_reset", "reset_ack"} => flags = {Link}

Backed(s, i) == i > 1 /\ s[i - 1].op = Before(s[i].op)

\* A reset acknowledgement belongs to a frame without requests.
OfNeutralFrame(s, i) ==
  s[i].op = "clear_for_reset" => i > 2 /\ s[i - 2] = store("replace_and_link", {})

Fresh(s) ==
  \A i \in 1 .. Len(s) :
    /\ ArgOK(s[i])
    /\ Before(s[i].op) # "none" => Backed(s, i)
    /\ OfNeutralFrame(s, i)

Ordered(s, flags) ==
  \A i \in 1 .. Len(s) :
    /\ ArgOK(s[i])
    /\ Before(s[i].op) # "none" => IF i = 1 THEN Ready(s[i].op, flags) ELSE Backed(s, i)
    /\ IF i = 2 THEN s[i].op = "clear_for_reset" => flags = {Link}
                ELSE i # 1 => OfNeutralFrame(s, i)

\* Stores that withdraw the inputs and raise faults, in that order.
Withdraws(s) ==
  s \in Seq(StoreRecords) /\ Fresh(s) /\ \A i \in 1 .. Len(s) : s[i].op \in Withdrawing

Raises(s, f) == \E i \in 1 .. Len(s) : s[i] = store("set_fault", {f})

StoresOrdered == Ordered(stores, INPUT_FLAGS)

\* What the task knows of bus-off has reached the statics or is on its way.
BusOffOnItsWay ==
  CAN_HEALTH = "BusOff" =>
    /\ \A i \in 1 .. Len(stores) : stores[i].op \in Withdrawing
    /\ \/ INPUT_FLAGS = {} /\ "CAN_BUS_OFF" \in FAULT_FLAGS
       \/ Raises(stores, "CAN_BUS_OFF")

IInv == TypeOK /\ StoresOrdered /\ BusOffOnItsWay

-----------------------------------------------------------------------------
(* Sequences of stores.                                                     *)

\* Sequences that begin by themselves may follow one another.
LEMMA FreshConcat ==
  ASSUME NEW s \in Seq(StoreRecords), NEW t \in Seq(StoreRecords), Fresh(s), Fresh(t)
  PROVE  s \o t \in Seq(StoreRecords) /\ Fresh(s \o t)
<1> DEFINE u == s \o t
<1>1. /\ u \in Seq(StoreRecords) /\ Len(u) = Len(s) + Len(t)
      /\ Len(s) \in Nat /\ Len(t) \in Nat
      /\ \A i \in 1 .. Len(s) + Len(t) : u[i] = IF i <= Len(s) THEN s[i] ELSE t[i - Len(s)]
  BY ConcatProperties, LenProperties
<1> HIDE DEF u
<1>2. SUFFICES ASSUME NEW i \in 1 .. Len(u)
               PROVE /\ ArgOK(u[i])
                     /\ Before(u[i].op) # "none" => Backed(u, i)
                     /\ OfNeutralFrame(u, i)
  BY <1>1 DEF Fresh, u
<1>3. CASE i <= Len(s)
  <2>1. /\ i \in 1 .. Len(s) /\ u[i] = s[i]
        /\ i > 1 => u[i - 1] = s[i - 1]
        /\ i > 2 => u[i - 2] = s[i - 2]
    BY <1>1, <1>3
  <2> QED BY <2>1 DEF Fresh, Backed, OfNeutralFrame
<1>4. CASE i > Len(s)
  <2> DEFINE j == i - Len(s)
  <2>1. /\ j \in 1 .. Len(t) /\ u[i] = t[j]
        /\ j > 1 => i > 1 /\ u[i - 1] = t[j - 1]
        /\ j > 2 => i > 2 /\ u[i - 2] = t[j - 2]
    BY <1>1, <1>4
  <2> HIDE DEF j
  <2> QED BY <2>1 DEF Fresh, Backed, OfNeutralFrame
<1> QED BY <1>1, <1>3, <1>4

\* What begins by itself may begin in any inputs.
LEMMA FreshOrdered == ASSUME NEW s, Fresh(s), NEW flags PROVE Ordered(s, flags)
BY DEF Fresh, Ordered, Backed, OfNeutralFrame

\* No stores are in order.
LEMMA NoStores == <<>> \in Seq(StoreRecords) /\ Len(<<>>) = 0 /\ Fresh(<<>>)
BY EmptySeq DEF Fresh

\* The two stores of inhibit_can_inputs.
LEMMA InhibitFresh ==
  /\ inhibit_can_inputs \in Seq(StoreRecords) /\ Len(inhibit_can_inputs) = 2
  /\ Fresh(inhibit_can_inputs)
  /\ \A i \in 1 .. 2 : inhibit_can_inputs[i].op \in Withdrawing
<1>1. /\ store("update_input_flag", {Link}) \in StoreRecords
      /\ store("replace", {}) \in StoreRecords
  BY DEF store, StoreRecords, Ops, InputBits
<1> QED
  BY <1>1 DEF inhibit_can_inputs, Fresh, ArgOK, Before, Backed, OfNeutralFrame, store, Withdrawing

\* They and the fault.
LEMMA RaiseFresh ==
  ASSUME NEW f \in CanFaults
  PROVE  /\ raise(f) \in Seq(StoreRecords) /\ Fresh(raise(f))
         /\ \A i \in 1 .. Len(raise(f)) : raise(f)[i].op \in Withdrawing
         /\ \E i \in 1 .. Len(raise(f)) : raise(f)[i] = store("set_fault", {f})
<1> DEFINE c == store("set_fault", {f})
           s == inhibit_can_inputs
           u == raise(f)
<1>1. c \in StoreRecords /\ c.op = "set_fault" /\ c.arg = {f}
  BY DEF store, StoreRecords, Ops
<1> HIDE DEF c
<1>3. /\ s \in Seq(StoreRecords) /\ Len(s) = 2 /\ Fresh(s)
      /\ \A i \in 1 .. 2 : s[i].op \in Withdrawing
      /\ s[2].op = "replace"
  BY InhibitFresh DEF inhibit_can_inputs, store
<1>4. u = s \o <<c>>
  BY DEF raise, c
<1> HIDE DEF s, u
<1>5. /\ u \in Seq(StoreRecords) /\ Len(u) = 3
      /\ u[1] = s[1] /\ u[2] = s[2] /\ u[3] = c
  <2>1. s \in Seq(StoreRecords) /\ c \in StoreRecords
    BY <1>1, <1>3
  <2>2. u = Append(s, c)
    BY <1>4, <2>1, AppendIsConcat
  <2>3. /\ u \in Seq(StoreRecords) /\ Len(u) = Len(s) + 1
        /\ \A j \in 1 .. Len(s) : u[j] = s[j]
        /\ u[Len(s) + 1] = c
    BY <2>1, <2>2, AppendProperties
  <2> QED BY <1>3, <2>3
<1>6. Fresh(u)
  <2>1. SUFFICES ASSUME NEW i \in 1 .. 3
                 PROVE /\ ArgOK(u[i])
                       /\ Before(u[i].op) # "none" => Backed(u, i)
                       /\ OfNeutralFrame(u, i)
    BY <1>5 DEF Fresh
  <2>2. CASE i \in {1, 2}
    BY <1>3, <1>5, <2>2 DEF Fresh, Backed, OfNeutralFrame
  <2>3. CASE i = 3
    BY <1>1, <1>3, <1>5, <2>3 DEF Backed, OfNeutralFrame, ArgOK, Before
  <2> QED BY <2>2, <2>3
<1>7. \A i \in 1 .. 3 : u[i].op \in Withdrawing
  BY <1>1, <1>3, <1>5 DEF Withdrawing
<1> QED
  BY <1>5, <1>6, <1>7 DEF u, c

\* Withdrawing twice is withdrawing.
LEMMA WithdrawsConcat ==
  ASSUME NEW s, NEW t, Withdraws(s), Withdraws(t)
  PROVE  /\ Withdraws(s \o t)
         /\ \A f : Raises(s, f) \/ Raises(t, f) => Raises(s \o t, f)
<1> DEFINE u == s \o t
<1>1. /\ s \in Seq(StoreRecords) /\ t \in Seq(StoreRecords)
      /\ \A i \in 1 .. Len(s) : s[i].op \in Withdrawing
      /\ \A i \in 1 .. Len(t) : t[i].op \in Withdrawing
  BY DEF Withdraws
<1>2. u \in Seq(StoreRecords) /\ Fresh(u)
  BY <1>1, FreshConcat DEF Withdraws
<1>3. /\ Len(u) = Len(s) + Len(t)
      /\ Len(s) \in Nat /\ Len(t) \in Nat
      /\ \A i \in 1 .. Len(s) + Len(t) : u[i] = IF i <= Len(s) THEN s[i] ELSE t[i - Len(s)]
  BY <1>1, ConcatProperties, LenProperties
<1> HIDE DEF u
<1>4. ASSUME NEW i \in 1 .. Len(u) PROVE u[i].op \in Withdrawing
  <2>1. CASE i <= Len(s)
    BY <1>1, <1>3, <2>1
  <2>2. CASE i > Len(s)
    <3>1. i - Len(s) \in 1 .. Len(t) /\ u[i] = t[i - Len(s)]
      BY <1>3, <2>2
    <3> QED BY <1>1, <3>1
  <2> QED BY <1>3, <2>1, <2>2
<1>5. ASSUME NEW f, Raises(s, f) PROVE Raises(u, f)
  <2>1. PICK i \in 1 .. Len(s) : s[i] = store("set_fault", {f})
    BY <1>5 DEF Raises
  <2>2. i \in 1 .. Len(u) /\ u[i] = s[i]
    BY <1>3
  <2> QED BY <2>1, <2>2 DEF Raises
<1>6. ASSUME NEW f, Raises(t, f) PROVE Raises(u, f)
  <2>1. PICK i \in 1 .. Len(t) : t[i] = store("set_fault", {f})
    BY <1>6 DEF Raises
  <2>2. i + Len(s) \in 1 .. Len(u) /\ u[i + Len(s)] = t[i]
    BY <1>3
  <2> QED BY <2>1, <2>2 DEF Raises
<1> QED BY <1>2, <1>4, <1>5, <1>6 DEF Withdraws, u

\* No stores grant nothing.
LEMMA NoneWithdraws == Withdraws(<<>>)
BY NoStores DEF Withdraws

\* inhibit_can_inputs withdraws.
LEMMA InhibitWithdraws == Withdraws(inhibit_can_inputs)
BY InhibitFresh DEF Withdraws

\* Raising a fault withdraws, and raises it.
LEMMA RaiseWithdraws ==
  ASSUME NEW f \in CanFaults
  PROVE  Withdraws(raise(f)) /\ Raises(raise(f), f)
BY RaiseFresh DEF Withdraws, Raises

\* Finding the controller bus-off raises that fault.
LEMMA HealthWithdraws ==
  /\ Withdraws(update_can_health)
  /\ health = "BusOff" => Raises(update_can_health, "CAN_BUS_OFF")
<1>1. "CAN_BUS_OFF" \in CanFaults
  BY DEF CanFaults
<1>2. CASE health = "BusOff"
  <2>1. update_can_health = raise("CAN_BUS_OFF")
    BY <1>2 DEF update_can_health
  <2> QED BY <1>1, <2>1, RaiseWithdraws
<1>3. CASE health # "BusOff"
  <2>1. update_can_health = <<>>
    BY <1>3 DEF update_can_health
  <2> QED BY <1>3, <2>1, NoneWithdraws
<1> QED BY <1>2, <1>3

\* A silent panel raises a fault or nothing.
LEMMA LivenessWithdraws == Withdraws(update_peer_liveness)
<1>1. "CAN_PEER_LOST" \in CanFaults
  BY DEF CanFaults
<1>2. update_peer_liveness = raise("CAN_PEER_LOST") \/ update_peer_liveness = <<>>
  BY DEF update_peer_liveness
<1> QED BY <1>1, <1>2, RaiseWithdraws, NoneWithdraws

\* A transmission that found bus-off raises it.
LEMMA TxErrorWithdraws ==
  ASSUME NEW result \in TxResults
  PROVE  /\ Withdraws(record_tx_error(result))
         /\ \/ result = "BusOff"
            \/ result = "TimedOutUnknownState" /\ health = "BusOff"
            => Raises(record_tx_error(result), "CAN_BUS_OFF")
<1>1. {"CAN_BUS_OFF", "CAN_TX_TIMEOUT", "CAN_TX_FRAME_CREATE_FAILED"} \subseteq CanFaults
  BY DEF CanFaults
<1>2. CASE result = "FrameCreateFailed"
  <2>1. record_tx_error(result) = raise("CAN_TX_FRAME_CREATE_FAILED")
    BY <1>2 DEF record_tx_error
  <2> QED BY <1>1, <1>2, <2>1, RaiseWithdraws
<1>3. CASE result = "TimedOutUnknownState"
  <2>1. record_tx_error(result) = raise("CAN_TX_TIMEOUT") \o update_can_health
    BY <1>3 DEF record_tx_error
  <2>2. Withdraws(raise("CAN_TX_TIMEOUT"))
    BY <1>1, RaiseWithdraws
  <2> QED BY <1>3, <2>1, <2>2, HealthWithdraws, WithdrawsConcat
<1>4. CASE result = "BusOff"
  <2>1. record_tx_error(result) = raise("CAN_BUS_OFF")
    BY <1>4 DEF record_tx_error
  <2> QED BY <1>1, <1>4, <2>1, RaiseWithdraws
<1>5. CASE result \notin {"FrameCreateFailed", "TimedOutUnknownState", "BusOff"}
  <2>1. record_tx_error(result) = <<>>
    BY <1>5 DEF record_tx_error
  <2> QED BY <1>5, <2>1, NoneWithdraws
<1> QED BY <1>2, <1>3, <1>4, <1>5

-----------------------------------------------------------------------------
(* What a step that performs no store has to show.                          *)

\* New stores that begin by themselves are in order.
LEMMA BranchOrdered ==
  ASSUME Fresh(stores')
  PROVE  StoresOrdered'
BY FreshOrdered DEF StoresOrdered, Ordered

\* A bus-off learned in a branch is raised by its stores.
LEMMA BranchBusOff ==
  ASSUME IInv, stores = <<>>, UNCHANGED sharedVars, Withdraws(stores'),
         CAN_HEALTH' = "BusOff" => CAN_HEALTH = "BusOff" \/ Raises(stores', "CAN_BUS_OFF")
  PROVE  BusOffOnItsWay'
<1>1. CAN_HEALTH = "BusOff" => INPUT_FLAGS = {} /\ "CAN_BUS_OFF" \in FAULT_FLAGS
  BY NoStores DEF IInv, BusOffOnItsWay, Raises
<1> QED
  BY <1>1 DEF BusOffOnItsWay, Withdraws, Raises, sharedVars, inputVars

\* Such a step only needs to leave stores that withdraw.
LEMMA BranchInv ==
  ASSUME IInv, stores = <<>>, UNCHANGED sharedVars, Withdraws(stores'),
         CAN_HEALTH' = "BusOff" => CAN_HEALTH = "BusOff" \/ Raises(stores', "CAN_BUS_OFF"),
         controller' \in CanHealth \cup {"Recovering"}, CAN_HEALTH' \in CanHealth,
         pc' \in {"select", "transmit", "restart", "backoff"},
         tx_runtime_state' \in {"Normal", "SuspendedAfterTimeout", "ProbePending"},
         peer_age' \in 0 .. COMMUNICATION_TIMEOUT,
         reset_ack_prev' \in BOOLEAN, restart_attempted' \in BOOLEAN, try_restart' \in BOOLEAN
  PROVE  IInv'
<1>1. BusOffOnItsWay'
  BY BranchBusOff
<1>2. StoresOrdered'
  BY BranchOrdered DEF Withdraws
<1>3. SharedTypeOK'
  BY DEF IInv, TypeOK, SharedTypeOK, sharedVars, inputVars, outputVars
<1>4. stores' \in Seq(StoreRecords)
  BY DEF Withdraws
<1>5. TypeOK'
  BY <1>3, <1>4 DEF TypeOK, StoreRecords, Ops
<1> QED BY <1>1, <1>2, <1>5 DEF IInv

\* The types of what a branch computes.
LEMMA HealthType ==
  ASSUME IInv
  PROVE  health \in CanHealth /\ COMMUNICATION_TIMEOUT \in Nat /\ COMMUNICATION_TIMEOUT > 0
BY TimeoutAssumption DEF IInv, TypeOK, CanHealth, health

\* The two stores of an accepted frame, and two more for a reset acknowledgement.
LEMMA FrameFresh ==
  ASSUME NEW b \in Frames, NEW cs \in SUBSET ClearableCanFaults
  PROVE  LET s == <<store("replace_and_link", b), store("clear_on_recovery", cs)>>
             t == <<store("clear_for_reset", cs), store("reset_ack", {})>>
         IN  /\ s \o <<>> \in Seq(StoreRecords) /\ Fresh(s \o <<>>)
             /\ b = {} => s \o t \in Seq(StoreRecords) /\ Fresh(s \o t)
<1> DEFINE s == <<store("replace_and_link", b), store("clear_on_recovery", cs)>>
           t == <<store("clear_for_reset", cs), store("reset_ack", {})>>
           u == s \o t
<1>1. b \in SUBSET (InputBits \cup CanFaults) /\ cs \in SUBSET (InputBits \cup CanFaults)
  BY FramesAssumption DEF InputBits, ClearableCanFaults, CanFaults
<1>2. /\ s \in Seq(StoreRecords) /\ Len(s) = 2
      /\ s[1] = store("replace_and_link", b) /\ s[2] = store("clear_on_recovery", cs)
      /\ t \in Seq(StoreRecords) /\ Len(t) = 2
      /\ t[1] = store("clear_for_reset", cs) /\ t[2] = store("reset_ack", {})
  BY <1>1 DEF store, StoreRecords, Ops
<1> HIDE DEF s, t
<1>3. Fresh(s)
  BY <1>2 DEF Fresh, ArgOK, Before, Backed, OfNeutralFrame, store
<1>4. s \o <<>> = s
  BY <1>2, ConcatEmptySeq
<1>5. /\ u \in Seq(StoreRecords) /\ Len(u) = Len(s) + Len(t)
      /\ \A i \in 1 .. Len(s) + Len(t) : u[i] = IF i <= Len(s) THEN s[i] ELSE t[i - Len(s)]
  BY <1>2, ConcatProperties
<1> HIDE DEF u
<1>6. /\ Len(u) = 4
      /\ u[1] = store("replace_and_link", b) /\ u[2] = store("clear_on_recovery", cs)
      /\ u[3] = store("clear_for_reset", cs) /\ u[4] = store("reset_ack", {})
  BY <1>2, <1>5
<1>7. ASSUME b = {} PROVE Fresh(u)
  BY <1>6, <1>7 DEF Fresh, ArgOK, Before, Backed, OfNeutralFrame, store
<1> QED BY <1>2, <1>3, <1>4, <1>5, <1>7 DEF s, t, u

-----------------------------------------------------------------------------
(* One lemma for each kind of step.                                         *)

\* The invariant holds initially.
LEMMA InitIInv ==
  ASSUME SharedInit, TaskInit
  PROVE  IInv
<1>1. TypeOK
  <2>1. SharedTypeOK
    BY CounterAssumption DEF SharedInit, SharedTypeOK, Phases, Angles
  <2>2. stores \in Seq(StoreRecords)
    BY NoStores DEF TaskInit
  <2>3. 0 \in 0 .. COMMUNICATION_TIMEOUT
    BY TimeoutAssumption
  <2> QED
    BY <2>1, <2>2, <2>3 DEF TypeOK, TaskInit, CanHealth, StoreRecords, Ops
<1>2. StoresOrdered
  BY NoStores, FreshOrdered DEF StoresOrdered, TaskInit
<1>3. BusOffOnItsWay
  BY DEF BusOffOnItsWay, TaskInit
<1> QED BY <1>1, <1>2, <1>3 DEF IInv

\* A frame met in bus-off only withdraws; an accepted one is a frame's stores.
LEMMA ReceiveButtonsInv ==
  ASSUME IInv, NEW b \in Frames, NEW ack \in BOOLEAN, ReceiveButtons(b, ack)
  PROVE  IInv'
<1>1. /\ stores = <<>> /\ pc' = "restart" /\ CAN_HEALTH' = health /\ reset_ack_prev' = ack
      /\ UNCHANGED <<sharedVars, controller, restart_attempted, try_restart>>
  BY DEF ReceiveButtons, at
<1>2. health \in CanHealth /\ 0 \in 0 .. COMMUNICATION_TIMEOUT
  BY HealthType
<1>3. CASE health = "BusOff"
  <2>1. /\ stores' = update_can_health \o inhibit_can_inputs
        /\ UNCHANGED <<peer_age, tx_runtime_state>>
    BY <1>3 DEF ReceiveButtons
  <2>2. Withdraws(stores') /\ Raises(stores', "CAN_BUS_OFF")
    BY <1>3, <2>1, HealthWithdraws, InhibitWithdraws, WithdrawsConcat
  <2> QED BY <1>1, <1>2, <2>1, <2>2, BranchInv DEF IInv, TypeOK
<1>4. CASE health # "BusOff"
  <2>1. /\ peer_age' = 0
        /\ tx_runtime_state' = IF tx_runtime_state = "SuspendedAfterTimeout"
                                 THEN "ProbePending" ELSE tx_runtime_state
        /\ stores' = <<store("replace_and_link", b),
                       store("clear_on_recovery", recoverable_can_faults)>>
                     \o (IF ack /\ ~reset_ack_prev /\ b = {} THEN handle_reset_ack_edge ELSE <<>>)
    BY <1>4 DEF ReceiveButtons
  <2>2. recoverable_can_faults \in SUBSET ClearableCanFaults
    BY DEF recoverable_can_faults, ClearableCanFaults
  <2> DEFINE s == <<store("replace_and_link", b),
                    store("clear_on_recovery", recoverable_can_faults)>>
  <2>3. /\ s \o <<>> \in Seq(StoreRecords) /\ Fresh(s \o <<>>)
        /\ b = {} => /\ s \o handle_reset_ack_edge \in Seq(StoreRecords)
                     /\ Fresh(s \o handle_reset_ack_edge)
    BY <2>2, FrameFresh DEF handle_reset_ack_edge
  <2>4. \/ stores' = s \o <<>>
        \/ b = {} /\ stores' = s \o handle_reset_ack_edge
    BY <2>1
  <2> HIDE DEF s
  <2>5. stores' \in Seq(StoreRecords) /\ Fresh(stores')
    BY <2>3, <2>4
  <2>6. StoresOrdered'
    BY <2>5, BranchOrdered
  <2>7. BusOffOnItsWay'
    BY <1>1, <1>4 DEF BusOffOnItsWay
  <2>8. SharedTypeOK'
    BY <1>1 DEF IInv, TypeOK, SharedTypeOK, sharedVars, inputVars, outputVars
  <2>9. TypeOK'
    BY <1>1, <1>2, <2>1, <2>5, <2>8 DEF IInv, TypeOK, StoreRecords, Ops
  <2> QED BY <2>6, <2>7, <2>9 DEF IInv
<1> QED BY <1>3, <1>4

\* Where a branch goes after it looked at the controller.
LEMMA GoesOnInv ==
  ASSUME IInv, stores = <<>>, NEW label \in {"transmit", "restart"}, goes_on(label),
         Withdraws(stores'), health = "BusOff" => Raises(stores', "CAN_BUS_OFF")
  PROVE  IInv'
<1>1. /\ CAN_HEALTH' = health
      /\ pc' \in {"restart", label}
      /\ try_restart' \in {TRUE, try_restart}
      /\ tx_runtime_state' \in {"SuspendedAfterTimeout", tx_runtime_state}
      /\ UNCHANGED <<sharedVars, controller, peer_age, reset_ack_prev, restart_attempted>>
  BY DEF goes_on
<1> QED
  BY <1>1, HealthType, BranchInv DEF IInv, TypeOK

\* The branches that transmit nothing withdraw, and raise a bus-off they find.
LEMMA BranchWithdraws ==
  ASSUME \/ ReceiveOther \/ TxTick \/ HealthTick
         \/ \E e \in {"BusOff", "Overrun", "Other"} : ReceiveError(e)
  PROVE  /\ stores = <<>> /\ Withdraws(stores')
         /\ health = "BusOff" => Raises(stores', "CAN_BUS_OFF")
<1>1. CASE ReceiveOther
  <2>1. stores = <<>> /\ stores' = update_can_health
    BY <1>1 DEF ReceiveOther, at
  <2> QED BY <2>1, HealthWithdraws
<1>2. ASSUME NEW e \in {"BusOff", "Overrun", "Other"}, ReceiveError(e)
      PROVE  /\ stores = <<>> /\ Withdraws(stores')
             /\ health = "BusOff" => Raises(stores', "CAN_BUS_OFF")
  <2> DEFINE s == CASE e = "BusOff"  -> raise("CAN_BUS_OFF")
                    [] e = "Overrun" -> raise("CAN_PEER_LOST")
                    [] OTHER         -> <<>>
  <2>1. stores = <<>> /\ stores' = s \o update_can_health
    BY <1>2 DEF ReceiveError, at
  <2>2. s \in {raise("CAN_BUS_OFF"), raise("CAN_PEER_LOST"), <<>>}
    OBVIOUS
  <2> HIDE DEF s
  <2>3. Withdraws(s)
    BY <2>2, RaiseWithdraws, NoneWithdraws DEF CanFaults
  <2> QED BY <2>1, <2>3, HealthWithdraws, WithdrawsConcat
<1>3. CASE TxTick \/ HealthTick
  <2>1. stores = <<>> /\ stores' = update_peer_liveness \o update_can_health
    BY <1>3 DEF TxTick, HealthTick, at
  <2> QED BY <2>1, LivenessWithdraws, HealthWithdraws, WithdrawsConcat
<1> QED BY <1>1, <1>2, <1>3

\* They preserve the invariant.
LEMMA BranchesInv ==
  ASSUME IInv,
         \/ ReceiveOther \/ TxTick \/ HealthTick
         \/ \E e \in {"BusOff", "Overrun", "Other"} : ReceiveError(e)
  PROVE  IInv'
<1>1. /\ stores = <<>> /\ Withdraws(stores')
      /\ health = "BusOff" => Raises(stores', "CAN_BUS_OFF")
  BY BranchWithdraws
<1>2. CASE ReceiveOther
  <2>1. /\ pc' = "restart" /\ CAN_HEALTH' = health
        /\ UNCHANGED <<sharedVars, controller, tx_runtime_state, peer_age, reset_ack_prev,
                       restart_attempted, try_restart>>
    BY <1>2 DEF ReceiveOther
  <2> QED BY <1>1, <2>1, HealthType, BranchInv DEF IInv, TypeOK
<1>3. CASE TxTick \/ HealthTick \/ \E e \in {"BusOff", "Overrun", "Other"} : ReceiveError(e)
  <2>1. PICK label \in {"transmit", "restart"} : goes_on(label)
    BY <1>3 DEF TxTick, HealthTick, ReceiveError
  <2> QED BY <1>1, <2>1, GoesOnInv
<1> QED BY <1>2, <1>3

\* So does the end of a transmission, which raises what it found.
LEMMA TransmittedWithdraws ==
  ASSUME NEW result \in TxResults, Transmitted(result)
  PROVE  /\ stores = <<>> /\ Withdraws(stores')
         /\ CAN_HEALTH' = "BusOff" => CAN_HEALTH = "BusOff" \/ Raises(stores', "CAN_BUS_OFF")
<1> DEFINE r == record_tx_error(result)
<1>1. /\ stores = <<>>
      /\ CAN_HEALTH' = CASE result = "TimedOutUnknownState" -> health
                         [] result = "BusOff"               -> "BusOff"
                         [] OTHER                           -> CAN_HEALTH
  BY DEF Transmitted, StatusSent, ProbeSent, at
<1>2. stores' \in {r, r \o <<>>, r \o inhibit_can_inputs}
  BY DEF Transmitted, StatusSent, ProbeSent
<1>3. /\ Withdraws(r)
      /\ \/ result = "BusOff"
         \/ result = "TimedOutUnknownState" /\ health = "BusOff"
         => Raises(r, "CAN_BUS_OFF")
  BY TxErrorWithdraws
<1> HIDE DEF r
<1>4. Withdraws(stores') /\ (Raises(r, "CAN_BUS_OFF") => Raises(stores', "CAN_BUS_OFF"))
  BY <1>2, <1>3, NoneWithdraws, InhibitWithdraws, WithdrawsConcat
<1> QED
  BY <1>1, <1>3, <1>4

\* It preserves the invariant.
LEMMA TransmittedInv ==
  ASSUME IInv, NEW result \in TxResults, Transmitted(result)
  PROVE  IInv'
<1>1. /\ pc' = "restart" /\ try_restart' \in BOOLEAN
      /\ tx_runtime_state' \in {"Normal", "SuspendedAfterTimeout"}
      /\ UNCHANGED <<sharedVars, controller, peer_age, reset_ack_prev, restart_attempted>>
  BY DEF Transmitted, StatusSent, ProbeSent, suspends
<1>2. CAN_HEALTH' \in CanHealth
  BY HealthType DEF Transmitted, IInv, TypeOK, CanHealth
<1> QED
  BY <1>1, <1>2, TransmittedWithdraws, BranchInv DEF IInv, TypeOK

\* The rest of the loop, time and the peripheral store nothing.
LEMMA QuietInv ==
  ASSUME IInv, Restart \/ BackOff \/ Loop \/ Tick \/ ControllerChanges \/ ControllerRecovers
  PROVE  IInv'
<1>1. /\ stores = <<>> /\ stores' = <<>>
      /\ UNCHANGED <<sharedVars, CAN_HEALTH, tx_runtime_state, reset_ack_prev>>
  BY DEF Restart, BackOff, Loop, Tick, ControllerChanges, ControllerRecovers, at
<1>2. /\ controller' \in CanHealth \cup {"Recovering"}
      /\ pc' \in {"select", "transmit", "restart", "backoff"}
      /\ restart_attempted' \in BOOLEAN /\ try_restart' \in BOOLEAN
  <2> USE DEF IInv, TypeOK, CanHealth
  <2>1. \A x \in BOOLEAN : still_attempted(x) \in BOOLEAN
    BY Zenon DEF still_attempted
  <2>2. CASE Restart
    BY <2>1, <2>2 DEF Restart
  <2>3. CASE BackOff
    BY <2>3 DEF BackOff
  <2>4. CASE Loop
    BY <2>1, <2>4 DEF Loop
  <2>5. CASE Tick
    BY <2>5 DEF Tick
  <2>6. CASE ControllerChanges \/ ControllerRecovers
    BY <2>6 DEF ControllerChanges, ControllerRecovers
  <2> QED BY <2>2, <2>3, <2>4, <2>5, <2>6, Zenon
<1>3. peer_age' \in 0 .. COMMUNICATION_TIMEOUT
  <2>1. CASE Tick
    BY <2>1, HealthType DEF IInv, TypeOK, Tick
  <2>2. CASE ~Tick
    <3>1. peer_age' = peer_age
      BY <2>2 DEF Restart, BackOff, Loop, ControllerChanges, ControllerRecovers
    <3> QED BY <3>1 DEF IInv, TypeOK
  <2> QED BY <2>1, <2>2
<1> QED
  BY <1>1, <1>2, <1>3, NoneWithdraws, BranchInv DEF IInv, TypeOK

\* The next store finds the inputs as its kind requires.
LEMMA NextStore ==
  ASSUME IInv, stores # <<>>
  PROVE  LET x == Head(stores) IN
         /\ x \in StoreRecords /\ x = stores[1]
         /\ 1 \in 1 .. Len(stores)
         /\ ArgOK(x)
         /\ Before(x.op) # "none" => Ready(x.op, INPUT_FLAGS)
         /\ Tail(stores) \in Seq(StoreRecords)
         /\ Len(Tail(stores)) = Len(stores) - 1
         /\ Len(stores) \in Nat
         /\ \A i \in 1 .. Len(Tail(stores)) : Tail(stores)[i] = stores[i + 1]
<1>1. stores \in Seq(StoreRecords)
  BY DEF IInv, TypeOK, StoreRecords, Ops
<1>2. /\ Head(stores) \in StoreRecords
      /\ Tail(stores) \in Seq(StoreRecords)
      /\ Len(Tail(stores)) = Len(stores) - 1
      /\ \A i \in 1 .. Len(Tail(stores)) : Tail(stores)[i] = stores[i + 1]
  BY <1>1, HeadTailProperties
<1>3. Len(stores) \in Nat \ {0}
  BY <1>1, EmptySeq
<1>4. Head(stores) = stores[1] /\ 1 \in 1 .. Len(stores)
  BY <1>1, <1>3
<1>5. ArgOK(stores[1]) /\ (Before(stores[1].op) # "none" => Ready(stores[1].op, INPUT_FLAGS))
  BY <1>4 DEF IInv, StoresOrdered, Ordered
<1> QED BY <1>2, <1>3, <1>4, <1>5

\* Every store is one the supervisor is modelled against, the supervisor's own,
\* or leaves the statics alone; it is what the code before it prepared.
LEMMA StoreIsCanStep ==
  ASSUME RaisedCanFaults = CanFaults, IInv, Store
  PROVE  CanStep \/ UNCHANGED sharedVars
<1> DEFINE x == Head(stores)
<1>1. /\ x.op \in Ops /\ ArgOK(x)
      /\ Before(x.op) # "none" => Ready(x.op, INPUT_FLAGS)
      /\ UNCHANGED outputVars
  BY NextStore DEF Store, StoreRecords
<1>2. INPUT_FLAGS \subseteq InputBits
  BY DEF IInv, TypeOK, SharedTypeOK
<1> HIDE DEF x
<1>3. CASE x.op = "update_input_flag"
  <2>1. x.arg = {Link} /\ INPUT_FLAGS' = INPUT_FLAGS \ x.arg
        /\ UNCHANGED <<FAULT_FLAGS, RESET_ACK_EVENT_COUNTER>>
    BY <1>1, <1>3 DEF Store, ArgOK, x
  <2>2. CASE Link \in INPUT_FLAGS
    BY <1>1, <2>1, <2>2 DEF CanStep, DropLink
  <2>3. CASE Link \notin INPUT_FLAGS
    BY <1>1, <2>1, <2>3 DEF sharedVars, inputVars
  <2> QED BY <2>2, <2>3
<1>4. CASE x.op = "replace"
  <2>1. /\ x.arg = {} /\ Link \notin INPUT_FLAGS
        /\ replace_operator_input_flags(x.arg)
        /\ UNCHANGED <<FAULT_FLAGS, RESET_ACK_EVENT_COUNTER>>
    BY <1>1, <1>4 DEF Store, ArgOK, Ready, Before, x
  <2> QED BY <1>1, <2>1 DEF CanStep, DropCommands
<1>5. CASE x.op = "replace_and_link"
  <2>1. /\ x.arg \in Frames
        /\ replace_operator_input_flags_and_set_can_link_active(x.arg)
        /\ UNCHANGED <<FAULT_FLAGS, RESET_ACK_EVENT_COUNTER>>
    BY <1>1, <1>5 DEF Store, ArgOK, x
  <2> QED BY <1>1, <2>1 DEF CanStep, ButtonFrame
<1>6. CASE x.op = "set_fault"
  <2>1. PICK f \in CanFaults : x.arg = {f}
    BY <1>1, <1>6 DEF ArgOK
  <2>2. /\ INPUT_FLAGS = {} /\ set_fault_flags({f})
        /\ UNCHANGED <<INPUT_FLAGS, RESET_ACK_EVENT_COUNTER>>
    BY <1>1, <1>6, <2>1 DEF Store, Ready, Before, x
  <2> QED BY <1>1, <2>2 DEF CanStep, RaiseCanFault
<1>7. CASE x.op \in {"clear_on_recovery", "clear_for_reset"}
  <2>1. /\ x.arg \in SUBSET ClearableCanFaults /\ Link \in INPUT_FLAGS
        /\ clear_fault_flags(x.arg)
        /\ UNCHANGED <<INPUT_FLAGS, RESET_ACK_EVENT_COUNTER>>
    BY <1>1, <1>7 DEF Store, ArgOK, Ready, Before, x
  <2> QED BY <1>1, <2>1 DEF CanStep, ClearCanFaults
<1>8. CASE x.op = "reset_ack"
  <2>1. /\ INPUT_FLAGS = {Link} /\ signal_reset_ack_event
        /\ UNCHANGED <<FAULT_FLAGS, INPUT_FLAGS>>
    BY <1>1, <1>8 DEF Store, Ready, Before, x
  <2> QED BY <1>1, <2>1 DEF CanStep, SignalResetAck
<1> QED BY <1>1, <1>3, <1>4, <1>5, <1>6, <1>7, <1>8 DEF Ops

\* What the next store leaves the inputs at, and that it keeps their types.
LEMMA StoreEffect ==
  ASSUME IInv, Store
  PROVE  LET x == Head(stores) IN
         /\ x.op = "update_input_flag" => Link \notin INPUT_FLAGS'
         /\ x.op = "replace" => INPUT_FLAGS' = {}
         /\ x.op = "replace_and_link" => Link \in INPUT_FLAGS'
         /\ x = store("replace_and_link", {}) => INPUT_FLAGS' = {Link}
         /\ x.op \in {"set_fault", "clear_on_recovery", "clear_for_reset", "reset_ack"} =>
              INPUT_FLAGS' = INPUT_FLAGS
         /\ x.op \in Withdrawing =>
              INPUT_FLAGS' \subseteq INPUT_FLAGS /\ FAULT_FLAGS \subseteq FAULT_FLAGS'
         /\ x = store("set_fault", {"CAN_BUS_OFF"}) => "CAN_BUS_OFF" \in FAULT_FLAGS'
         /\ SharedTypeOK'
<1> DEFINE x == Head(stores)
<1>1. /\ x \in StoreRecords /\ ArgOK(x)
      /\ Before(x.op) # "none" => Ready(x.op, INPUT_FLAGS)
  BY NextStore DEF Store
<1>2. SharedTypeOK /\ UNCHANGED outputVars
  BY DEF IInv, TypeOK, Store
<1>3. /\ x.op = "update_input_flag" =>
           INPUT_FLAGS' = INPUT_FLAGS \ x.arg /\ UNCHANGED <<FAULT_FLAGS, RESET_ACK_EVENT_COUNTER>>
      /\ x.op = "replace" =>
           INPUT_FLAGS' = (INPUT_FLAGS \cap {Link}) \cup x.arg
           /\ UNCHANGED <<FAULT_FLAGS, RESET_ACK_EVENT_COUNTER>>
      /\ x.op = "replace_and_link" =>
           INPUT_FLAGS' = {Link} \cup x.arg /\ UNCHANGED <<FAULT_FLAGS, RESET_ACK_EVENT_COUNTER>>
      /\ x.op = "set_fault" =>
           FAULT_FLAGS' = FAULT_FLAGS \cup x.arg
           /\ UNCHANGED <<INPUT_FLAGS, RESET_ACK_EVENT_COUNTER>>
      /\ x.op \in {"clear_on_recovery", "clear_for_reset"} =>
           FAULT_FLAGS' = FAULT_FLAGS \ x.arg
           /\ UNCHANGED <<INPUT_FLAGS, RESET_ACK_EVENT_COUNTER>>
      /\ x.op = "reset_ack" =>
           /\ RESET_ACK_EVENT_COUNTER' = (RESET_ACK_EVENT_COUNTER + 1) % RESET_ACK_MODULUS
           /\ UNCHANGED <<FAULT_FLAGS, INPUT_FLAGS>>
  BY DEF Store, replace_operator_input_flags, replace_operator_input_flags_and_set_can_link_active,
         set_fault_flags, clear_fault_flags, signal_reset_ack_event
<1> HIDE DEF x
<1>4. x.op \in Ops
  BY <1>1 DEF StoreRecords
<1>5. /\ x.op = "update_input_flag" => Link \notin INPUT_FLAGS'
      /\ x.op = "replace" => INPUT_FLAGS' = {}
      /\ x.op = "replace_and_link" => Link \in INPUT_FLAGS'
      /\ x.op \in {"set_fault", "clear_on_recovery", "clear_for_reset", "reset_ack"} =>
           INPUT_FLAGS' = INPUT_FLAGS
  BY <1>1, <1>3 DEF ArgOK, Before, Ready
<1>6. x = store("replace_and_link", {}) => INPUT_FLAGS' = {Link}
  BY <1>3 DEF store
<1>7. x = store("set_fault", {"CAN_BUS_OFF"}) => "CAN_BUS_OFF" \in FAULT_FLAGS'
  BY <1>3 DEF store
<1>8. x.op \in Withdrawing => INPUT_FLAGS' \subseteq INPUT_FLAGS /\ FAULT_FLAGS \subseteq FAULT_FLAGS'
  BY <1>1, <1>3, <1>5 DEF Withdrawing, ArgOK
<1>9. INPUT_FLAGS' \subseteq InputBits
  <2>1. x.op = "replace_and_link" => x.arg \subseteq OperatorActions
    BY <1>1, FramesAssumption DEF ArgOK
  <2> QED BY <1>2, <1>3, <1>4, <1>5, <2>1 DEF SharedTypeOK, InputBits, Ops
<1>10. FAULT_FLAGS' \subseteq AllFaults
  <2>1. x.op = "set_fault" => x.arg \subseteq AllFaults
    BY <1>1 DEF ArgOK, AllFaults
  <2> QED BY <1>2, <1>3, <1>4, <2>1 DEF SharedTypeOK, Ops
<1>11. RESET_ACK_EVENT_COUNTER' \in 0 .. RESET_ACK_MODULUS - 1
  <2>1. /\ RESET_ACK_EVENT_COUNTER \in Nat /\ RESET_ACK_MODULUS \in Nat /\ RESET_ACK_MODULUS > 0
        /\ RESET_ACK_EVENT_COUNTER \in 0 .. RESET_ACK_MODULUS - 1
    BY <1>2, CounterAssumption DEF SharedTypeOK
  <2>2. (RESET_ACK_EVENT_COUNTER + 1) % RESET_ACK_MODULUS \in 0 .. RESET_ACK_MODULUS - 1
    BY <2>1
  <2> QED BY <1>3, <1>4, <2>1, <2>2 DEF Ops
<1>12. SharedTypeOK'
  BY <1>2, <1>9, <1>10, <1>11 DEF SharedTypeOK, outputVars
<1> QED BY <1>5, <1>6, <1>7, <1>8, <1>12 DEF x

\* A store keeps the order of those that follow it.
LEMMA StoreInv == ASSUME IInv, Store PROVE IInv'
<1> DEFINE s == stores
           t == Tail(stores)
<1>1. /\ s[1].op \in Ops /\ s[1] = Head(s) /\ Len(s) \in Nat /\ 1 \in 1 .. Len(s)
      /\ Before(s[1].op) # "none" => Ready(s[1].op, INPUT_FLAGS)
      /\ t \in Seq(StoreRecords) /\ Len(t) = Len(s) - 1
      /\ \A i \in 1 .. Len(t) : t[i] = s[i + 1]
  BY NextStore DEF Store, StoreRecords
<1>2. /\ stores' = t
      /\ UNCHANGED <<controller, CAN_HEALTH, pc, tx_runtime_state, peer_age, reset_ack_prev,
                     restart_attempted, try_restart>>
  BY DEF Store
<1>3. /\ s[1].op = "update_input_flag" => Link \notin INPUT_FLAGS'
      /\ s[1].op = "replace" => INPUT_FLAGS' = {}
      /\ s[1].op = "replace_and_link" => Link \in INPUT_FLAGS'
      /\ s[1] = store("replace_and_link", {}) => INPUT_FLAGS' = {Link}
      /\ s[1].op \in {"set_fault", "clear_on_recovery", "clear_for_reset", "reset_ack"} =>
           INPUT_FLAGS' = INPUT_FLAGS
      /\ s[1].op \in Withdrawing =>
           INPUT_FLAGS' \subseteq INPUT_FLAGS /\ FAULT_FLAGS \subseteq FAULT_FLAGS'
      /\ s[1] = store("set_fault", {"CAN_BUS_OFF"}) => "CAN_BUS_OFF" \in FAULT_FLAGS'
      /\ SharedTypeOK'
  BY <1>1, StoreEffect
<1>4. TypeOK'
  BY <1>1, <1>2, <1>3 DEF IInv, TypeOK, StoreRecords, Ops
<1> HIDE DEF s, t
<1>5. \A i \in 1 .. Len(s) :
        /\ ArgOK(s[i])
        /\ Before(s[i].op) # "none" => IF i = 1 THEN Ready(s[i].op, INPUT_FLAGS) ELSE Backed(s, i)
        /\ IF i = 2 THEN s[i].op = "clear_for_reset" => INPUT_FLAGS = {Link}
                    ELSE i # 1 => OfNeutralFrame(s, i)
  BY DEF IInv, StoresOrdered, Ordered, s
<1>6. ASSUME NEW i \in 1 .. Len(t)
      PROVE  /\ ArgOK(t[i])
             /\ Before(t[i].op) # "none" => IF i = 1 THEN Ready(t[i].op, INPUT_FLAGS')
                                                     ELSE Backed(t, i)
             /\ IF i = 2 THEN t[i].op = "clear_for_reset" => INPUT_FLAGS' = {Link}
                         ELSE i # 1 => OfNeutralFrame(t, i)
  <2>1. i + 1 \in 1 .. Len(s) /\ t[i] = s[i + 1]
    BY <1>1
  <2>2. ArgOK(t[i])
    BY <1>5, <2>1
  <2>3. CASE i = 1
    <3>1. 2 \in 1 .. Len(s) /\ t[1] = s[2]
      BY <2>1, <2>3
    <3>2. Before(s[2].op) # "none" => s[1].op = Before(s[2].op)
      BY <1>5, <3>1 DEF Backed
    <3>3. s[2].op = "clear_for_reset" => INPUT_FLAGS = {Link}
      BY <1>5, <3>1
    <3>4. Before(s[2].op) # "none" => Ready(s[2].op, INPUT_FLAGS')
      BY <1>1, <1>3, <3>2, <3>3 DEF Before, Ready
    <3> QED BY <2>2, <2>3, <3>1, <3>4
  <2>4. CASE i > 1
    <3>2. t[i - 1] = s[i]
      BY <1>1, <2>4
    <3>3. i > 2 => t[i - 2] = s[i - 1]
      BY <1>1, <2>4
    <3>4. Before(t[i].op) # "none" => Backed(t, i)
      BY <1>5, <2>1, <2>4, <3>2 DEF Backed
    <3>5. i = 2 => (t[i].op = "clear_for_reset" => INPUT_FLAGS' = {Link})
      BY <1>3, <1>5, <2>1 DEF OfNeutralFrame
    <3>6. i > 2 => OfNeutralFrame(t, i)
      BY <1>5, <2>1, <3>3 DEF OfNeutralFrame
    <3> QED BY <2>2, <2>4, <3>4, <3>5, <3>6
  <2> QED BY <1>1, <2>3, <2>4
<1>7. StoresOrdered'
  BY <1>2, <1>6 DEF StoresOrdered, Ordered
<1>8. BusOffOnItsWay'
  <2>1. SUFFICES ASSUME CAN_HEALTH = "BusOff"
                 PROVE  /\ \A i \in 1 .. Len(t) : t[i].op \in Withdrawing
                        /\ \/ INPUT_FLAGS' = {} /\ "CAN_BUS_OFF" \in FAULT_FLAGS'
                           \/ Raises(t, "CAN_BUS_OFF")
    BY <1>2 DEF BusOffOnItsWay
  <2>2. /\ \A i \in 1 .. Len(s) : s[i].op \in Withdrawing
        /\ \/ INPUT_FLAGS = {} /\ "CAN_BUS_OFF" \in FAULT_FLAGS
           \/ Raises(s, "CAN_BUS_OFF")
    BY <2>1 DEF IInv, BusOffOnItsWay, s
  <2>3. \A i \in 1 .. Len(t) : t[i].op \in Withdrawing
    BY <1>1, <2>2
  <2>4. CASE INPUT_FLAGS = {} /\ "CAN_BUS_OFF" \in FAULT_FLAGS
    BY <1>1, <1>3, <2>2, <2>3, <2>4
  <2>5. ASSUME NEW i \in 1 .. Len(s), s[i] = store("set_fault", {"CAN_BUS_OFF"})
        PROVE  \/ INPUT_FLAGS' = {} /\ "CAN_BUS_OFF" \in FAULT_FLAGS'
               \/ Raises(t, "CAN_BUS_OFF")
    <3>1. CASE i = 1
      <4>1. s[1].op = "set_fault"
        BY <2>5, <3>1 DEF store
      <4> QED BY <1>1, <1>3, <2>5, <3>1, <4>1 DEF Before, Ready
    <3>2. CASE i > 1
      <4>1. i - 1 \in 1 .. Len(t) /\ t[i - 1] = s[i]
        BY <1>1, <3>2
      <4> QED BY <2>5, <4>1 DEF Raises
    <3> QED BY <1>1, <3>1, <3>2
  <2> QED BY <2>2, <2>3, <2>4, <2>5 DEF Raises
<1> QED BY <1>4, <1>7, <1>8 DEF IInv

\* What core 0 may do to the statics while this task stands anywhere: withdraw
\* requests, and touch no CAN fault.
LEMMA OtherCoreInv ==
  ASSUME IInv, UNCHANGED canVars, SharedTypeOK',
         INPUT_FLAGS' \in {INPUT_FLAGS, INPUT_FLAGS \cap {Link}},
         FAULT_FLAGS \cap CanFaults \subseteq FAULT_FLAGS'
  PROVE  IInv'
<1>1. TypeOK'
  BY DEF IInv, TypeOK, canVars
<1>2. \A op : Ready(op, INPUT_FLAGS) => Ready(op, INPUT_FLAGS')
  BY DEF Ready
<1>3. INPUT_FLAGS = {Link} => INPUT_FLAGS' = {Link}
  OBVIOUS
<1>4. StoresOrdered'
  BY <1>2, <1>3 DEF IInv, StoresOrdered, Ordered, canVars
<1>5. BusOffOnItsWay'
  BY DEF IInv, BusOffOnItsWay, canVars, CanFaults
<1> QED BY <1>1, <1>4, <1>5 DEF IInv

\* The supervisor's own store may come between any two.
LEMMA SupervisorStepInv == ASSUME IInv, SupervisorStep PROVE IInv'
<1>1. /\ INPUT_FLAGS' = INPUT_FLAGS \cap {Link}
      /\ UNCHANGED <<FAULT_FLAGS, RESET_ACK_EVENT_COUNTER, outputVars, canVars>>
  BY DEF SupervisorStep, replace_operator_input_flags
<1>2. SharedTypeOK'
  BY <1>1 DEF IInv, TypeOK, SharedTypeOK, outputVars
<1> QED BY <1>1, <1>2, OtherCoreInv

\* The steps of the task, of time and of the peripheral, whoever else runs.
LEMMA CanStepsInv ==
  ASSUME IInv, CanTask \/ Tick \/ ControllerChanges \/ ControllerRecovers
  PROVE  IInv'
<1>1. ASSUME NEW b \in Frames, NEW ack \in BOOLEAN, ReceiveButtons(b, ack) PROVE IInv'
  BY <1>1, ReceiveButtonsInv
<1>2. ASSUME NEW result \in TxResults, Transmitted(result) PROVE IInv'
  BY <1>2, TransmittedInv
<1>3. CASE Store
  BY <1>3, StoreInv
<1> QED
  BY <1>1, <1>2, <1>3, BranchesInv, QuietInv DEF CanTask, Branch, GoOn

\* What such a step does to the statics is a step of CanStep, or nothing.
LEMMA CanStepsGuarantee ==
  ASSUME RaisedCanFaults = CanFaults, IInv,
         CanTask \/ Tick \/ ControllerChanges \/ ControllerRecovers
  PROVE  CanStep \/ UNCHANGED sharedVars
<1>1. ~Store => UNCHANGED sharedVars
  BY DEF CanTask, Branch, GoOn, ReceiveButtons, ReceiveOther, ReceiveError, TxTick, HealthTick,
         goes_on, Transmitted, Restart, BackOff, Loop, Tick, ControllerChanges, ControllerRecovers
<1> QED BY <1>1, StoreIsCanStep

\* The invariant holds for ever.
LEMMA Invariance == Spec => []IInv
<1>1. Init => IInv
  BY InitIInv DEF Init
<1>2. IInv /\ [Next]_vars => IInv'
  <2> SUFFICES ASSUME IInv, [Next]_vars PROVE IInv'
    OBVIOUS
  <2>1. CASE SupervisorStep
    BY <2>1, SupervisorStepInv
  <2>2. CASE UNCHANGED vars
    <3>1. UNCHANGED <<sharedVars, canVars>>
      BY <2>2 DEF vars
    <3>2. SharedTypeOK' /\ INPUT_FLAGS' = INPUT_FLAGS /\ FAULT_FLAGS' = FAULT_FLAGS
      BY <3>1 DEF IInv, TypeOK, SharedTypeOK, sharedVars, inputVars, outputVars
    <3> QED BY <3>1, <3>2, OtherCoreInv
  <2> QED BY <2>1, <2>2, CanStepsInv DEF Next
<1> QED BY <1>1, <1>2, PTL DEF Spec

\* The variables of the CAN task keep their types for every timeout and frame
\* set.
THEOREM CanTypeCorrect == Spec => []TypeOK
<1>1. IInv => TypeOK
  BY DEF IInv
<1> QED BY <1>1, Invariance, PTL

\* Whenever the task is back at its select and knows the controller bus-off, its
\* fault stands and no request or link bit does, whichever branch noticed it and
\* whatever the other core stored meanwhile (can_communication.rs 403-436).
THEOREM BusOffWithdrawsInputs == Spec => []BusOffStopsInputs
<1>1. IInv => BusOffStopsInputs
  BY NoStores DEF IInv, BusOffOnItsWay, BusOffStopsInputs, settled, at, Raises
<1> QED BY <1>1, Invariance, PTL

\* With all faults of core 1 admitted, every change this task makes to the
\* statics is one that the supervisor is proved safe against, however its
\* branches and the supervisor's store interleave (can_communication.rs 152-192,
\* 403-472).
THEOREM CanTaskKeepsItsWord ==
  ASSUME RaisedCanFaults = CanFaults
  PROVE  Spec => GuaranteesCanStep
<1>1. IInv /\ [Next]_vars => [CanStep \/ SupervisorStep]_sharedVars
  <2> SUFFICES ASSUME IInv, Next PROVE CanStep \/ SupervisorStep \/ UNCHANGED sharedVars
    BY DEF vars
  <2> QED BY CanStepsGuarantee DEF Next
<1> QED BY <1>1, Invariance, PTL DEF Spec, GuaranteesCanStep
=============================================================================

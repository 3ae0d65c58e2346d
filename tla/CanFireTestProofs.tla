-------------------------- MODULE CanFireTestProofs --------------------------
(***************************************************************************)
(* The command timeout of the hardware test, for all durations.            *)
(***************************************************************************)
EXTENDS CanFireTest, TLAPS

\* The age of the command in force and the time to the next watch are tied: a
\* watch that left the igniter on saw a command younger than the timeout.  The
\* watch is overdue only because of the transmission in progress or just over.
WatchKeepsTime ==
  /\ transmitting = None => watch_in >= 1 - CAN_TX_TIMEOUT
  /\ transmitting # None => watch_in + transmitting >= 1
  /\ fire_on =>
       /\ command_age # None
       /\ tx_runtime_state = "Normal"
       /\ command_age + watch_in <= COMMAND_TIMEOUT + COMMAND_WATCH_INTERVAL - 1

IInv == TypeOK /\ WatchKeepsTime

\* The durations are positive.
LEMMA Durations ==
  /\ None \notin Int
  /\ COMMAND_TIMEOUT \in Nat /\ COMMAND_TIMEOUT > 0
  /\ COMMAND_WATCH_INTERVAL \in Nat /\ COMMAND_WATCH_INTERVAL > 0
  /\ CAN_RECOVERY_RETRY_INTERVAL \in Nat /\ CAN_RECOVERY_RETRY_INTERVAL > 0
  /\ CAN_TX_TIMEOUT \in Nat /\ CAN_TX_TIMEOUT > 0
  BY FireTestAssumption

\* Nothing is on at the start.
LEMMA InitIInv == Init => IInv
<1> SUFFICES ASSUME Init PROVE IInv
  OBVIOUS
<1> USE Durations DEF Init
<1>1. TypeOK
  <2>1. COMMAND_WATCH_INTERVAL \in -CAN_TX_TIMEOUT .. COMMAND_WATCH_INTERVAL
    OBVIOUS
  <2> QED
    BY <2>1 DEF TypeOK
<1>2. WatchKeepsTime
  BY DEF WatchKeepsTime
<1> QED
  BY <1>1, <1>2 DEF IInv

\* An igniter that is on is backed by a command young enough.
LEMMA BackedFromIInv == IInv => FireBacked
  BY Durations DEF IInv, TypeOK, WatchKeepsTime, FireBacked, LONGEST

\* The invariant is inductive.
LEMMA StepIInv == IInv /\ [Next]_fireVars => IInv'
<1> SUFFICES ASSUME IInv, [Next]_fireVars PROVE IInv'
  OBVIOUS
<1> USE Durations DEF IInv, TypeOK, WatchKeepsTime, LONGEST, at_select
<1>1. ASSUME NEW fire \in BOOLEAN, ReceiveButton(fire) PROVE IInv'
  BY <1>1 DEF ReceiveButton, force_fire_off
<1>2. CASE ReceiveInvalid
  BY <1>2 DEF ReceiveInvalid, force_fire_off
<1>3. CASE ReceiveBusOff
  BY <1>3 DEF ReceiveBusOff, force_fire_off, restart
<1>4. CASE CommandWatch
  BY <1>4 DEF CommandWatch, force_fire_off
<1>5. CASE Transmit
  BY <1>5 DEF Transmit
<1>6. CASE RestartDue
  BY <1>6 DEF RestartDue, restart
<1>7. CASE TransmitOk
  BY <1>7 DEF TransmitOk
<1>8. CASE TransmitRetry
  BY <1>8 DEF TransmitRetry
<1>9. CASE TransmitSuspends
  <2>1. /\ transmitting' = None /\ watch_in' = watch_in /\ watch_in >= 1 - CAN_TX_TIMEOUT
        /\ fire_on' = FALSE /\ heard' = FALSE /\ command_age' = None
    BY <1>9 DEF TransmitSuspends, force_fire_off
  <2>2. /\ tx_runtime_state' \in {"Normal", "SuspendedAfterTimeout", "ProbePending"}
        /\ restart_in' \in 0 .. CAN_RECOVERY_RETRY_INTERVAL \cup {None}
    BY <1>9 DEF TransmitSuspends, restart
  <2> QED
    BY <2>1, <2>2
<1>10. CASE Tick
  <2>1. restart_in' \in 0 .. CAN_RECOVERY_RETRY_INTERVAL \cup {None}
    BY <1>10 DEF Tick, sooner
  <2>2. /\ watch_in' \in -CAN_TX_TIMEOUT .. COMMAND_WATCH_INTERVAL
        /\ watch_in' = watch_in - 1
        /\ transmitting' \in 0 .. CAN_TX_TIMEOUT \cup {None}
        /\ transmitting' = None => transmitting = None /\ watch_in' >= 0
        /\ transmitting' # None => watch_in' + transmitting' >= 1
    BY <1>10 DEF Tick, later
  <2>3. CASE fire_on
    <3>1. command_age' = command_age + 1 /\ command_age' \in 0 .. LONGEST
      BY <1>10, <2>2, <2>3 DEF Tick, later
    <3> QED
      BY <1>10, <2>1, <2>2, <2>3, <3>1 DEF Tick
  <2>4. CASE ~fire_on
    <3>1. command_age' \in 0 .. LONGEST \cup {None}
      BY <1>10, <2>4 DEF Tick, later
    <3> QED
      BY <1>10, <2>1, <2>2, <2>4, <3>1 DEF Tick
  <2> QED
    BY <2>3, <2>4
<1>11. CASE UNCHANGED fireVars
  BY <1>11 DEF fireVars
<1> QED
  BY <1>1, <1>2, <1>3, <1>4, <1>5, <1>6, <1>7, <1>8, <1>9, <1>10, <1>11 DEF Next, Failure

\* For every choice of the durations the igniter of the test is on only by a
\* command younger than the timeout and what a watch and a transmission can add,
\* and only while transmission is Normal (can_fire.rs 126-153, 195-209).
THEOREM IgniterBacked == Spec => []FireBacked
<1>1. Init => IInv
  BY InitIInv
<1>2. IInv /\ [Next]_fireVars => IInv'
  BY StepIInv
<1>3. IInv => FireBacked
  BY BackedFromIInv
<1> QED
  BY <1>1, <1>2, <1>3, PTL DEF Spec
=============================================================================

-------------------------------- MODULE Board --------------------------------
(***************************************************************************)
(* The whole board: core 0 with the supervisor and servo_task (Core0) and  *)
(* core 1 with can_manager_task (CanManager), each core taking one step of *)
(* its own at a time.  main.rs starts core 1 once the statics have their   *)
(* initial values, and the cores share nothing but the statics of lib.rs.  *)
(*                                                                         *)
(* The environments the two models were checked against are gone: the      *)
(* stores of core 1 are those of CanManager, and what core 0 does to the   *)
(* inputs is what the supervisor does.  BoardProofs shows that neither     *)
(* core asks more of the other than it gets.                               *)
(***************************************************************************)
EXTENDS Core0

CONSTANTS COMMUNICATION_TIMEOUT, TxResults

VARIABLES controller, CAN_HEALTH, can_pc, stores, tx_runtime_state, peer_age,
          reset_ack_prev, restart_attempted, try_restart

\* The instance brings what is proved of the task along.
Can == INSTANCE CanManagerProofs WITH pc <- can_pc

\* What CanManager assumes of its constants, and every CAN fault admitted.
CanAssumption ==
  /\ RaisedCanFaults = CanFaults
  /\ COMMUNICATION_TIMEOUT \in Nat \ {0}
  /\ TxResults \subseteq
       {"Ok", "TransmitFailed", "TimedOutUnknownState", "BusOff", "FrameCreateFailed"}

core1Vars == <<controller, CAN_HEALTH, can_pc, stores, tx_runtime_state, peer_age,
               reset_ack_prev, restart_attempted, try_restart>>
boardVars == <<coreVars, core1Vars>>

BoardInit == CoreInit /\ Can!TaskInit

Core0Step == (Supervise \/ Serve) /\ UNCHANGED core1Vars

Core1Step ==
  /\ Can!CanTask \/ Can!Tick \/ Can!ControllerChanges \/ Can!ControllerRecovers
  /\ UNCHANGED <<localVars, SERVO_COMM_ERROR_COUNT, transfer>>

BoardNext == Core0Step \/ Core1Step

BoardSpec == BoardInit /\ [][BoardNext]_boardVars

-----------------------------------------------------------------------------
\* The board is core 0 against a core 1 that does only what CanStep allows: all
\* that is checked and proved of Core0 and Supervisor holds of it.
ImplementsCore0 == CoreSpec

\* A bus-off that core 1 knows has withdrawn every request, the supervisor's own
\* stores to the inputs notwithstanding.
BusOffStopsBoard == Can!BusOffStopsInputs
=============================================================================

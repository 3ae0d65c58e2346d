---------------------------- MODULE FaultHistory ----------------------------
(***************************************************************************)
(* The supervisor with a record of what stayed true all through its last   *)
(* iteration, and of where its last abort began.  The loop loads the       *)
(* faults up to four times and the inputs twice, while core 1 and the      *)
(* servo task change both; whatever it mixed from those loads, a condition *)
(* that held from Wake to the end of the iteration must have had its       *)
(* effect.                                                                 *)
(***************************************************************************)
EXTENDS Supervisor

VARIABLES
  held,                      \* faults set at every moment since the last Wake
  link_down,                 \* the link has been down ever since the last Wake
  aborted_from,              \* the phase the last abort began in, or None
  acked                      \* a reset event since the iteration that aborted began

faultHistory == <<held, link_down, aborted_from, acked>>

FaultHistoryInit ==
  /\ Init
  /\ held = {} /\ link_down = FALSE
  /\ aborted_from = None /\ acked = FALSE

ObserveWake(d) ==
  /\ Wake(d)
  /\ held' = FAULT_FLAGS
  /\ link_down' = (Link \notin INPUT_FLAGS)
  /\ acked' = (acked /\ SEQUENCE_PHASE = "Abort")
  /\ UNCHANGED aborted_from

KeepHeld ==
  /\ held' = held \cap FAULT_FLAGS'
  /\ link_down' = (link_down /\ Link \notin INPUT_FLAGS')

entering_abort == SEQUENCE_PHASE # "Abort" /\ SEQUENCE_PHASE' = "Abort"

ObserveWork ==
  /\ Work
  /\ KeepHeld
  /\ aborted_from' = IF entering_abort THEN SEQUENCE_PHASE ELSE aborted_from
  /\ UNCHANGED acked

ObserveEnvironment ==
  /\ Environment
  /\ KeepHeld
  /\ acked' = (acked \/ RESET_ACK_EVENT_COUNTER' # RESET_ACK_EVENT_COUNTER)
  /\ UNCHANGED aborted_from

FaultHistoryNext == (\E d \in Delays : ObserveWake(d)) \/ ObserveWork \/ ObserveEnvironment

FaultHistorySpec == FaultHistoryInit /\ [][FaultHistoryNext]_<<vars, faultHistory>>

-----------------------------------------------------------------------------
\* Any fault that lasts an iteration has ended the firing and switched the
\* igniter off (supervisor.rs 133-157, lib.rs 244-249).
HeldFaultEndsFiring ==
  awaiting /\ held # {} => SEQUENCE_PHASE # "Firing" /\ "IGNITER" \notin OUTPUT_STATUS

\* A hard-inhibit fault that lasts an iteration leaves no output on, and so
\* does a link that stays down, which need not raise any fault (lib.rs
\* 222-237, can_communication.rs 397-401).
OutputsOffWhenInhibited ==
  awaiting /\ (link_down \/ held \cap HardOutputInhibitFaults # {}) =>
    OUTPUT_STATUS = {} /\ SERVO_CONTROL_MODE = "HOLD"

\* A CAN fault with the link down through an iteration means Abort and no
\* operator request left standing (supervisor.rs 102-118).
CanFaultWithoutLinkAborts ==
  awaiting /\ link_down /\ held \cap CanFaults # {} =>
    SEQUENCE_PHASE = "Abort" /\ INPUT_FLAGS = {}

\* An abort that interrupted a firing, or followed one, is left only after a
\* reset acknowledgement; only one that began in Idle may recover by itself
\* (supervisor.rs 359-405).
FiringAbortNeedsAck ==
  [][SEQUENCE_PHASE = "Abort" /\ SEQUENCE_PHASE' = "Idle" =>
       aborted_from = "Idle" \/ acked]_<<vars, faultHistory>>

-----------------------------------------------------------------------------
(* Why they hold: together these parts are inductive (HistoryProofs).       *)

\* What held since Wake holds now, and whatever has been loaded since shows it.
HeldNow == held \subseteq FAULT_FLAGS /\ (link_down => Link \notin INPUT_FLAGS)
HeldLoaded ==
  /\ ~awaiting /\ link_down => Link \notin inputs
  /\ pc \notin {"wait", "load_faults"} => held \subseteq faults

\* Past the test of line 102 the loop does not meet a CAN fault without the link,
\* and past the phase handlers no fault in a firing.
InhibitDone ==
  pc \in {"reset_ack", "recover", "handle", "apply"} =>
    ~(link_down /\ held \cap CanFaults # {})
FiringClear == pc = "apply" /\ held # {} => SEQUENCE_PHASE # "Firing"

\* The code's own flag tells where the abort began, and its two counters whether
\* an acknowledgement is new: one that came before the abort was consumed by the
\* iteration that aborted, at line 94.
AbortStart == abort_before_firing => aborted_from = "Idle"
AckCounted ==
  /\ RESET_ACK_EVENT_COUNTER # previous_reset_ack_event =>
       \/ acked
       \/ SEQUENCE_PHASE # "Abort" /\ pc \in {"wait", "load_faults", "load_reset_ack"}
  /\ pc = "reset_ack" /\ SEQUENCE_PHASE = "Abort" => acked

FaultInv ==
  /\ HeldNow /\ HeldLoaded /\ InhibitDone /\ FiringClear
  /\ AbortStart /\ AckCounted
  /\ HeldFaultEndsFiring /\ OutputsOffWhenInhibited /\ CanFaultWithoutLinkAborts
=============================================================================

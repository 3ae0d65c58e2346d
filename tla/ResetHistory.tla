---------------------------- MODULE ResetHistory ----------------------------
(***************************************************************************)
(* The supervisor with a record of what the panel has shown of its         *)
(* controls since the last abort began.                                    *)
(***************************************************************************)
EXTENDS Supervisor

VARIABLES
  last_frame,                \* the requests of the last frame accepted, {} before any
  released                   \* since the abort began, a frame held no request

historyVars == <<last_frame, released>>

HistoryInit == Init /\ last_frame = {} /\ released = TRUE

RecordIteration ==
  /\ Iteration
  /\ released' = IF SEQUENCE_PHASE # "Abort" /\ SEQUENCE_PHASE' = "Abort"
                   THEN last_frame = {} ELSE released
  /\ UNCHANGED last_frame

RecordFrame ==
  /\ \E b \in Frames : ButtonFrame(b) /\ last_frame' = b
  /\ released' = (released \/ last_frame' = {})
  /\ UNCHANGED localVars

RecordOther ==
  /\ \/ DropLink \/ DropCommands \/ SignalResetAck
     \/ \E f \in RaisedCanFaults : RaiseCanFault(f)
     \/ \E fs \in SUBSET ClearableCanFaults : ClearCanFaults(fs)
     \/ pc = "wait" /\ ServoStep
  /\ UNCHANGED <<localVars, historyVars>>

HistoryNext == RecordIteration \/ RecordFrame \/ RecordOther

HistorySpec == HistoryInit /\ [][HistoryNext]_<<vars, historyVars>>

-----------------------------------------------------------------------------
\* Leaving Abort takes neutral input: since the abort began, the panel has
\* sent a frame with every control released.
\* (pre_firing_abort_recovery_requires_no_faults_and_neutral_input,
\* supervisor.rs 611-630.)
IdleNeedsReleasedControls ==
  [][SEQUENCE_PHASE = "Abort" /\ SEQUENCE_PHASE' = "Idle" => released]_<<vars, historyVars>>
=============================================================================

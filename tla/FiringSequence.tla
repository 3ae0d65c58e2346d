--------------------------- MODULE FiringSequence ---------------------------
(***************************************************************************)
(* What the board promises about a firing, with no inputs, faults, clocks  *)
(* or loops: the igniter and the opening of the main valve are two moments *)
(* of one firing, in that order and never together; a firing that has      *)
(* opened the valve is followed by a release before the next one starts;   *)
(* and a finished firing returns to Idle by way of Abort only.             *)
(* Supervisor implements it.                                               *)
(***************************************************************************)
VARIABLES
  stage,                     \* SEQUENCE_PHASE
  igniter,                   \* the igniter output is driven
  opened                     \* the valve has been opened and not yet released

vars == <<stage, igniter, opened>>

Init == stage = "Idle" /\ ~igniter /\ ~opened

Start ==
  /\ stage = "Idle" /\ ~igniter /\ ~opened
  /\ stage' = "Firing"
  /\ UNCHANGED <<igniter, opened>>

Ignite ==
  /\ stage = "Firing" /\ ~opened
  /\ igniter' = TRUE
  /\ UNCHANGED <<stage, opened>>

IgniterOff ==
  /\ igniter' = FALSE
  /\ UNCHANGED <<stage, opened>>

Open ==
  /\ stage = "Firing"
  /\ igniter' = FALSE
  /\ opened' = TRUE
  /\ UNCHANGED stage

Finish ==
  /\ stage = "Firing"
  /\ stage' = "Timeout"
  /\ UNCHANGED <<igniter, opened>>

Abort ==
  /\ stage' = "Abort"
  /\ igniter' = FALSE
  /\ UNCHANGED opened

Recover ==
  /\ stage = "Abort" /\ ~igniter
  /\ stage' = "Idle"
  /\ UNCHANGED <<igniter, opened>>

Release ==
  /\ stage # "Firing" /\ opened
  /\ opened' = FALSE
  /\ UNCHANGED <<stage, igniter>>

Next ==
  \/ Start \/ Ignite \/ IgniterOff \/ Open
  \/ Finish \/ Abort \/ Recover \/ Release

Spec == Init /\ [][Next]_vars

FairSpec == Spec /\ WF_vars(Finish \/ (stage = "Firing" /\ Abort)) /\ WF_vars(Release)
=============================================================================

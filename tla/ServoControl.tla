---------------------------- MODULE ServoControl ----------------------------
(***************************************************************************)
(* src/src/servo_control.rs: the supervisor's memory of what it has told   *)
(* the main-valve servo.  The state is a record; the methods are operators *)
(* that return the new record.  Timestamps are ages (time since), capped   *)
(* at the only bound the code compares them with.                          *)
(***************************************************************************)
EXTENDS GseBoard

\* Option<u64> age: is_some_and(.. >= d), is_none_or(.. >= d), and d later.
elapsed(age, d) == age # None /\ age >= d
due(age, d) == age = None \/ age >= d
older(age, d, cap) ==
  IF age = None THEN None ELSE IF age + d < cap THEN age + d ELSE cap

Ages(cap) == 0 .. cap \cup {None}

ServoCommandStates ==
  [open_latched : BOOLEAN,
   firing_open_send_count : 0 .. FIRING_OPEN_SEND_MAX,
   last_firing_open_send : Ages(SERVO_POLL_INTERVAL),
   open_latch_release_started : Ages(OPEN_LATCH_RELEASE_DELAY),
   last_close_send : Ages(SERVO_POLL_INTERVAL),
   manual_open_command_active : BOOLEAN]

new ==
  [open_latched |-> FALSE,
   firing_open_send_count |-> 0,
   last_firing_open_send |-> None,
   open_latch_release_started |-> None,
   last_close_send |-> None,
   manual_open_command_active |-> FALSE]

\* The send history belongs to the latch, and the count to the timestamp.
consistent(s) ==
  /\ ~s.open_latched => s.firing_open_send_count = 0 /\ s.open_latch_release_started = None
  /\ (s.firing_open_send_count = 0) <=> (s.last_firing_open_send = None)

\* The same state d ticks later.
aged(s, d) ==
  [s EXCEPT
     !.last_firing_open_send = older(@, d, SERVO_POLL_INTERVAL),
     !.open_latch_release_started = older(@, d, OPEN_LATCH_RELEASE_DELAY),
     !.last_close_send = older(@, d, SERVO_POLL_INTERVAL)]

\* A slip: the latch is released without its delay.
update_latch_release_at_once(s) ==
  IF s.open_latched /\ s.open_latch_release_started # None
    THEN [s EXCEPT !.open_latched = FALSE,
                   !.open_latch_release_started = None,
                   !.firing_open_send_count = 0,
                   !.last_firing_open_send = None]
    ELSE s

update_latch_release(s) ==
  IF s.open_latched /\ elapsed(s.open_latch_release_started, OPEN_LATCH_RELEASE_DELAY)
    THEN [s EXCEPT !.open_latched = FALSE,
                   !.open_latch_release_started = None,
                   !.firing_open_send_count = 0,
                   !.last_firing_open_send = None]
    ELSE s

\* A slip: an abort does not start the release timer.
on_phase_transition_not_on_abort(s, phase) ==
  CASE phase = "Firing" /\ ~s.open_latched ->
         [s EXCEPT !.firing_open_send_count = 0,
                   !.last_firing_open_send = None,
                   !.open_latch_release_started = None]
    [] phase = "Timeout" /\ s.open_latched ->
         [s EXCEPT !.open_latch_release_started = IF @ = None THEN 0 ELSE @]
    [] OTHER -> s

on_phase_transition(s, phase) ==
  CASE phase = "Firing" /\ ~s.open_latched ->
         [s EXCEPT !.firing_open_send_count = 0,
                   !.last_firing_open_send = None,
                   !.open_latch_release_started = None]
    [] phase \in {"Timeout", "Abort"} /\ s.open_latched ->
         [s EXCEPT !.open_latch_release_started = IF @ = None THEN 0 ELSE @]
    [] OTHER -> s

can_start_firing(s) == ~s.open_latched

-----------------------------------------------------------------------------
(* schedule returns the new state, the action to apply (an angle, or None   *)
(* for Hold) and the angle to signal to servo_task (or None).               *)

hold(s) == [state |-> s, action |-> None, signal |-> None]
command(s, angle, signal) ==
  [state |-> s, action |-> angle, signal |-> IF signal THEN angle ELSE None]

without_manual(s) ==
  [s EXCEPT !.last_close_send = None, !.manual_open_command_active = FALSE]

\* Slips: one OPEN too many, and OPEN in every iteration.
schedule_latched_one_more(s, phase, firing_open_phase, requested) ==
  IF phase # "Firing" \/ ~firing_open_phase \/ requested # MAIN_VALVE_OPEN_ANGLE_X10
    THEN hold(s)
  ELSE IF /\ s.firing_open_send_count <= FIRING_OPEN_SEND_MAX
          /\ due(s.last_firing_open_send, SERVO_POLL_INTERVAL)
    THEN command([s EXCEPT !.last_firing_open_send = 0,
                           !.firing_open_send_count = @ + 1],
                 MAIN_VALVE_OPEN_ANGLE_X10, TRUE)
    ELSE command(s, MAIN_VALVE_OPEN_ANGLE_X10, FALSE)
schedule_latched_every_time(s, phase, firing_open_phase, requested) ==
  IF phase # "Firing" \/ ~firing_open_phase \/ requested # MAIN_VALVE_OPEN_ANGLE_X10
    THEN hold(s)
  ELSE IF s.firing_open_send_count < FIRING_OPEN_SEND_MAX
    THEN command([s EXCEPT !.last_firing_open_send = 0,
                           !.firing_open_send_count = @ + 1],
                 MAIN_VALVE_OPEN_ANGLE_X10, TRUE)
    ELSE command(s, MAIN_VALVE_OPEN_ANGLE_X10, FALSE)

\* A latched valve: up to FIRING_OPEN_SEND_MAX OPEN signals, one per poll
\* interval, while the firing still asks for them; never anything else.
schedule_latched(s, phase, firing_open_phase, requested) ==
  IF phase # "Firing" \/ ~firing_open_phase \/ requested # MAIN_VALVE_OPEN_ANGLE_X10
    THEN hold(s)
  ELSE IF s.firing_open_send_count >= FIRING_OPEN_SEND_MAX
    THEN IF elapsed(s.last_firing_open_send, SERVO_POLL_INTERVAL)
           THEN hold(s)
           ELSE command(s, MAIN_VALVE_OPEN_ANGLE_X10, FALSE)
  ELSE IF due(s.last_firing_open_send, SERVO_POLL_INTERVAL)
    THEN command([s EXCEPT !.last_firing_open_send = 0,
                           !.firing_open_send_count = @ + 1],
                 MAIN_VALVE_OPEN_ANGLE_X10, TRUE)
    ELSE command(s, MAIN_VALVE_OPEN_ANGLE_X10, FALSE)

\* A slip: OPEN does not restart the interval of the CLOSE commands.
schedule_manual_close_throttled(s, requested) ==
  CASE requested = MAIN_VALVE_CLOSED_ANGLE_X10 ->
         LET send == due(s.last_close_send, SERVO_POLL_INTERVAL)
         IN  command([s EXCEPT !.manual_open_command_active = FALSE,
                               !.last_close_send = IF send THEN 0 ELSE @],
                     requested, send)
    [] requested = MAIN_VALVE_OPEN_ANGLE_X10 ->
         command([s EXCEPT !.manual_open_command_active = TRUE],
                 requested, ~s.manual_open_command_active)
    [] OTHER -> hold(without_manual(s))

\* Manual operation: CLOSE is repeated at the poll interval, OPEN is sent once.
\* (MoveTo of a third angle is never requested.)
schedule_manual(s, requested) ==
  CASE requested = MAIN_VALVE_CLOSED_ANGLE_X10 ->
         LET send == due(s.last_close_send, SERVO_POLL_INTERVAL)
         IN  command([s EXCEPT !.manual_open_command_active = FALSE,
                               !.last_close_send = IF send THEN 0 ELSE @],
                     requested, send)
    [] requested = MAIN_VALVE_OPEN_ANGLE_X10 ->
         command([s EXCEPT !.last_close_send = None,
                           !.manual_open_command_active = TRUE],
                 requested, ~s.manual_open_command_active)
    [] OTHER -> hold(without_manual(s))

schedule(s, phase, firing_open_phase, requested) ==
  LET latches == phase = "Firing" /\ firing_open_phase
      t == [s EXCEPT !.open_latched = @ \/ latches]
  IN  IF t.open_latched
        THEN schedule_latched(without_manual(t), phase, firing_open_phase, requested)
      ELSE IF phase = "Firing" THEN hold(without_manual(t))
      ELSE schedule_manual(t, requested)
=============================================================================

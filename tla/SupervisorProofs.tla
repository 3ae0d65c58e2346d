-------------------------- MODULE SupervisorProofs --------------------------
(***************************************************************************)
(* The safety of supervisor_task for every duration, send limit, frame     *)
(* set, counter width and every time that may pass between two iterations. *)
(*                                                                         *)
(* IInv is inductive: one lemma for each step of the loop and one for the  *)
(* environment show that it is preserved, then each property follows.      *)
(***************************************************************************)
EXTENDS Supervisor, TLAPS

-----------------------------------------------------------------------------
(* What the methods of ServoCommandState return: the proofs below cite      *)
(* these lemmas instead of the definitions.                                 *)

\* The durations are positive integers, one by one.
LEMMA Durations ==
  /\ IGNITION_WAIT \in Nat /\ IGNITION_WAIT > 0
  /\ MAIN_VALVE_OPEN_DELAY \in Nat /\ MAIN_VALVE_OPEN_DELAY > 0
  /\ RUNNING_DURATION \in Nat /\ RUNNING_DURATION > 0
  /\ O2_OFF_DELAY_AFTER_VALVE_OPEN \in Nat
  /\ SERVO_POLL_INTERVAL \in Nat /\ SERVO_POLL_INTERVAL > 0
  /\ OPEN_LATCH_RELEASE_DELAY \in Nat /\ OPEN_LATCH_RELEASE_DELAY > 0
  /\ FIRING_OPEN_SEND_MAX \in Nat /\ FIRING_OPEN_SEND_MAX > 0
BY DurationAssumption

\* None is no age and no angle.
LEMMA NoneIsNoNumber ==
  /\ \A n \in Nat : n # None
  /\ MAIN_VALVE_OPEN_ANGLE_X10 # None /\ MAIN_VALVE_CLOSED_ANGLE_X10 # None
  /\ MAIN_VALVE_OPEN_ANGLE_X10 # MAIN_VALVE_CLOSED_ANGLE_X10
<1>1. \A n \in Int : n # None
  BY NoneAssumption
<1>2. MAIN_VALVE_OPEN_ANGLE_X10 \in Int /\ MAIN_VALVE_CLOSED_ANGLE_X10 \in Int
  BY DEF MAIN_VALVE_OPEN_ANGLE_X10, MAIN_VALVE_CLOSED_ANGLE_X10
<1>3. MAIN_VALVE_OPEN_ANGLE_X10 # MAIN_VALVE_CLOSED_ANGLE_X10
  BY DEF MAIN_VALVE_OPEN_ANGLE_X10, MAIN_VALVE_CLOSED_ANGLE_X10
<1> QED
  BY <1>1, <1>2, <1>3

\* An age stays within its cap and never turns into None or out of it.
LEMMA OlderAge ==
  ASSUME NEW cap \in Nat, NEW d \in Nat, NEW age \in Ages(cap)
  PROVE  /\ older(age, d, cap) \in Ages(cap)
         /\ older(age, d, cap) = None <=> age = None
         /\ age # None => older(age, d, cap) >= age
BY NoneIsNoNumber DEF older, Ages

\* Time keeps the order of two ages, and what is not due has not been due.
LEMMA OlderOrdered ==
  ASSUME NEW cap \in Nat, NEW d \in Nat, NEW a \in 0 .. cap, NEW b \in 0 .. cap
  PROVE  /\ a <= b => older(a, d, cap) <= older(b, d, cap)
         /\ ~due(older(b, d, cap), cap) => ~due(b, cap)
BY NoneIsNoNumber DEF older, due

\* Letting time pass touches the three ages only.
LEMMA AgedState ==
  ASSUME NEW s \in ServoCommandStates, NEW d \in Nat
  PROVE  LET t == aged(s, d) IN
         /\ t \in ServoCommandStates
         /\ t.open_latched = s.open_latched
         /\ t.firing_open_send_count = s.firing_open_send_count
         /\ t.manual_open_command_active = s.manual_open_command_active
         /\ t.last_firing_open_send = None <=> s.last_firing_open_send = None
         /\ t.open_latch_release_started = None <=> s.open_latch_release_started = None
         /\ t.last_close_send = None <=> s.last_close_send = None
         /\ t.last_firing_open_send =
              older(s.last_firing_open_send, d, SERVO_POLL_INTERVAL)
         /\ t.open_latch_release_started =
              older(s.open_latch_release_started, d, OPEN_LATCH_RELEASE_DELAY)
<1> DEFINE a == older(s.last_firing_open_send, d, SERVO_POLL_INTERVAL)
           b == older(s.open_latch_release_started, d, OPEN_LATCH_RELEASE_DELAY)
           c == older(s.last_close_send, d, SERVO_POLL_INTERVAL)
<1>1. /\ s.last_firing_open_send \in Ages(SERVO_POLL_INTERVAL)
      /\ s.open_latch_release_started \in Ages(OPEN_LATCH_RELEASE_DELAY)
      /\ s.last_close_send \in Ages(SERVO_POLL_INTERVAL)
  BY DEF ServoCommandStates
<1>2. /\ a \in Ages(SERVO_POLL_INTERVAL) /\ (a = None <=> s.last_firing_open_send = None)
      /\ b \in Ages(OPEN_LATCH_RELEASE_DELAY) /\ (b = None <=> s.open_latch_release_started = None)
      /\ c \in Ages(SERVO_POLL_INTERVAL) /\ (c = None <=> s.last_close_send = None)
  BY <1>1, OlderAge, Durations
<1>3. aged(s, d) = [s EXCEPT !.last_firing_open_send = a,
                             !.open_latch_release_started = b,
                             !.last_close_send = c]
  BY DEF aged
<1> HIDE DEF a, b, c
<1>4. LET t == aged(s, d) IN
      /\ t \in ServoCommandStates
      /\ t.open_latched = s.open_latched
      /\ t.firing_open_send_count = s.firing_open_send_count
      /\ t.manual_open_command_active = s.manual_open_command_active
      /\ t.last_firing_open_send = a
      /\ t.open_latch_release_started = b
      /\ t.last_close_send = c
  BY <1>2, <1>3 DEF ServoCommandStates
<1> QED
  BY <1>2, <1>4 DEF a, b

\* A release undoes the latch with everything that belongs to it, or nothing
\* happens.
LEMMA ReleaseState ==
  ASSUME NEW s \in ServoCommandStates
  PROVE  LET t == update_latch_release(s) IN
         /\ t \in ServoCommandStates
         /\ t.last_close_send = s.last_close_send
         /\ t.manual_open_command_active = s.manual_open_command_active
         /\ \/ t = s
            \/ /\ s.open_latched /\ s.open_latch_release_started # None
               /\ s.open_latch_release_started >= OPEN_LATCH_RELEASE_DELAY
               /\ ~t.open_latched
               /\ t.open_latch_release_started = None
               /\ t.firing_open_send_count = 0
               /\ t.last_firing_open_send = None
<1> DEFINE releases ==
             s.open_latched /\ elapsed(s.open_latch_release_started, OPEN_LATCH_RELEASE_DELAY)
           r == [s EXCEPT !.open_latched = FALSE,
                          !.open_latch_release_started = None,
                          !.firing_open_send_count = 0,
                          !.last_firing_open_send = None]
<1>1. CASE releases
  <2>1. update_latch_release(s) = r
    BY <1>1 DEF update_latch_release
  <2>2. /\ s.open_latched /\ s.open_latch_release_started # None
        /\ s.open_latch_release_started >= OPEN_LATCH_RELEASE_DELAY
    BY <1>1 DEF elapsed
  <2>3. 0 \in 0 .. FIRING_OPEN_SEND_MAX
    BY Durations
  <2>4. r \in ServoCommandStates
    BY <2>3 DEF ServoCommandStates, Ages
  <2>5. /\ r.last_close_send = s.last_close_send
        /\ r.manual_open_command_active = s.manual_open_command_active
        /\ ~r.open_latched
        /\ r.open_latch_release_started = None
        /\ r.firing_open_send_count = 0
        /\ r.last_firing_open_send = None
    BY DEF ServoCommandStates
  <2> HIDE DEF r
  <2> QED BY <2>1, <2>2, <2>4, <2>5
<1>2. CASE ~releases
  <2>1. update_latch_release(s) = s
    BY <1>2 DEF update_latch_release
  <2> QED BY <2>1
<1> QED BY <1>1, <1>2

\* A phase transition starts or clears the release timer and moves no latch.
LEMMA TransitionState ==
  ASSUME NEW s \in ServoCommandStates, NEW phase \in Phases,
         consistent(s)
  PROVE  LET t == on_phase_transition(s, phase) IN
         /\ t \in ServoCommandStates
         /\ t.open_latched = s.open_latched
         /\ t.firing_open_send_count = s.firing_open_send_count
         /\ t.last_firing_open_send = s.last_firing_open_send
         /\ t.last_close_send = s.last_close_send
         /\ t.manual_open_command_active = s.manual_open_command_active
         /\ (t.open_latch_release_started = None) <=>
              IF phase \in {"Timeout", "Abort"} THEN ~s.open_latched
              ELSE s.open_latch_release_started = None
         /\ phase \in {"Timeout", "Abort"} /\ s.open_latched =>
              t.open_latch_release_started =
                IF s.open_latch_release_started = None THEN 0
                ELSE s.open_latch_release_started
<1> USE Durations, NoneIsNoNumber DEF ServoCommandStates, Ages, consistent
<1>1. CASE phase = "Firing" /\ ~s.open_latched
  <2>1. on_phase_transition(s, phase) =
          [s EXCEPT !.firing_open_send_count = 0,
                    !.last_firing_open_send = None,
                    !.open_latch_release_started = None]
    BY <1>1 DEF on_phase_transition
  <2> QED BY <1>1, <2>1
<1>2. CASE phase \in {"Timeout", "Abort"} /\ s.open_latched
  <2> DEFINE r == IF s.open_latch_release_started = None THEN 0
                  ELSE s.open_latch_release_started
  <2>1. on_phase_transition(s, phase) = [s EXCEPT !.open_latch_release_started = r]
    BY <1>2 DEF on_phase_transition
  <2>2. r \in Ages(OPEN_LATCH_RELEASE_DELAY) /\ r # None
    OBVIOUS
  <2> HIDE DEF r
  <2> QED BY <1>2, <2>1, <2>2 DEF r
<1>3. CASE /\ ~(phase = "Firing" /\ ~s.open_latched)
           /\ ~(phase \in {"Timeout", "Abort"} /\ s.open_latched)
  <2>1. on_phase_transition(s, phase) = s
    BY <1>3 DEF on_phase_transition
  <2> QED BY <1>3, <2>1
<1> QED BY <1>1, <1>2, <1>3

-----------------------------------------------------------------------------
(* schedule.                                                                *)

\* The state schedule works on once the manual bookkeeping is dropped.
LEMMA WithoutManual ==
  ASSUME NEW s \in ServoCommandStates, NEW latch \in BOOLEAN
  PROVE  LET t == without_manual([s EXCEPT !.open_latched = latch]) IN
         /\ t \in ServoCommandStates
         /\ t.open_latched = latch
         /\ t.firing_open_send_count = s.firing_open_send_count
         /\ t.last_firing_open_send = s.last_firing_open_send
         /\ t.open_latch_release_started = s.open_latch_release_started
         /\ t.last_close_send = None
         /\ ~t.manual_open_command_active
BY DEF without_manual, ServoCommandStates, Ages

\* Latched: the only command is OPEN, in the open phase of a firing, and a
\* signal is recorded in the count and the timestamp.
LEMMA LatchedSchedule ==
  ASSUME NEW s \in ServoCommandStates, NEW phase \in Phases, NEW fop \in BOOLEAN,
         NEW r \in Angles \cup {None},
         s.open_latched, consistent(s)
  PROVE  LET d == schedule_latched(s, phase, fop, r) IN
         /\ d.state \in ServoCommandStates
         /\ consistent(d.state)
         /\ d.state.open_latched
         /\ d.state.open_latch_release_started = s.open_latch_release_started
         /\ d.state.last_close_send = s.last_close_send
         /\ d.state.manual_open_command_active = s.manual_open_command_active
         /\ d.action \in {MAIN_VALVE_OPEN_ANGLE_X10, None}
         /\ d.signal \in {d.action, None}
         /\ d.action # None => /\ r = d.action /\ phase = "Firing" /\ fop
                               /\ d.state.last_firing_open_send # None
         /\ d.signal = None => d.state = s
         /\ d.signal # None =>
              /\ due(s.last_firing_open_send, SERVO_POLL_INTERVAL)
              /\ s.firing_open_send_count < FIRING_OPEN_SEND_MAX
              /\ d.state.firing_open_send_count = s.firing_open_send_count + 1
              /\ d.state.last_firing_open_send = 0
<1> DEFINE d == schedule_latched(s, phase, fop, r)
           sent == [s EXCEPT !.last_firing_open_send = 0,
                             !.firing_open_send_count = s.firing_open_send_count + 1]
<1>1. CASE phase # "Firing" \/ ~fop \/ r # MAIN_VALVE_OPEN_ANGLE_X10
  <2>1. d = [state |-> s, action |-> None, signal |-> None]
    BY <1>1 DEF schedule_latched, hold
  <2> QED BY <2>1
<1>2. CASE /\ phase = "Firing" /\ fop /\ r = MAIN_VALVE_OPEN_ANGLE_X10
           /\ s.firing_open_send_count >= FIRING_OPEN_SEND_MAX
  <2>1. s.last_firing_open_send # None
    BY <1>2, Durations DEF consistent
  <2>2. CASE elapsed(s.last_firing_open_send, SERVO_POLL_INTERVAL)
    <3>1. d = [state |-> s, action |-> None, signal |-> None]
      BY <1>2, <2>2 DEF schedule_latched, hold
    <3> QED BY <3>1
  <2>3. CASE ~elapsed(s.last_firing_open_send, SERVO_POLL_INTERVAL)
    <3>1. d = [state |-> s, action |-> MAIN_VALVE_OPEN_ANGLE_X10, signal |-> None]
      BY <1>2, <2>3 DEF schedule_latched, command
    <3>2. d.state = s /\ d.action = MAIN_VALVE_OPEN_ANGLE_X10 /\ d.signal = None
      BY <3>1
    <3> HIDE DEF d
    <3> QED BY <1>2, <2>1, <3>2 DEF d
  <2> QED BY <2>2, <2>3
<1>3. CASE /\ phase = "Firing" /\ fop /\ r = MAIN_VALVE_OPEN_ANGLE_X10
           /\ ~(s.firing_open_send_count >= FIRING_OPEN_SEND_MAX)
           /\ due(s.last_firing_open_send, SERVO_POLL_INTERVAL)
  <2>1. d = [state |-> sent, action |-> MAIN_VALVE_OPEN_ANGLE_X10,
             signal |-> MAIN_VALVE_OPEN_ANGLE_X10]
    BY <1>3 DEF schedule_latched, command
  <2>2. s.firing_open_send_count + 1 \in 1 .. FIRING_OPEN_SEND_MAX
    BY <1>3, Durations DEF ServoCommandStates
  <2>3. sent \in ServoCommandStates
    <3>1. 0 \in Ages(SERVO_POLL_INTERVAL)
      BY Durations DEF Ages
    <3>2. s.firing_open_send_count + 1 \in 0 .. FIRING_OPEN_SEND_MAX
      BY <2>2
    <3> QED BY <3>1, <3>2 DEF ServoCommandStates
  <2>4. /\ sent.open_latched
        /\ sent.firing_open_send_count # 0
        /\ sent.last_firing_open_send # None
        /\ sent.open_latch_release_started = s.open_latch_release_started
        /\ sent.last_close_send = s.last_close_send
        /\ sent.manual_open_command_active = s.manual_open_command_active
    BY <2>2, NoneIsNoNumber DEF ServoCommandStates
  <2>5. consistent(sent)
    BY <2>4 DEF consistent
  <2>6. d.state = sent /\ d.action = MAIN_VALVE_OPEN_ANGLE_X10 /\ d.signal = d.action
    BY <2>1
  <2>7. /\ sent.firing_open_send_count = s.firing_open_send_count + 1
        /\ sent.last_firing_open_send = 0
        /\ s.firing_open_send_count < FIRING_OPEN_SEND_MAX
    BY <1>3, Durations DEF ServoCommandStates
  <2> HIDE DEF sent, d
  <2>8. d.signal # None
    BY <2>6, NoneIsNoNumber
  <2> QED BY <1>3, <2>3, <2>4, <2>5, <2>6, <2>7, <2>8 DEF d
<1>4. CASE /\ phase = "Firing" /\ fop /\ r = MAIN_VALVE_OPEN_ANGLE_X10
           /\ ~(s.firing_open_send_count >= FIRING_OPEN_SEND_MAX)
           /\ ~due(s.last_firing_open_send, SERVO_POLL_INTERVAL)
  <2>1. d = [state |-> s, action |-> MAIN_VALVE_OPEN_ANGLE_X10, signal |-> None]
    BY <1>4 DEF schedule_latched, command
  <2>2. s.last_firing_open_send # None
    BY <1>4 DEF due
  <2>3. d.state = s /\ d.action = MAIN_VALVE_OPEN_ANGLE_X10 /\ d.signal = None
    BY <2>1
  <2> HIDE DEF d
  <2> QED BY <1>4, <2>2, <2>3 DEF d
<1> QED BY <1>1, <1>2, <1>3, <1>4

\* Unlatched and not firing: the manual commands.
LEMMA ManualSchedule ==
  ASSUME NEW s \in ServoCommandStates, NEW r \in Angles \cup {None}
  PROVE  LET d == schedule_manual(s, r) IN
         /\ d.state \in ServoCommandStates
         /\ d.state.open_latched = s.open_latched
         /\ d.state.firing_open_send_count = s.firing_open_send_count
         /\ d.state.last_firing_open_send = s.last_firing_open_send
         /\ d.state.open_latch_release_started = s.open_latch_release_started
         /\ d.action = r
         /\ d.signal \in {r, None}
         /\ r = MAIN_VALVE_CLOSED_ANGLE_X10 =>
              /\ d.state.last_close_send # None
              /\ ~d.state.manual_open_command_active
              /\ d.signal = None => s.last_close_send # None
         /\ r = MAIN_VALVE_OPEN_ANGLE_X10 =>
              /\ d.state.last_close_send = None
              /\ d.state.manual_open_command_active
              /\ d.signal = None => s.manual_open_command_active
         /\ r = None =>
              /\ d.state.last_close_send = None
              /\ ~d.state.manual_open_command_active
<1> DEFINE d == schedule_manual(s, r)
<1> USE NoneIsNoNumber, Durations
<1>1. CASE r = MAIN_VALVE_CLOSED_ANGLE_X10
  <2> DEFINE send == due(s.last_close_send, SERVO_POLL_INTERVAL)
             age == IF send THEN 0 ELSE s.last_close_send
             t == [s EXCEPT !.manual_open_command_active = FALSE, !.last_close_send = age]
  <2>1. d = [state |-> t, action |-> r, signal |-> IF send THEN r ELSE None]
    BY <1>1 DEF schedule_manual, command
  <2>2. age \in Ages(SERVO_POLL_INTERVAL) /\ age # None
    BY DEF due, ServoCommandStates, Ages
  <2>3. ~send => s.last_close_send # None
    BY DEF due
  <2> HIDE DEF age, send
  <2>4. /\ t \in ServoCommandStates
        /\ t.open_latched = s.open_latched
        /\ t.firing_open_send_count = s.firing_open_send_count
        /\ t.last_firing_open_send = s.last_firing_open_send
        /\ t.open_latch_release_started = s.open_latch_release_started
        /\ t.last_close_send # None
        /\ ~t.manual_open_command_active
    BY <2>2 DEF ServoCommandStates
  <2> HIDE DEF t
  <2> QED BY <1>1, <2>1, <2>3, <2>4
<1>2. CASE r = MAIN_VALVE_OPEN_ANGLE_X10
  <2> DEFINE t == [s EXCEPT !.last_close_send = None, !.manual_open_command_active = TRUE]
  <2>1. d = [state |-> t, action |-> r,
             signal |-> IF ~s.manual_open_command_active THEN r ELSE None]
    BY <1>2 DEF schedule_manual, command
  <2>2. /\ t \in ServoCommandStates
        /\ t.open_latched = s.open_latched
        /\ t.firing_open_send_count = s.firing_open_send_count
        /\ t.last_firing_open_send = s.last_firing_open_send
        /\ t.open_latch_release_started = s.open_latch_release_started
        /\ t.last_close_send = None
        /\ t.manual_open_command_active
    BY DEF ServoCommandStates, Ages
  <2> HIDE DEF t
  <2> QED BY <1>2, <2>1, <2>2
<1>3. CASE r = None
  <2>1. d = [state |-> without_manual(s), action |-> None, signal |-> None]
    BY <1>3 DEF schedule_manual, hold
  <2>2. s = [s EXCEPT !.open_latched = s.open_latched] /\ s.open_latched \in BOOLEAN
    BY DEF ServoCommandStates
  <2>3. LET t == without_manual(s) IN
        /\ t \in ServoCommandStates
        /\ t.open_latched = s.open_latched
        /\ t.firing_open_send_count = s.firing_open_send_count
        /\ t.last_firing_open_send = s.last_firing_open_send
        /\ t.open_latch_release_started = s.open_latch_release_started
        /\ t.last_close_send = None
        /\ ~t.manual_open_command_active
    BY <2>2, WithoutManual
  <2> QED BY <1>3, <2>1, <2>3
<1> QED BY <1>1, <1>2, <1>3 DEF Angles

\* All of schedule, in the terms of the invariant: when it latches, what a
\* firing may command, that a command in force has been signalled, and that a
\* call without a signal leaves no send looking newer than it is.
LEMMA ScheduleFacts ==
  ASSUME NEW s \in ServoCommandStates, NEW phase \in Phases, NEW fop \in BOOLEAN,
         NEW r \in Angles \cup {None},
         consistent(s)
  PROVE  LET d == schedule(s, phase, fop, r)
             t == d.state
         IN
         /\ t \in ServoCommandStates
         /\ d.action \in Angles \cup {None}
         /\ d.signal \in {d.action, None}
         /\ t.open_latch_release_started = s.open_latch_release_started
         /\ t.open_latched <=> (s.open_latched \/ (phase = "Firing" /\ fop))
         /\ (~t.open_latched => t.firing_open_send_count = 0)
         /\ (t.firing_open_send_count = 0) <=> (t.last_firing_open_send = None)
         /\ d.action # None => d.action = r
         /\ d.action # None /\ phase = "Firing" =>
              d.action = MAIN_VALVE_OPEN_ANGLE_X10 /\ fop
         /\ d.action = MAIN_VALVE_CLOSED_ANGLE_X10 =>
              /\ t.last_close_send # None
              /\ ~t.manual_open_command_active
              /\ t.last_firing_open_send = None
         /\ d.action = MAIN_VALVE_OPEN_ANGLE_X10 =>
              /\ t.last_close_send = None
              /\ t.manual_open_command_active \/ t.last_firing_open_send # None
         /\ d.signal = None =>
              /\ t.manual_open_command_active => s.manual_open_command_active
              /\ t.last_firing_open_send # None => s.last_firing_open_send # None
              /\ t.last_close_send # None => s.last_close_send # None
<1> DEFINE d == schedule(s, phase, fop, r)
           latches == phase = "Firing" /\ fop
           latch == s.open_latched \/ latches
           u == [s EXCEPT !.open_latched = latch]
           w == without_manual(u)
<1>1. latch \in BOOLEAN /\ u \in ServoCommandStates
  BY DEF ServoCommandStates
<1>2. /\ u.open_latched = latch
      /\ u.firing_open_send_count = s.firing_open_send_count
      /\ u.last_firing_open_send = s.last_firing_open_send
      /\ u.open_latch_release_started = s.open_latch_release_started
      /\ u.last_close_send = s.last_close_send
      /\ u.manual_open_command_active = s.manual_open_command_active
  BY DEF ServoCommandStates
<1>3. /\ w \in ServoCommandStates
      /\ w.open_latched = latch
      /\ w.firing_open_send_count = s.firing_open_send_count
      /\ w.last_firing_open_send = s.last_firing_open_send
      /\ w.open_latch_release_started = s.open_latch_release_started
      /\ w.last_close_send = None
      /\ ~w.manual_open_command_active
  BY <1>1, WithoutManual
<1>4. d = IF latch THEN schedule_latched(w, phase, fop, r)
          ELSE IF phase = "Firing" THEN hold(w)
          ELSE schedule_manual(u, r)
  BY <1>2 DEF schedule
<1> HIDE DEF u, w, d
<1>5. CASE latch
  <2>1. consistent(w)
    BY <1>3, <1>5 DEF consistent
  <2>2. d = schedule_latched(w, phase, fop, r) /\ w.open_latched
    BY <1>3, <1>4, <1>5
  <2>3. /\ d.state \in ServoCommandStates
        /\ consistent(d.state)
        /\ d.state.open_latched
        /\ d.state.open_latch_release_started = w.open_latch_release_started
        /\ d.state.last_close_send = w.last_close_send
        /\ d.state.manual_open_command_active = w.manual_open_command_active
        /\ d.action \in {MAIN_VALVE_OPEN_ANGLE_X10, None}
        /\ d.signal \in {d.action, None}
        /\ d.action # None => /\ r = d.action /\ phase = "Firing" /\ fop
                              /\ d.state.last_firing_open_send # None
        /\ d.signal = None => d.state = w
    BY <1>3, <2>1, <2>2, LatchedSchedule
  <2> HIDE DEF latch
  <2> QED BY <1>3, <1>5, <2>3, NoneIsNoNumber DEF latch, d, consistent, Angles
<1>6. CASE ~latch /\ phase = "Firing"
  <2>1. d = [state |-> w, action |-> None, signal |-> None]
    BY <1>4, <1>6 DEF hold
  <2>2. d.state = w /\ d.action = None /\ d.signal = None
    BY <2>1
  <2> QED BY <1>3, <1>6, <2>2, NoneIsNoNumber DEF d, consistent
<1>7. CASE ~latch /\ phase # "Firing"
  <2>1. d = schedule_manual(u, r)
    BY <1>4, <1>7
  <2>2. /\ d.state \in ServoCommandStates
        /\ d.state.open_latched = u.open_latched
        /\ d.state.firing_open_send_count = u.firing_open_send_count
        /\ d.state.last_firing_open_send = u.last_firing_open_send
        /\ d.state.open_latch_release_started = u.open_latch_release_started
        /\ d.action = r
        /\ d.signal \in {r, None}
        /\ r = MAIN_VALVE_CLOSED_ANGLE_X10 =>
             /\ d.state.last_close_send # None
             /\ ~d.state.manual_open_command_active
             /\ d.signal = None => u.last_close_send # None
        /\ r = MAIN_VALVE_OPEN_ANGLE_X10 =>
             /\ d.state.last_close_send = None
             /\ d.state.manual_open_command_active
             /\ d.signal = None => u.manual_open_command_active
        /\ r = None =>
             /\ d.state.last_close_send = None
             /\ ~d.state.manual_open_command_active
    BY <1>1, <2>1, ManualSchedule
  <2>3. s.firing_open_send_count = 0 /\ s.last_firing_open_send = None
    BY <1>7 DEF consistent
  <2> QED BY <1>2, <1>7, <2>2, <2>3, NoneIsNoNumber DEF d, Angles
<1> QED BY <1>5, <1>6, <1>7

\* What a latched valve, or a firing, may be told, and how the code counts it:
\* outside Firing nothing, in Firing an OPEN that is due and not one too many.
LEMMA LatchedDispatch ==
  ASSUME NEW s \in ServoCommandStates, NEW phase \in Phases, NEW fop \in BOOLEAN,
         NEW r \in Angles \cup {None},
         consistent(s), s.open_latched \/ phase = "Firing"
  PROVE  LET d == schedule(s, phase, fop, r)
             t == d.state
         IN
         /\ phase # "Firing" => d.signal = None
         /\ d.signal \in {MAIN_VALVE_OPEN_ANGLE_X10, None}
         /\ d.signal = None =>
              /\ t.firing_open_send_count = s.firing_open_send_count
              /\ t.last_firing_open_send = s.last_firing_open_send
         /\ d.signal # None =>
              /\ due(s.last_firing_open_send, SERVO_POLL_INTERVAL)
              /\ s.firing_open_send_count < FIRING_OPEN_SEND_MAX
              /\ t.firing_open_send_count = s.firing_open_send_count + 1
              /\ t.last_firing_open_send = 0
<1> DEFINE d == schedule(s, phase, fop, r)
           latch == s.open_latched \/ (phase = "Firing" /\ fop)
           u == [s EXCEPT !.open_latched = latch]
           w == without_manual(u)
<1>1. latch \in BOOLEAN /\ u.open_latched = latch
  BY DEF ServoCommandStates
<1>2. /\ w \in ServoCommandStates
      /\ w.open_latched = latch
      /\ w.firing_open_send_count = s.firing_open_send_count
      /\ w.last_firing_open_send = s.last_firing_open_send
      /\ w.open_latch_release_started = s.open_latch_release_started
  BY <1>1, WithoutManual
<1>3. d = IF latch THEN schedule_latched(w, phase, fop, r) ELSE hold(w)
  BY <1>1 DEF schedule
<1> HIDE DEF u, w, d
<1>4. CASE latch
  <2>1. consistent(w) /\ w.open_latched
    BY <1>2, <1>4 DEF consistent
  <2>2. d = schedule_latched(w, phase, fop, r)
    BY <1>3, <1>4
  <2>3. /\ d.action \in {MAIN_VALVE_OPEN_ANGLE_X10, None}
        /\ d.signal \in {d.action, None}
        /\ d.action # None => phase = "Firing"
        /\ d.signal = None => d.state = w
        /\ d.signal # None =>
             /\ due(w.last_firing_open_send, SERVO_POLL_INTERVAL)
             /\ w.firing_open_send_count < FIRING_OPEN_SEND_MAX
             /\ d.state.firing_open_send_count = w.firing_open_send_count + 1
             /\ d.state.last_firing_open_send = 0
    BY <1>2, <2>1, <2>2, LatchedSchedule
  <2> QED BY <1>2, <2>3 DEF d
<1>5. CASE ~latch
  <2>1. d = [state |-> w, action |-> None, signal |-> None]
    BY <1>3, <1>5 DEF hold
  <2>2. d.state = w /\ d.signal = None
    BY <2>1
  <2> QED BY <1>2, <2>2 DEF d
<1> QED BY <1>4, <1>5

-----------------------------------------------------------------------------
(* The supervisor.                                                          *)

\* The sums of the durations are natural and ordered.
LEMMA Times ==
  /\ VALVE_OPEN_AT \in Nat /\ FIRING_TOTAL_TIMEOUT \in Nat
  /\ 0 < IGNITION_WAIT /\ IGNITION_WAIT < VALVE_OPEN_AT
  /\ VALVE_OPEN_AT < FIRING_TOTAL_TIMEOUT
BY Durations DEF VALVE_OPEN_AT, FIRING_TOTAL_TIMEOUT

\* A remainder is below its modulus.
LEMMA ModuloRange ==
  ASSUME NEW n \in Nat, NEW m \in Nat, m > 0
  PROVE  n % m \in 0 .. m - 1
OBVIOUS

\* The initial state satisfies the invariant.
LEMMA InitInv == Init => IInv
<1> SUFFICES ASSUME Init PROVE IInv
  OBVIOUS
<1> USE DEF Init, SharedInit
<1>1. new \in ServoCommandStates /\ consistent(new)
  BY Durations DEF new, ServoCommandStates, Ages, consistent
<1>2. TypeOK
  <2>1. SharedTypeOK
    BY CounterAssumption DEF SharedTypeOK, Phases, Angles
  <2>2. firing_started_at \in Ages(FIRING_TOTAL_TIMEOUT)
    BY DEF Ages
  <2>3. previous_reset_ack_event \in 0 .. RESET_ACK_MODULUS - 1
    BY CounterAssumption
  <2> QED
    BY <1>1, <2>1, <2>2, <2>3 DEF TypeOK, PcLabels
<1>3. FiringTimed /\ LatchReleasable /\ LatchFresh
  BY <1>1 DEF FiringTimed, LatchReleasable, LatchFresh, new
<1>4. IgniterPhase /\ IgniterOnlyInWindow /\ FiringOnlyOpensValve
  BY DEF IgniterPhase, IgniterOnlyInWindow, FiringOnlyOpensValve
<1>5. PendingAngle /\ CommandSent
  BY NoneIsNoNumber DEF PendingAngle, CommandSent
<1>6. AbortOrigin /\ ServoFaultStable /\ ServoAbortPending
  BY DEF AbortOrigin, ServoFaultStable, ServoAbortPending
<1> QED
  BY <1>2, <1>3, <1>4, <1>5, <1>6 DEF IInv

-----------------------------------------------------------------------------
(* One lemma for each step.                                                 *)

\* Line 88: time passes, and a latch whose delay is over is released.
LEMMA WakeInv == ASSUME IInv, NEW d \in Delays, Wake(d) PROVE IInv'
<1> DEFINE s == servo_command_state
           a == aged(s, d)
           t == update_latch_release(a)
<1>1. d \in Nat
  BY DelaysAssumption
<1>2. /\ s \in ServoCommandStates /\ consistent(s)
      /\ firing_started_at \in Ages(FIRING_TOTAL_TIMEOUT)
  BY DEF IInv, TypeOK, LatchFresh
<1>3. /\ a \in ServoCommandStates
      /\ a.open_latched = s.open_latched
      /\ a.firing_open_send_count = s.firing_open_send_count
      /\ a.manual_open_command_active = s.manual_open_command_active
      /\ a.last_firing_open_send = None <=> s.last_firing_open_send = None
      /\ a.open_latch_release_started = None <=> s.open_latch_release_started = None
      /\ a.last_close_send = None <=> s.last_close_send = None
  BY <1>1, <1>2, AgedState
<1> HIDE DEF a
<1>4. /\ t \in ServoCommandStates
      /\ t.last_close_send = a.last_close_send
      /\ t.manual_open_command_active = a.manual_open_command_active
      /\ \/ t = a
         \/ /\ a.open_latched /\ a.open_latch_release_started # None
            /\ ~t.open_latched
            /\ t.open_latch_release_started = None
            /\ t.firing_open_send_count = 0
            /\ t.last_firing_open_send = None
  BY <1>3, ReleaseState
<1>5. /\ firing_started_at' \in Ages(FIRING_TOTAL_TIMEOUT)
      /\ firing_started_at' = None <=> firing_started_at = None
      /\ firing_started_at # None => firing_started_at' >= firing_started_at
  BY <1>1, <1>2, Times, OlderAge DEF Wake
<1>6. /\ servo_command_state' = t
      /\ pc' = "load_faults" /\ inputs' = INPUT_FLAGS
      /\ UNCHANGED <<sharedVars, faults, previous_reset_ack_event,
                     abort_before_firing, servo_abort_latched>>
      /\ pc = "wait"
  BY DEF Wake, a
<1> HIDE DEF t
<1>7. TypeOK'
  BY <1>4, <1>5, <1>6 DEF IInv, TypeOK, SharedTypeOK, PcLabels, sharedVars, inputVars, outputVars
<1> USE DEF sharedVars, inputVars, outputVars
<1>8. FiringTimed'
  BY <1>5, <1>6 DEF IInv, FiringTimed
<1>9. LatchReleasable'
  BY <1>3, <1>4, <1>6 DEF IInv, LatchReleasable
<1>10. LatchFresh'
  <2>1. consistent(t)
    BY <1>2, <1>3, <1>4 DEF consistent
  <2>2. SEQUENCE_PHASE = "Firing" /\ t.open_latched => firing_started_at' >= VALVE_OPEN_AT
    BY <1>2, <1>3, <1>4, <1>5, Times, NoneIsNoNumber
       DEF IInv, LatchFresh, FiringTimed, Ages
  <2> QED BY <1>6, <2>1, <2>2 DEF LatchFresh
<1>11. IgniterPhase' /\ AbortOrigin' /\ ServoAbortPending'
  BY <1>6 DEF IInv, IgniterPhase, AbortOrigin, ServoAbortPending
<1>12. IgniterOnlyInWindow' /\ FiringOnlyOpensValve' /\ CommandSent'
  BY <1>6 DEF IgniterOnlyInWindow, FiringOnlyOpensValve, CommandSent, awaiting
<1>13. PendingAngle'
  BY <1>3, <1>4, <1>6 DEF IInv, PendingAngle
<1>14. ServoFaultStable'
  BY <1>6 DEF IInv, ServoFaultStable, awaiting
<1> QED
  BY <1>7, <1>8, <1>9, <1>10, <1>11, <1>12, <1>13, <1>14 DEF IInv

\* Line 93.
LEMMA LoadFaultsInv == ASSUME IInv, LoadFaults PROVE IInv'
<1> USE DEF LoadFaults, sharedVars, inputVars, outputVars
<1>1. TypeOK'
  BY DEF IInv, TypeOK, SharedTypeOK, PcLabels
<1>2. FiringTimed' /\ LatchReleasable' /\ LatchFresh' /\ IgniterPhase'
  BY DEF IInv, FiringTimed, LatchReleasable, LatchFresh, IgniterPhase
<1>3. IgniterOnlyInWindow' /\ FiringOnlyOpensValve' /\ CommandSent'
  BY DEF IgniterOnlyInWindow, FiringOnlyOpensValve, CommandSent, awaiting
<1>4. PendingAngle' /\ AbortOrigin' /\ ServoFaultStable' /\ ServoAbortPending'
  BY DEF IInv, PendingAngle, AbortOrigin, ServoFaultStable, ServoAbortPending, awaiting
<1> QED
  BY <1>1, <1>2, <1>3, <1>4 DEF IInv

\* Lines 94-102: a servo fault seen in a firing is latched; it is still raised,
\* for only servo_task clears it and the supervisor has not awaited since.
LEMMA LoadResetAckInv == ASSUME IInv, LoadResetAck PROVE IInv'
<1> USE DEF LoadResetAck, sharedVars, inputVars, outputVars
<1>1. TypeOK'
  BY DEF IInv, TypeOK, SharedTypeOK, PcLabels
<1>2. FiringTimed' /\ LatchReleasable' /\ LatchFresh' /\ IgniterPhase'
  BY DEF IInv, FiringTimed, LatchReleasable, LatchFresh, IgniterPhase
<1>3. IgniterOnlyInWindow' /\ FiringOnlyOpensValve' /\ CommandSent'
  BY DEF IgniterOnlyInWindow, FiringOnlyOpensValve, CommandSent, awaiting
<1>4. PendingAngle' /\ AbortOrigin' /\ ServoFaultStable'
  BY DEF IInv, PendingAngle, AbortOrigin, ServoFaultStable, awaiting
<1>5. ServoAbortPending'
  <2>1. CASE servo_abort_latched
    BY <2>1 DEF IInv, ServoAbortPending
  <2>2. CASE ~servo_abort_latched
    BY <2>2 DEF IInv, ServoAbortPending, has_firing_fault, ServoFaultStable, AbortOrigin
  <2> QED BY <2>1, <2>2
<1> QED
  BY <1>1, <1>2, <1>3, <1>4, <1>5 DEF IInv

\* The transition to Abort, whichever branch makes it.
LEMMA EnterAbortInv ==
  ASSUME IInv, enter_abort, force_safe_outputs, await_next, firing_started_at' = None,
         pc \in {"inhibit", "handle"},
         FAULT_FLAGS' = FAULT_FLAGS, INPUT_FLAGS' \subseteq INPUT_FLAGS,
         UNCHANGED <<RESET_ACK_EVENT_COUNTER, previous_reset_ack_event, servo_abort_latched>>
  PROVE  IInv'
<1> DEFINE s == servo_command_state
           t == on_phase_transition(s, "Abort")
<1>1. s \in ServoCommandStates /\ consistent(s)
  BY DEF IInv, TypeOK, LatchFresh
<1>2. /\ t \in ServoCommandStates
      /\ t.open_latched = s.open_latched
      /\ t.firing_open_send_count = s.firing_open_send_count
      /\ t.last_firing_open_send = s.last_firing_open_send
      /\ t.last_close_send = s.last_close_send
      /\ t.manual_open_command_active = s.manual_open_command_active
      /\ (t.open_latch_release_started = None) <=> ~s.open_latched
  BY <1>1, TransitionState DEF Phases
<1>3. /\ SEQUENCE_PHASE' = "Abort"
      /\ servo_command_state' = IF SEQUENCE_PHASE # "Abort" THEN t ELSE s
      /\ abort_before_firing' = IF SEQUENCE_PHASE = "Abort" THEN abort_before_firing
                                                            ELSE SEQUENCE_PHASE = "Idle"
  BY DEF enter_abort, set_sequence_phase
<1>4. /\ OUTPUT_STATUS' = {} /\ SERVO_CONTROL_MODE' = "HOLD"
      /\ UNCHANGED <<SERVO_TARGET_ANGLE_X10, ANGLE_COMMAND_SIGNAL>>
  BY DEF force_safe_outputs, apply_decision
<1>5. pc' = "wait" /\ inputs' = {} /\ faults' = {}
  BY DEF await_next
<1> HIDE DEF t
<1>6. TypeOK'
  BY <1>1, <1>2, <1>3, <1>4, <1>5 DEF IInv, TypeOK, SharedTypeOK, PcLabels, Phases, Ages
<1>7. FiringTimed' /\ IgniterPhase' /\ IgniterOnlyInWindow'
  BY <1>3, <1>4 DEF FiringTimed, IgniterPhase, IgniterOnlyInWindow
<1>8. FiringOnlyOpensValve' /\ CommandSent'
  BY <1>4 DEF FiringOnlyOpensValve, CommandSent
<1>9. LatchReleasable'
  BY <1>2, <1>3 DEF IInv, LatchReleasable
<1>10. LatchFresh'
  <2>1. consistent(t)
    BY <1>1, <1>2 DEF consistent
  <2> QED BY <1>1, <1>3, <2>1 DEF LatchFresh
<1>11. PendingAngle'
  BY <1>2, <1>3, <1>4 DEF IInv, PendingAngle
<1>12. AbortOrigin' /\ ServoFaultStable'
  BY <1>3, <1>5 DEF AbortOrigin, ServoFaultStable
<1>13. ServoAbortPending'
  BY <1>3 DEF IInv, ServoAbortPending
<1> QED
  BY <1>6, <1>7, <1>8, <1>9, <1>10, <1>11, <1>12, <1>13 DEF IInv

\* Lines 102-118.
LEMMA InhibitInputsInv == ASSUME IInv, InhibitInputs PROVE IInv'
<1>1. INPUT_FLAGS' \subseteq INPUT_FLAGS
  BY DEF InhibitInputs, replace_operator_input_flags
<1> QED
  BY <1>1, EnterAbortInv DEF InhibitInputs

\* Lines 142-157.
LEMMA AbortFiringInv == ASSUME IInv, AbortFiring PROVE IInv'
BY EnterAbortInv DEF AbortFiring, inputVars

\* Lines 120-140: either way back to Idle, or a load that changes no phase.
LEMMA ReturnInv ==
  ASSUME IInv, ReturnToIdleAfterResetAck \/ ReturnToIdleAfterPreFiringRecovery
  PROVE  IInv'
<1> DEFINE s == servo_command_state
           t == on_phase_transition(s, "Idle")
<1>1. s \in ServoCommandStates /\ consistent(s)
  BY DEF IInv, TypeOK, LatchFresh
<1>2. /\ pc \in {"reset_ack", "recover"} /\ pc' \in {"recover", "handle"}
      /\ pc = "reset_ack" => pc' = "recover"
      /\ pc = "recover" => pc' = "handle"
      /\ faults' = FAULT_FLAGS
      /\ UNCHANGED <<inputVars, OUTPUT_STATUS, SERVO_CONTROL_MODE, SERVO_TARGET_ANGLE_X10,
                     ANGLE_COMMAND_SIGNAL, inputs, previous_reset_ack_event,
                     servo_abort_latched>>
  BY DEF ReturnToIdleAfterResetAck, ReturnToIdleAfterPreFiringRecovery
<1>3. \/ UNCHANGED <<SEQUENCE_PHASE, servo_command_state, abort_before_firing,
                     firing_started_at>>
      \/ return_to_idle /\ SEQUENCE_PHASE = "Abort" /\ ~servo_abort_latched
  BY DEF ReturnToIdleAfterResetAck, ReturnToIdleAfterPreFiringRecovery,
         reset_ack_allows_idle, pre_firing_recovery_allows_idle, neutral_and_healthy,
         IInv, ServoAbortPending
<1> USE DEF inputVars
<1>4. CASE UNCHANGED <<SEQUENCE_PHASE, servo_command_state, abort_before_firing,
                       firing_started_at>>
  <2>1. TypeOK'
    BY <1>2, <1>4 DEF IInv, TypeOK, SharedTypeOK, PcLabels
  <2>2. FiringTimed' /\ LatchReleasable' /\ LatchFresh' /\ IgniterPhase'
    BY <1>2, <1>4 DEF IInv, FiringTimed, LatchReleasable, LatchFresh, IgniterPhase
  <2>3. IgniterOnlyInWindow' /\ FiringOnlyOpensValve' /\ CommandSent'
    BY <1>2 DEF IgniterOnlyInWindow, FiringOnlyOpensValve, CommandSent, awaiting
  <2>4. PendingAngle' /\ AbortOrigin' /\ ServoFaultStable'
    BY <1>2, <1>4 DEF IInv, PendingAngle, AbortOrigin, ServoFaultStable, awaiting
  <2>5. ServoAbortPending'
    BY <1>2, <1>4 DEF IInv, ServoAbortPending
  <2> QED BY <2>1, <2>2, <2>3, <2>4, <2>5 DEF IInv
<1>5. CASE return_to_idle /\ SEQUENCE_PHASE = "Abort" /\ ~servo_abort_latched
  <2>1. /\ SEQUENCE_PHASE' = "Idle" /\ servo_command_state' = t
        /\ abort_before_firing' = FALSE /\ firing_started_at' = None
    BY <1>5 DEF return_to_idle, set_sequence_phase
  <2>2. t = s
    BY DEF on_phase_transition
  <2> HIDE DEF t
  <2>3. TypeOK'
    BY <1>1, <1>2, <2>1, <2>2 DEF IInv, TypeOK, SharedTypeOK, PcLabels, Phases, Ages
  <2>4. FiringTimed' /\ LatchReleasable' /\ LatchFresh'
    BY <1>1, <1>5, <2>1, <2>2 DEF IInv, FiringTimed, LatchReleasable, LatchFresh
  <2>5. IgniterPhase'
    BY <1>2, <1>5 DEF IInv, IgniterPhase
  <2>6. IgniterOnlyInWindow' /\ FiringOnlyOpensValve' /\ CommandSent'
    BY <1>2 DEF IgniterOnlyInWindow, FiringOnlyOpensValve, CommandSent, awaiting
  <2>7. PendingAngle' /\ AbortOrigin' /\ ServoFaultStable' /\ ServoAbortPending'
    BY <1>2, <1>5, <2>1, <2>2
       DEF IInv, PendingAngle, AbortOrigin, ServoFaultStable, ServoAbortPending, awaiting
  <2> QED BY <2>3, <2>4, <2>5, <2>6, <2>7 DEF IInv
<1> QED BY <1>3, <1>4, <1>5

\* What all phase handlers share: they leave outputs and inputs alone.
LEMMA HandledFacts ==
  ASSUME IInv, handled
  PROVE  /\ pc = "handle" /\ pc' = "apply" /\ faults' = FAULT_FLAGS
         /\ ~(faults # {} /\ SEQUENCE_PHASE = "Firing")
         /\ UNCHANGED <<FAULT_FLAGS, INPUT_FLAGS, RESET_ACK_EVENT_COUNTER, OUTPUT_STATUS,
                        SERVO_CONTROL_MODE, SERVO_TARGET_ANGLE_X10, ANGLE_COMMAND_SIGNAL,
                        inputs, previous_reset_ack_event, servo_abort_latched>>
         /\ IgniterOnlyInWindow' /\ FiringOnlyOpensValve' /\ CommandSent' /\ ServoFaultStable'
         \* a servo abort that was pending has been carried out
         /\ servo_abort_latched => SEQUENCE_PHASE = "Abort"
<1>1. pc = "handle" /\ pc' = "apply" /\ faults' = FAULT_FLAGS
  BY DEF handled
<1>2. ~(faults # {} /\ SEQUENCE_PHASE = "Firing")
  BY DEF handled, has_firing_fault
<1>3. UNCHANGED <<FAULT_FLAGS, INPUT_FLAGS, RESET_ACK_EVENT_COUNTER, OUTPUT_STATUS,
                  SERVO_CONTROL_MODE, SERVO_TARGET_ANGLE_X10, ANGLE_COMMAND_SIGNAL,
                  inputs, previous_reset_ack_event, servo_abort_latched>>
  BY DEF handled, inputVars
<1>4. IgniterOnlyInWindow' /\ FiringOnlyOpensValve' /\ CommandSent' /\ ServoFaultStable'
  BY <1>1, <1>3 DEF IgniterOnlyInWindow, FiringOnlyOpensValve, CommandSent, ServoFaultStable,
     awaiting
<1>5. servo_abort_latched => SEQUENCE_PHASE = "Abort"
  BY <1>1, <1>2 DEF IInv, ServoAbortPending
<1> QED
  BY <1>1, <1>2, <1>3, <1>4, <1>5

\* Line 231: a firing starts unlatched, with the igniter off.
LEMMA StartFiringInv == ASSUME IInv, StartFiring PROVE IInv'
<1> DEFINE s == servo_command_state
           t == on_phase_transition(s, "Firing")
<1>1. s \in ServoCommandStates /\ consistent(s)
  BY DEF IInv, TypeOK, LatchFresh
<1>2. handled /\ SEQUENCE_PHASE = "Idle" /\ ~s.open_latched
  BY DEF StartFiring, start_permission, allow_new_ignition, can_start_firing
<1>3. /\ t \in ServoCommandStates
      /\ t.open_latched = s.open_latched
      /\ t.firing_open_send_count = s.firing_open_send_count
      /\ t.last_firing_open_send = s.last_firing_open_send
      /\ t.last_close_send = s.last_close_send
      /\ t.manual_open_command_active = s.manual_open_command_active
      /\ (t.open_latch_release_started = None) <=> s.open_latch_release_started = None
  BY <1>1, TransitionState DEF Phases
<1>4. /\ SEQUENCE_PHASE' = "Firing" /\ servo_command_state' = t
      /\ abort_before_firing' = FALSE /\ firing_started_at' = 0
  BY <1>2 DEF StartFiring, set_sequence_phase
<1> HIDE DEF t
<1>5. TypeOK'
  <2>1. 0 \in Ages(FIRING_TOTAL_TIMEOUT)
    BY Times DEF Ages
  <2> QED
    BY <1>2, <1>3, <1>4, <2>1, HandledFacts DEF IInv, TypeOK, SharedTypeOK, PcLabels, Phases
<1>6. FiringTimed' /\ LatchReleasable'
  BY <1>1, <1>2, <1>3, <1>4, NoneIsNoNumber DEF FiringTimed, LatchReleasable, consistent
<1>7. LatchFresh'
  <2>1. consistent(t) /\ ~t.open_latched
    BY <1>1, <1>2, <1>3 DEF consistent
  <2> QED BY <1>4, <2>1 DEF LatchFresh
<1>8. IgniterPhase' /\ PendingAngle'
  BY <1>2, <1>3, <1>4, HandledFacts DEF IInv, IgniterPhase, PendingAngle
<1>9. AbortOrigin' /\ ServoAbortPending'
  BY <1>2, <1>4, HandledFacts DEF AbortOrigin, ServoAbortPending
<1> QED
  BY <1>2, <1>5, <1>6, <1>7, <1>8, <1>9, HandledFacts DEF IInv

\* Line 249: a firing whose time is over becomes a Timeout; the latch, if any,
\* gets its release timer.
LEMMA FinishFiringInv == ASSUME IInv, FinishFiring PROVE IInv'
<1> DEFINE s == servo_command_state
           t == on_phase_transition(s, "Timeout")
<1>1. s \in ServoCommandStates /\ consistent(s)
  BY DEF IInv, TypeOK, LatchFresh
<1>2. handled /\ SEQUENCE_PHASE = "Firing"
  BY DEF FinishFiring
<1>3. /\ t \in ServoCommandStates
      /\ t.open_latched = s.open_latched
      /\ t.firing_open_send_count = s.firing_open_send_count
      /\ t.last_firing_open_send = s.last_firing_open_send
      /\ t.last_close_send = s.last_close_send
      /\ t.manual_open_command_active = s.manual_open_command_active
      /\ (t.open_latch_release_started = None) <=> ~s.open_latched
  BY <1>1, TransitionState DEF Phases
<1>4. /\ SEQUENCE_PHASE' = "Timeout" /\ servo_command_state' = t
      /\ abort_before_firing' = abort_before_firing /\ firing_started_at' = None
  BY <1>2 DEF FinishFiring, set_sequence_phase
<1> HIDE DEF t
<1>5. TypeOK'
  BY <1>2, <1>3, <1>4, HandledFacts
     DEF IInv, TypeOK, SharedTypeOK, PcLabels, Phases, Ages
<1>6. FiringTimed' /\ LatchReleasable'
  BY <1>3, <1>4 DEF FiringTimed, LatchReleasable
<1>7. LatchFresh'
  <2>1. consistent(t)
    BY <1>1, <1>3 DEF consistent
  <2> QED BY <1>4, <2>1 DEF LatchFresh
<1>8. IgniterPhase' /\ PendingAngle'
  BY <1>2, <1>3, <1>4, HandledFacts DEF IInv, IgniterPhase, PendingAngle
<1>9. AbortOrigin' /\ ServoAbortPending'
  BY <1>2, <1>4, HandledFacts DEF IInv, AbortOrigin, ServoAbortPending
<1> QED
  BY <1>2, <1>5, <1>6, <1>7, <1>8, <1>9, HandledFacts DEF IInv

\* The handlers that keep the phase.
LEMMA KeepPhaseInv ==
  ASSUME IInv, StayIdle \/ ContinueFiring \/ HoldTimeout \/ HoldAbort
  PROVE  IInv'
<1>1. handled /\ UNCHANGED <<SEQUENCE_PHASE, servo_command_state>>
  BY DEF StayIdle, ContinueFiring, HoldTimeout, HoldAbort
<1>2. firing_started_at' = firing_started_at
  BY DEF IInv, FiringTimed, StayIdle, ContinueFiring, HoldTimeout, HoldAbort
<1>3. abort_before_firing' = abort_before_firing
  BY DEF IInv, AbortOrigin, TypeOK, StayIdle, ContinueFiring, HoldTimeout, HoldAbort
<1>4. TypeOK'
  BY <1>1, <1>2, <1>3, HandledFacts DEF IInv, TypeOK, SharedTypeOK, PcLabels
<1>5. FiringTimed' /\ LatchReleasable' /\ LatchFresh' /\ IgniterPhase'
  BY <1>1, <1>2, HandledFacts DEF IInv, FiringTimed, LatchReleasable, LatchFresh, IgniterPhase
<1>6. PendingAngle' /\ AbortOrigin' /\ ServoAbortPending'
  BY <1>1, <1>3, HandledFacts DEF IInv, PendingAngle, AbortOrigin, ServoAbortPending
<1> QED
  BY <1>1, <1>4, <1>5, <1>6, HandledFacts DEF IInv

\* What line 181-203 decide, in any state with a timed firing: the igniter only
\* in its window, and then nothing for the servo.
LEMMA DecisionFacts ==
  ASSUME IInv, pc = "apply"
  PROVE  /\ decision.on \subseteq Outputs
         /\ decision.servo \in Angles \cup {None}
         /\ firing_open_phase \in BOOLEAN
         /\ "IGNITER" \in decision.on =>
              /\ SEQUENCE_PHASE = "Firing"
              /\ elapsed(firing_started_at, IGNITION_WAIT)
              /\ ~elapsed(firing_started_at, VALVE_OPEN_AT)
              /\ decision.servo = None /\ ~firing_open_phase
              /\ decision.on \cap {"FILL", "SEPARATE"} = {}
<1>1. /\ intent.on \subseteq Outputs /\ intent.servo \in Angles \cup {None}
      /\ "IGNITER" \in intent.on =>
           /\ SEQUENCE_PHASE = "Firing"
           /\ IGNITION_WAIT <= firing_started_at
           /\ firing_started_at < VALVE_OPEN_AT
           /\ intent.servo = None
           /\ intent.on \cap {"FILL", "SEPARATE"} = {}
  <2>1. CASE SEQUENCE_PHASE = "Firing"
    <3>1. firing_started_at \in Nat
      BY <2>1 DEF IInv, TypeOK, FiringTimed, Ages
    <3>2. intent = apply_firing_sequence_outputs(firing_started_at)
      BY <2>1 DEF intent
    <3> QED
      BY <2>1, <3>1, <3>2, Times DEF apply_firing_sequence_outputs, Outputs, Angles
  <2>2. CASE SEQUENCE_PHASE # "Firing"
    <3>1. /\ intent.on = requested_outputs
          /\ intent.servo \in Angles \cup {None}
      BY <2>2 DEF intent, apply_manual_outputs, Angles
    <3> QED
      BY <3>1 DEF requested_outputs, Outputs
  <2> QED BY <2>1, <2>2
<1>2. /\ decision.on \subseteq intent.on
      /\ decision.servo \in {intent.servo, None}
  BY DEF decision, resolve_control
<1>3. firing_open_phase \in BOOLEAN
  BY DEF firing_open_phase
<1>4. ASSUME "IGNITER" \in decision.on
      PROVE  /\ SEQUENCE_PHASE = "Firing"
             /\ elapsed(firing_started_at, IGNITION_WAIT)
             /\ ~elapsed(firing_started_at, VALVE_OPEN_AT)
             /\ decision.servo = None /\ ~firing_open_phase
             /\ decision.on \cap {"FILL", "SEPARATE"} = {}
  <2>1. SEQUENCE_PHASE = "Firing" /\ firing_started_at \in Nat /\ firing_started_at # None
    BY <1>1, <1>2, <1>4 DEF IInv, TypeOK, FiringTimed, Ages
  <2> QED
    BY <1>1, <1>2, <1>4, <2>1, Times DEF elapsed, firing_open_phase
<1> QED
  BY <1>1, <1>2, <1>3, <1>4

\* Lines 181-213: the decision is applied and the iteration ends.
LEMMA ApplyDecisionInv == ASSUME IInv, ApplyDecision PROVE IInv'
<1> DEFINE s == servo_command_state
           d == dispatch
           t == d.state
<1>1. /\ pc = "apply" /\ s \in ServoCommandStates /\ consistent(s)
      /\ SEQUENCE_PHASE \in Phases
  BY DEF IInv, TypeOK, SharedTypeOK, LatchFresh, ApplyDecision
<1>2. /\ decision.on \subseteq Outputs
      /\ decision.servo \in Angles \cup {None}
      /\ firing_open_phase \in BOOLEAN
      /\ "IGNITER" \in decision.on =>
           /\ SEQUENCE_PHASE = "Firing"
           /\ elapsed(firing_started_at, IGNITION_WAIT)
           /\ ~elapsed(firing_started_at, VALVE_OPEN_AT)
           /\ decision.servo = None /\ ~firing_open_phase
           /\ decision.on \cap {"FILL", "SEPARATE"} = {}
  BY <1>1, DecisionFacts
<1>3. /\ t \in ServoCommandStates
      /\ d.action \in Angles \cup {None}
      /\ d.signal \in {d.action, None}
      /\ t.open_latch_release_started = s.open_latch_release_started
      /\ t.open_latched <=> (s.open_latched \/ (SEQUENCE_PHASE = "Firing" /\ firing_open_phase))
      /\ (~t.open_latched => t.firing_open_send_count = 0)
      /\ (t.firing_open_send_count = 0) <=> (t.last_firing_open_send = None)
      /\ d.action # None => d.action = decision.servo
      /\ d.action # None /\ SEQUENCE_PHASE = "Firing" =>
           d.action = MAIN_VALVE_OPEN_ANGLE_X10 /\ firing_open_phase
      /\ d.action = MAIN_VALVE_CLOSED_ANGLE_X10 =>
           /\ t.last_close_send # None
           /\ ~t.manual_open_command_active
           /\ t.last_firing_open_send = None
      /\ d.action = MAIN_VALVE_OPEN_ANGLE_X10 =>
           /\ t.last_close_send = None
           /\ t.manual_open_command_active \/ t.last_firing_open_send # None
      /\ d.signal = None =>
           /\ t.manual_open_command_active => s.manual_open_command_active
           /\ t.last_firing_open_send # None => s.last_firing_open_send # None
           /\ t.last_close_send # None => s.last_close_send # None
  BY <1>1, <1>2, ScheduleFacts DEF dispatch
<1>4. /\ servo_command_state' = t
      /\ OUTPUT_STATUS' = decision.on
      /\ SERVO_CONTROL_MODE' = IF d.action = None THEN "HOLD" ELSE "COMMAND"
      /\ SERVO_TARGET_ANGLE_X10' = IF d.action = None THEN SERVO_TARGET_ANGLE_X10 ELSE d.action
      /\ ANGLE_COMMAND_SIGNAL' = IF d.signal = None THEN ANGLE_COMMAND_SIGNAL ELSE d.signal
      /\ pc' = "wait" /\ inputs' = {} /\ faults' = {}
      /\ UNCHANGED <<FAULT_FLAGS, INPUT_FLAGS, RESET_ACK_EVENT_COUNTER, SEQUENCE_PHASE,
                     previous_reset_ack_event, firing_started_at, abort_before_firing,
                     servo_abort_latched>>
  BY DEF ApplyDecision, apply_decision, await_next, inputVars
<1> HIDE DEF d
<1>5. firing_open_phase => firing_started_at >= VALVE_OPEN_AT /\ SEQUENCE_PHASE = "Firing"
  BY DEF firing_open_phase
<1>6. TypeOK'
  BY <1>2, <1>3, <1>4, NoneIsNoNumber DEF IInv, TypeOK, SharedTypeOK, PcLabels
<1>7. FiringTimed' /\ AbortOrigin' /\ ServoFaultStable'
  BY <1>4 DEF IInv, FiringTimed, AbortOrigin, ServoFaultStable
<1>8. LatchReleasable'
  BY <1>3, <1>4, <1>5 DEF IInv, LatchReleasable
<1>9. LatchFresh'
  <2>1. consistent(t)
    BY <1>1, <1>3, <1>5 DEF consistent, IInv, LatchReleasable
  <2>2. SEQUENCE_PHASE = "Firing" /\ t.open_latched => firing_started_at >= VALVE_OPEN_AT
    BY <1>3, <1>5 DEF IInv, LatchFresh
  <2> QED BY <1>4, <2>1, <2>2 DEF LatchFresh
<1>10. IgniterPhase'
  BY <1>2, <1>4 DEF IgniterPhase
<1>11. IgniterOnlyInWindow'
  <2>1. ASSUME "IGNITER" \in decision.on
        PROVE  d.action = None /\ ~t.open_latched
    <3>1. d.action = None
      BY <1>2, <1>3, <2>1
    <3>2. ~s.open_latched
      BY <1>2, <2>1 DEF IInv, LatchFresh, FiringTimed, elapsed
    <3> QED BY <1>2, <1>3, <2>1, <3>1, <3>2
  <2> QED
    BY <1>2, <1>4, <2>1 DEF IgniterOnlyInWindow, elapsed
<1>12. FiringOnlyOpensValve'
  <2>1. firing_open_phase => elapsed(firing_started_at, VALVE_OPEN_AT)
    BY <1>5 DEF IInv, FiringTimed, elapsed
  <2> QED
    BY <1>3, <1>4, <2>1 DEF FiringOnlyOpensValve, elapsed
<1>13. PendingAngle'
  <2>1. CASE d.signal = None
    BY <1>3, <1>4, <2>1 DEF IInv, PendingAngle
  <2>2. CASE d.signal # None
    BY <1>3, <1>4, <2>2, NoneIsNoNumber DEF PendingAngle
  <2> QED BY <2>1, <2>2
<1>14. CommandSent'
  BY <1>3, <1>4, NoneIsNoNumber DEF CommandSent, Angles
<1>15. ServoAbortPending'
  BY <1>1, <1>4 DEF IInv, ServoAbortPending
<1> QED
  BY <1>6, <1>7, <1>8, <1>9, <1>10, <1>11, <1>12, <1>13, <1>14, <1>15 DEF IInv

\* The other core, at any moment, and servo_task while the supervisor awaits.
LEMMA EnvironmentInv == ASSUME IInv, Environment PROVE IInv'
<1> USE DEF localVars, outputVars, inputVars
<1>1. /\ UNCHANGED <<pc, inputs, faults, previous_reset_ack_event, firing_started_at,
                     abort_before_firing, servo_abort_latched, servo_command_state>>
      /\ UNCHANGED <<SEQUENCE_PHASE, OUTPUT_STATUS, SERVO_CONTROL_MODE, SERVO_TARGET_ANGLE_X10>>
  BY DEF Environment, CanStep, ServoStep, ButtonFrame, DropLink, DropCommands,
     RaiseCanFault, ClearCanFaults, SignalResetAck, TakeAngleCommand, RaiseServoFault,
     ClearServoFault
<1>2. /\ ANGLE_COMMAND_SIGNAL' \in {ANGLE_COMMAND_SIGNAL, None}
      /\ "SERVO_COMM_ERROR" \in FAULT_FLAGS /\ pc # "wait" =>
           "SERVO_COMM_ERROR" \in FAULT_FLAGS'
  BY DEF Environment, CanStep, ServoStep, ButtonFrame, DropLink, DropCommands,
     RaiseCanFault, ClearCanFaults, SignalResetAck, TakeAngleCommand, RaiseServoFault,
     ClearServoFault, set_fault_flags, clear_fault_flags, ClearableCanFaults
<1>3. TypeOK'
  <2>1. FAULT_FLAGS' \subseteq AllFaults
    BY RaisedAssumption DEF IInv, TypeOK, SharedTypeOK, Environment, CanStep, ServoStep,
       ButtonFrame, DropLink, DropCommands, RaiseCanFault, ClearCanFaults, SignalResetAck,
       TakeAngleCommand, RaiseServoFault, ClearServoFault, set_fault_flags,
       clear_fault_flags, AllFaults
  <2>2. INPUT_FLAGS' \subseteq InputBits
    BY FramesAssumption DEF IInv, TypeOK, SharedTypeOK, Environment, CanStep, ServoStep,
       ButtonFrame, DropLink, DropCommands, RaiseCanFault, ClearCanFaults, SignalResetAck,
       TakeAngleCommand, RaiseServoFault, ClearServoFault, replace_operator_input_flags,
       replace_operator_input_flags_and_set_can_link_active, InputBits, Link
  <2>3. RESET_ACK_EVENT_COUNTER' \in 0 .. RESET_ACK_MODULUS - 1
    <3>1. RESET_ACK_EVENT_COUNTER \in 0 .. RESET_ACK_MODULUS - 1
      BY DEF IInv, TypeOK, SharedTypeOK
    <3>2. RESET_ACK_EVENT_COUNTER' \in
            {RESET_ACK_EVENT_COUNTER, (RESET_ACK_EVENT_COUNTER + 1) % RESET_ACK_MODULUS}
      BY DEF Environment, CanStep, ServoStep, ButtonFrame, DropLink, DropCommands,
         RaiseCanFault, ClearCanFaults, SignalResetAck, TakeAngleCommand, RaiseServoFault,
         ClearServoFault, signal_reset_ack_event
    <3>3. (RESET_ACK_EVENT_COUNTER + 1) % RESET_ACK_MODULUS \in 0 .. RESET_ACK_MODULUS - 1
      BY <3>1, CounterAssumption, ModuloRange
    <3> QED BY <3>1, <3>2, <3>3
  <2> QED
    BY <1>1, <1>2, <2>1, <2>2, <2>3 DEF IInv, TypeOK, SharedTypeOK
<1>4. FiringTimed' /\ LatchReleasable' /\ LatchFresh' /\ IgniterPhase' /\ AbortOrigin'
  BY <1>1 DEF IInv, FiringTimed, LatchReleasable, LatchFresh, IgniterPhase, AbortOrigin
<1>5. IgniterOnlyInWindow' /\ FiringOnlyOpensValve' /\ CommandSent'
  BY <1>1 DEF IInv, IgniterOnlyInWindow, FiringOnlyOpensValve, CommandSent, awaiting
<1>6. PendingAngle'
  BY <1>1, <1>2, NoneIsNoNumber DEF IInv, PendingAngle
<1>7. ServoFaultStable' /\ ServoAbortPending'
  BY <1>1, <1>2 DEF IInv, ServoFaultStable, ServoAbortPending, awaiting
<1> QED
  BY <1>3, <1>4, <1>5, <1>6, <1>7 DEF IInv

\* Nothing at all.
LEMMA StutterInv == ASSUME IInv, UNCHANGED vars PROVE IInv'
BY DEF IInv, TypeOK, SharedTypeOK, FiringTimed, LatchFresh, LatchReleasable, IgniterPhase,
   IgniterOnlyInWindow, FiringOnlyOpensValve, PendingAngle, CommandSent, AbortOrigin,
   ServoFaultStable, ServoAbortPending, awaiting, vars, sharedVars, inputVars, outputVars,
   localVars

-----------------------------------------------------------------------------
(* The theorems.                                                            *)

\* Every step, of the task or of its environment, preserves the invariant.
LEMMA StepInv == IInv /\ [Next]_vars => IInv'
<1> SUFFICES ASSUME IInv, [Next]_vars PROVE IInv'
  OBVIOUS
<1>1. CASE UNCHANGED vars
  BY <1>1, StutterInv
<1>2. CASE \E d \in Delays : Wake(d)
  BY <1>2, WakeInv
<1>3. CASE LoadFaults
  BY <1>3, LoadFaultsInv
<1>4. CASE LoadResetAck
  BY <1>4, LoadResetAckInv
<1>5. CASE InhibitInputs
  BY <1>5, InhibitInputsInv
<1>6. CASE ReturnToIdleAfterResetAck \/ ReturnToIdleAfterPreFiringRecovery
  BY <1>6, ReturnInv
<1>7. CASE AbortFiring
  BY <1>7, AbortFiringInv
<1>8. CASE StartFiring
  BY <1>8, StartFiringInv
<1>9. CASE FinishFiring
  BY <1>9, FinishFiringInv
<1>10. CASE StayIdle \/ ContinueFiring \/ HoldTimeout \/ HoldAbort
  BY <1>10, KeepPhaseInv
<1>11. CASE ApplyDecision
  BY <1>11, ApplyDecisionInv
<1>12. CASE Environment
  BY <1>12, EnvironmentInv
<1> QED
  BY <1>1, <1>2, <1>3, <1>4, <1>5, <1>6, <1>7, <1>8, <1>9, <1>10, <1>11, <1>12
     DEF Next, Iteration, Work, HandlePhase

\* The invariant of supervisor_task: every reachable state satisfies IInv.
THEOREM Invariance == Spec => []IInv
<1> QED
  BY InitInv, StepInv, PTL DEF Spec

\* Every variable of the supervisor and of the statics keeps its type.
THEOREM TypeCorrect == Spec => []TypeOK
<1>1. IInv => TypeOK
  BY DEF IInv
<1> QED
  BY Invariance, <1>1, PTL

\* Between iterations the igniter is on only in its window of a running firing,
\* with the valve unlatched and held.
THEOREM IgniterSafe == Spec => []IgniterOnlyInWindow
<1>1. IInv => IgniterOnlyInWindow
  BY DEF IInv
<1> QED
  BY Invariance, <1>1, PTL

\* An open latch outside a firing always has its release timer running.
THEOREM LatchAlwaysReleasable == Spec => []LatchReleasable
<1>1. IInv => LatchReleasable
  BY DEF IInv
<1> QED
  BY Invariance, <1>1, PTL

\* During a firing the only servo command is OPEN, once its time has come.
THEOREM FiringOpensOnly == Spec => []FiringOnlyOpensValve
<1>1. IInv => FiringOnlyOpensValve
  BY DEF IInv
<1> QED
  BY Invariance, <1>1, PTL

\* A signalled angle is the target, whatever the phase.
LEMMA CurrentAngle == IInv => NoStaleAngle
BY NoneIsNoNumber DEF IInv, TypeOK, SharedTypeOK, Angles, CommandSent, PendingAngle,
   FiringOnlyOpensValve, NoStaleAngle, consistent, LatchFresh

\* servo_task can never send an angle other than the one commanded now.
THEOREM AngleNeverStale == Spec => []NoStaleAngle
<1> QED
  BY Invariance, CurrentAngle, PTL

\* A servo fault seen in a firing has become an Abort when the iteration ends.
THEOREM ServoFaultEndsFiring == Spec => []ServoFaultAborts
<1>1. IInv => ServoFaultAborts
  BY DEF IInv, ServoAbortPending, ServoFaultAborts, awaiting
<1> QED
  BY Invariance, <1>1, PTL

\* Once a servo fault has aborted a firing, no step leaves Abort: the reset
\* acknowledgement is refused by the latch, and the recovery of a pre-firing
\* abort by abort_before_firing, which that abort never sets.
THEOREM ServoAbortFinal == Spec => ServoAbortIsFinal
<1>1. IInv /\ [Next]_vars =>
        [servo_abort_latched /\ SEQUENCE_PHASE = "Abort" => SEQUENCE_PHASE' = "Abort"]_vars
  <2> SUFFICES ASSUME IInv, Next, servo_abort_latched, SEQUENCE_PHASE = "Abort"
               PROVE  SEQUENCE_PHASE' = "Abort"
    BY DEF vars
  <2>1. ~abort_before_firing
    BY DEF IInv, ServoAbortPending
  <2>2. CASE Environment
    BY <2>2 DEF Environment, CanStep, ServoStep, ButtonFrame, DropLink, DropCommands,
       RaiseCanFault, ClearCanFaults, SignalResetAck, TakeAngleCommand, RaiseServoFault,
       ClearServoFault, outputVars
  <2>3. CASE \/ \E d \in Delays : Wake(d)
             \/ LoadFaults \/ LoadResetAck \/ ApplyDecision
    BY <2>3 DEF Wake, LoadFaults, LoadResetAck, ApplyDecision, sharedVars, outputVars
  <2>4. CASE InhibitInputs \/ AbortFiring
    BY <2>4 DEF InhibitInputs, AbortFiring, enter_abort, set_sequence_phase
  <2>5. CASE ReturnToIdleAfterResetAck \/ ReturnToIdleAfterPreFiringRecovery
    BY <2>1, <2>5 DEF ReturnToIdleAfterResetAck, ReturnToIdleAfterPreFiringRecovery,
       reset_ack_allows_idle, pre_firing_recovery_allows_idle
  <2>6. CASE HandlePhase
    BY <2>6 DEF HandlePhase, StartFiring, StayIdle, ContinueFiring, FinishFiring,
       HoldTimeout, HoldAbort, start_permission, allow_new_ignition
  <2> QED
    BY <2>2, <2>3, <2>4, <2>5, <2>6 DEF Next, Iteration, Work
<1> QED
  BY Invariance, <1>1, PTL DEF Spec, ServoAbortIsFinal

-----------------------------------------------------------------------------
(* The firing sequence: initial states map to initial states, and every     *)
(* step to a step of FiringSequence or to none.                             *)

\* Steps that leave the phase, the igniter and the latch alone.
LEMMA SequenceStutter ==
  ASSUME SEQUENCE_PHASE' = SEQUENCE_PHASE, OUTPUT_STATUS' = OUTPUT_STATUS,
         servo_command_state'.open_latched = servo_command_state.open_latched
  PROVE  UNCHANGED Sequence!vars
BY DEF Sequence!vars

\* Entering Abort switches the igniter off and keeps the latch.
LEMMA SequenceAbort ==
  ASSUME IInv, enter_abort, force_safe_outputs
  PROVE  Sequence!Abort
<1>1. servo_command_state'.open_latched = servo_command_state.open_latched
  <2>1. servo_command_state \in ServoCommandStates /\ consistent(servo_command_state)
    BY DEF IInv, TypeOK, LatchFresh
  <2>2. on_phase_transition(servo_command_state, "Abort").open_latched =
          servo_command_state.open_latched
    BY <2>1, TransitionState DEF Phases
  <2> QED
    BY <2>2 DEF enter_abort, set_sequence_phase
<1>2. SEQUENCE_PHASE' = "Abort" /\ OUTPUT_STATUS' = {}
  BY DEF enter_abort, set_sequence_phase, force_safe_outputs, apply_decision
<1> QED
  BY <1>1, <1>2 DEF Sequence!Abort

\* supervisor_task implements the firing sequence.
THEOREM FiringSequenceImplemented == Spec => ImplementsSequence
<1> USE DEF Sequence!Next, Sequence!vars
<1>1. Init => Sequence!Init
  BY DEF Init, SharedInit, new, Sequence!Init
<1>2. IInv /\ [Next]_vars => [Sequence!Next]_(Sequence!vars)
  <2> SUFFICES ASSUME IInv, [Next]_vars
               PROVE  Sequence!Next \/ UNCHANGED Sequence!vars
    OBVIOUS
  <2> DEFINE s == servo_command_state
  <2>1. s \in ServoCommandStates /\ consistent(s) /\ SEQUENCE_PHASE \in Phases
    BY DEF IInv, TypeOK, SharedTypeOK, LatchFresh
  <2>2. CASE UNCHANGED vars
    BY <2>2, SequenceStutter DEF vars, sharedVars, outputVars, localVars
  <2>3. ASSUME NEW d \in Delays, Wake(d)
        PROVE  Sequence!Release \/ UNCHANGED Sequence!vars
    <3> DEFINE a == aged(s, d)
    <3>1. /\ a \in ServoCommandStates
          /\ a.open_latched = s.open_latched
          /\ a.open_latch_release_started = None <=> s.open_latch_release_started = None
      BY <2>1, AgedState, DelaysAssumption
    <3>2. /\ SEQUENCE_PHASE' = SEQUENCE_PHASE /\ OUTPUT_STATUS' = OUTPUT_STATUS
          /\ s' = update_latch_release(a)
      BY <2>3 DEF Wake, sharedVars, outputVars
    <3> HIDE DEF a
    <3>3. \/ s' = a
          \/ a.open_latched /\ a.open_latch_release_started # None /\ ~s'.open_latched
      BY <3>1, <3>2, ReleaseState
    <3>4. CASE s' = a
      BY <3>1, <3>2, <3>4, SequenceStutter
    <3>5. CASE a.open_latched /\ a.open_latch_release_started # None /\ ~s'.open_latched
      <4>1. SEQUENCE_PHASE # "Firing" /\ s.open_latched
        BY <3>1, <3>5 DEF IInv, LatchReleasable
      <4>2. s'.open_latched = FALSE
        <5>1. s' \in ServoCommandStates
          BY <3>1, <3>2, ReleaseState
        <5> QED BY <3>5, <5>1 DEF ServoCommandStates
      <4> QED
        BY <3>2, <4>1, <4>2 DEF Sequence!Release
    <3> QED BY <3>3, <3>4, <3>5
  <2>4. CASE LoadFaults \/ LoadResetAck \/ Environment
    <3>1. UNCHANGED <<SEQUENCE_PHASE, OUTPUT_STATUS, servo_command_state>>
      BY <2>4 DEF LoadFaults, LoadResetAck, Environment, CanStep, ServoStep, ButtonFrame,
         DropLink, DropCommands, RaiseCanFault, ClearCanFaults, SignalResetAck,
         TakeAngleCommand, RaiseServoFault, ClearServoFault, sharedVars, outputVars, localVars
    <3> QED BY <3>1, SequenceStutter
  <2>5. CASE InhibitInputs \/ AbortFiring
    BY <2>5, SequenceAbort DEF InhibitInputs, AbortFiring
  <2>6. CASE ReturnToIdleAfterResetAck \/ ReturnToIdleAfterPreFiringRecovery
    <3>1. OUTPUT_STATUS' = OUTPUT_STATUS /\ pc # "apply"
      BY <2>6 DEF ReturnToIdleAfterResetAck, ReturnToIdleAfterPreFiringRecovery
    <3>2. \/ UNCHANGED <<SEQUENCE_PHASE, servo_command_state>>
          \/ return_to_idle /\ SEQUENCE_PHASE = "Abort"
      BY <2>6 DEF ReturnToIdleAfterResetAck, ReturnToIdleAfterPreFiringRecovery,
         reset_ack_allows_idle, pre_firing_recovery_allows_idle, neutral_and_healthy
    <3>3. CASE return_to_idle /\ SEQUENCE_PHASE = "Abort"
      <4>1. SEQUENCE_PHASE' = "Idle" /\ s' = s
        BY <3>3 DEF return_to_idle, set_sequence_phase, on_phase_transition
      <4>2. "IGNITER" \notin OUTPUT_STATUS
        BY <3>3 DEF IInv, IgniterPhase
      <4> QED
        BY <3>1, <3>3, <4>1, <4>2 DEF Sequence!Recover
    <3> QED BY <3>1, <3>2, <3>3, SequenceStutter
  <2>7. CASE StartFiring
    <3>1. /\ SEQUENCE_PHASE = "Idle" /\ SEQUENCE_PHASE' = "Firing"
          /\ OUTPUT_STATUS' = OUTPUT_STATUS /\ ~s.open_latched
          /\ s' = on_phase_transition(s, "Firing")
      BY <2>7 DEF StartFiring, handled, start_permission, allow_new_ignition,
         can_start_firing, set_sequence_phase
    <3>2. s'.open_latched = s.open_latched
      BY <2>1, <3>1, TransitionState DEF Phases
    <3>3. "IGNITER" \notin OUTPUT_STATUS
      BY <3>1 DEF IInv, IgniterPhase
    <3> QED
      BY <3>1, <3>2, <3>3 DEF Sequence!Start
  <2>8. CASE FinishFiring
    <3>1. /\ SEQUENCE_PHASE = "Firing" /\ SEQUENCE_PHASE' = "Timeout"
          /\ OUTPUT_STATUS' = OUTPUT_STATUS
          /\ s' = on_phase_transition(s, "Timeout")
      BY <2>8 DEF FinishFiring, handled, set_sequence_phase
    <3>2. s'.open_latched = s.open_latched
      BY <2>1, <3>1, TransitionState DEF Phases
    <3> QED
      BY <3>1, <3>2 DEF Sequence!Finish
  <2>9. CASE StayIdle \/ ContinueFiring \/ HoldTimeout \/ HoldAbort
    <3>1. UNCHANGED <<SEQUENCE_PHASE, OUTPUT_STATUS, servo_command_state>>
      BY <2>9 DEF StayIdle, ContinueFiring, HoldTimeout, HoldAbort, handled
    <3> QED BY <3>1, SequenceStutter
  <2>10. CASE ApplyDecision
    <3> DEFINE t == dispatch.state
    <3>1. /\ pc = "apply" /\ SEQUENCE_PHASE' = SEQUENCE_PHASE
          /\ s' = t /\ OUTPUT_STATUS' = decision.on
      BY <2>10 DEF ApplyDecision, apply_decision
    <3>2. /\ decision.servo \in Angles \cup {None} /\ firing_open_phase \in BOOLEAN
          /\ "IGNITER" \in decision.on =>
               /\ SEQUENCE_PHASE = "Firing"
               /\ ~elapsed(firing_started_at, VALVE_OPEN_AT)
               /\ ~firing_open_phase
      BY <3>1, DecisionFacts
    <3>3. /\ t \in ServoCommandStates
          /\ t.open_latched <=>
               (s.open_latched \/ (SEQUENCE_PHASE = "Firing" /\ firing_open_phase))
      BY <2>1, <3>2, ScheduleFacts DEF dispatch
    <3>4. t.open_latched \in BOOLEAN /\ s.open_latched \in BOOLEAN
      BY <2>1, <3>3 DEF ServoCommandStates
    <3> HIDE DEF t
    <3>5. CASE "IGNITER" \in decision.on
      <4>1. ~s.open_latched /\ ~t.open_latched /\ SEQUENCE_PHASE = "Firing"
        BY <3>2, <3>3, <3>5 DEF IInv, LatchFresh, FiringTimed, elapsed
      <4> QED
        BY <3>1, <3>4, <3>5, <4>1 DEF Sequence!Ignite
    <3>6. CASE "IGNITER" \notin decision.on /\ t.open_latched = s.open_latched
      BY <3>1, <3>6 DEF Sequence!IgniterOff
    <3>7. CASE "IGNITER" \notin decision.on /\ t.open_latched # s.open_latched
      <4>1. t.open_latched = TRUE /\ SEQUENCE_PHASE = "Firing"
        BY <3>3, <3>4, <3>7
      <4> QED
        BY <3>1, <3>7, <4>1 DEF Sequence!Open
    <3> QED BY <3>5, <3>6, <3>7
  <2> QED
    BY <2>2, <2>3, <2>4, <2>5, <2>6, <2>7, <2>8, <2>9, <2>10
       DEF Next, Iteration, Work, HandlePhase
<1> QED
  BY Invariance, <1>1, <1>2, PTL DEF Spec, ImplementsSequence, Sequence!Spec
=============================================================================

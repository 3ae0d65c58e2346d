# GSE integrated board: TLA+ models, checks and proofs

The firmware in `src/` (Rust, embassy, ESP32) runs the ground-side board of a
rocket engine test stand: it takes button frames from a control panel over CAN,
runs the firing sequence (oxygen, igniter, main valve), drives five outputs and
a servo valve, and reports its state. This directory holds models of that
firmware in TLA+, the TLC configurations that check them on small instances, and
TLAPS proofs about them for every value of the constants.

## 1. The system

### Components

| component | source | state it keeps | operations |
|---|---|---|---|
| supervisor task | `src/tasks/supervisor.rs` | the locals of its loop: firing start, origin of an abort, servo abort latch, last reset counter, servo command memory | one loop iteration, started by a 10 ms ticker or by `CONTROL_UPDATE_SIGNAL`: inhibit, return to Idle (two ways), abort, phase handlers, decide, apply |
| servo command state | `src/servo_control.rs` | open latch, OPEN send count and time, release timer, CLOSE time, manual OPEN flag | `update_latch_release`, `on_phase_transition`, `schedule` |
| shared statics | `src/lib.rs` | atomics `FAULT_FLAGS`, `INPUT_FLAGS`, `SEQUENCE_PHASE`, `RESET_ACK_EVENT_COUNTER`, ...; signals `ANGLE_COMMAND_SIGNAL`, `CONTROL_UPDATE_SIGNAL` | set, clear, replace; the pure `resolve_control` |
| CAN manager task | `src/tasks/can_communication.rs`, `src/can/tx.rs`, `src/can/health.rs` | transmit runtime state, last reception, last reset bit, restart flag | select over reception, a 50 ms transmit ticker and a 100 ms health ticker; restart or back off |
| servo task | `src/tasks/servo.rs` | consecutive error count | select over a signalled angle and a 200 ms poll; one transfer; count its failure |
| ICS driver | `src/krs_servo.rs` | UART buffers, direction pin | one half-duplex transfer at a time: flush, drain, send, drain the echo, read with a timeout |
| CAN protocol, angle conversion | `src/can/protocol.rs`, `src/lib.rs` | none | pure |
| ESP-NOW receiver | `src/tasks/espnow.rs` | last sample of the logger and its counter | receive; read by the CAN task |
| status LEDs, CAN debug log | `src/tasks/` | blink phase; nothing | report only |
| CAN fire test | `tests/can_fire.rs` | igniter, age of the last command, transmit state, restart deadline | select over reception, a command watch and a transmit ticker |
| other test firmwares | `tests/servo.rs`, `tests/solenoid_ignition.rs` | none | a fixed script |

### How they interact

`main` (`src/bin/main.rs`) starts two executors. Core 1 runs `can_manager_task`.
Core 0 runs `servo_task`, `supervisor_task`, the LED task and, if enabled, the
ESP-NOW task. Everything between tasks goes through the statics of `lib.rs`:

    panel --CAN--> can_manager --INPUT_FLAGS, FAULT_FLAGS, reset counter--> supervisor
    supervisor --SERVO_CONTROL_MODE, target, ANGLE_COMMAND_SIGNAL--> servo task --UART--> servo
    servo task --SERVO_COMM_ERROR in FAULT_FLAGS--> supervisor
    supervisor --replace_operator_input_flags(0)--> INPUT_FLAGS (also written by core 1)
    supervisor --SEQUENCE_PHASE, OUTPUT_STATUS--> can_manager --CAN--> panel
    servo task --CURRENT_POSITION--> can_manager;  espnow task --LATEST_LOG_DATA--> can_manager

Across the cores, any store may fall between any two loads. On core 0 tasks
alternate only at an `await`; the supervisor has one, its select.

### What is hard

* The supervisor loads the faults up to four times and the inputs twice in one
  iteration, and core 1 and (between iterations) the servo task change both.
* A CAN fault is three stores, in an order that matters, and the supervisor
  itself writes the flags that two of them write.
* The open latch outlives phases and decides both what the servo is told and
  whether a firing may start. Two exits from Abort have different conditions.
* The CAN task must fall silent after an unobserved transmission, tell the panel's
  silence from its own trouble, restart the controller at most once, and come
  back from every combination of these.
* Windows of a firing meet at their boundaries while iterations come at any time.
* The panel sees the board one value at a time, through frames that get lost, with a
  phase and its fault flags loaded at two moments, and a valve angle that is the servo's last answer.
* The CAN task polls reception first, so an error that is ready in every round keeps its tickers waiting.
* The servo line is half duplex: echo, garbage, late and partial replies share one buffer, and
  every early return of a transfer leaves the direction pin where it was.

`PROJECT.json` lists each hazard at its line with the properties that cover it.

### What makes each part correct

* Supervisor: the order Idle, igniter, valve, Timeout or Abort, release;
  a fault ends a firing; a servo abort is final; no operator request and no
  output outlives the link; Abort is left for Idle only as its origin allows (5.1 shows
  where the code falls short of that).
* Servo command state: OPENs bounded and spaced; the valve left alone until
  released; always releasable; a signalled angle never stale.
* CAN manager: only stores the supervisor can stand; bus-off and silence always
  withdraw the inputs; one reset event per press; silence after failure until the
  panel is heard; recovery once the bus is good.
* Servo task: fault exactly from the limit on; a dead servo keeps the board from
  firing; what goes out is the target in force.
* ICS driver: a success is the servo's reply to this command; every transfer ends; no
  failure leaves a state the next transfers cannot leave.
* Status frames and protocol: messages survive encoding; the panel ends up with what the statics
  hold and with the last sample; no slot starves another. The valve angle is as old as the servo's last answer.
* CAN fire test: the igniter is on by a young command only (5.4 shows how young), and never before
  transmission has recovered.

## 2. The modules

| module | models | extends / uses |
|---|---|---|
| `GseBoard` | the statics of `lib.rs`, their atomic updates, `resolve_control`, and the steps each task may expect of the others (`CanStep`, `ServoStep`) | |
| `ServoControl` | `servo_control.rs`: the record and its methods as operators | `GseBoard` |
| `Supervisor` | `supervisor_task`, its properties and inductive invariant | `ServoControl` |
| `FiringSequence` | the abstract firing: three variables, eight actions | |
| `FiringHistory`, `FaultHistory`, `ResetHistory` | the supervisor with history variables for properties about the past | `Supervisor` |
| `CanManager` | `can_manager_task` | `GseBoard` |
| `CanHistory` | the same with a record of the bus traffic | `CanManager` |
| `Protocol` | messages, `encode_payload`, `decode_standard` | |
| `ServoAngles` | angles, positions, and their two bytes on the servo bus | |
| `StatusFrames` | the slots of `can_manager_task`, the messages it loads, the logger samples of `espnow.rs`, and what the panel has decoded | `Protocol`, `ServoAngles` |
| `ServoTask` | `servo_task` | `GseBoard` |
| `Core0` | supervisor and servo task on one executor | `Supervisor`, `ServoTask` |
| `Board` | both cores: `Core0` with the actions of `CanManager` in the place of `CanStep` | `Core0`, instance of `CanManagerProofs` |
| `IcsDevice` | `krs_servo.rs`, a transfer call by call | |
| `CanFireTest` | `tests/can_fire.rs` | |
| `SupervisorProofs` | lemmas on the servo operators; the theorems about the supervisor | `Supervisor` |
| `HistoryProofs` | the supervisor's faults, aborts and firings over many iterations | `FiringHistory`, `FaultHistory`, `SupervisorProofs` |
| `CanManagerProofs`, `CanHistoryProofs` | the CAN task, alone and with the bus traffic | `CanManager`; `CanHistory`, `CanManagerProofs` |
| `BoardProofs` | core 0, and the three tasks together | `Board`, `SupervisorProofs` |
| `StatusFramesProofs` | the two conversions, the frames, the samples | `StatusFrames` |
| `IcsDeviceProofs`, `CanFireTestProofs` | the driver; the fire test | the module of that name |
| `MC*` | model-checking roots; each `.cfg` gives the constants | |

### State and actions

* A bit mask is a set of names; `Option::None` is `None`. An output that is high
  is a member of `OUTPUT_STATUS`, which the code stores together with the pins.
* Time. A timestamp in the code is an *age* in the model, the time since that
  stamp, and ages stop at the only bound the code compares them with. The
  supervisor reads the clock once an iteration, so its clock moves in `Wake(d)`
  by any `d` in `Delays`; `0` stands for two iterations within one tick.
* `Supervisor` cuts an iteration at every load of a static that core 1 writes
  (`Wake`, `LoadFaults`, `LoadResetAck`, ...; `pc` names the load that is next).
  What the code computes and stores between two loads is one action: the
  supervisor alone writes what it stores there, except `INPUT_FLAGS`, which it updates
  atomically at line 103 (`InhibitInputs`). `previous_phase` is left out: it equals
  `SEQUENCE_PHASE` between stores, and `set_sequence_phase` includes the
  `observe_phase_transition` that follows it.
* `CanManager` makes one action of a select branch, since its decisions use the
  controller and the task's own locals, and lays its stores into the sequence
  `stores`, in the order of the code; `Store` performs them one at a time, so the
  supervisor runs between any two. A transmission is a step of its own: it
  awaits up to 10 ms. The peripheral is the variable `controller`: it degrades at
  any time; only a restart takes it out of bus-off, after a while.
  Tickers may fire whenever the task is at its select. The result
  `FrameCreateFailed` is kept although the message types of the code make it hardly
  reachable, and `TxInhibited` cannot occur (health is tested just before).
* `ServoTask` has one action per branch and one per outcome of a transfer.
* Rely and guarantee. `Supervisor` runs against `CanStep` (any store core 1 may
  make) and `ServoStep` (only while the supervisor awaits); `CanManager` runs against `SupervisorStep`.
  Every step of `CanManager` is a `CanStep` (`GuaranteesCanStep`), and with the real servo task
  in the place of `ServoStep` core 0 still is a `Supervisor` (`ImplementsSupervisor`). Both are
  checked and proved; `Board` puts the parts together, and `BoardProofs` concludes that what
  is proved of each holds of the board.
* `StatusFrames` takes the control of the CAN task as `CanManager` has it and keeps of it only what
  decides which frame is sent: `tx_runtime_state` and the slot. `LoadPhase` and `LoadFlags` are
  the two loads of `internal_status_message`. Values are integers, since the encodings matter here. The
  panel is external: it decodes with the same protocol. `behind` and `panel` are the observer's.
  Of `servo_task` it has the one store the panel sees: `ServoAnswers` is a transfer that succeeds and stores
  `CURRENT_POSITION` (`servo.rs` 58); one that fails stores none, so it is no step here and the position
  stays. Where the valve is, `valve`, moves by itself; `answered` is where it was at the last answer.
* `ServoAngles` computes in integers what the code computes in `f32`: 29.62963 positions per degree
  is 800/27. The two agree on every 16-bit argument, found by evaluating both formulas for each
  of them, the code's in single precision. This comparison is not part of the TLA+ checks.
* `IcsDevice` has one action per call that can fail or take time: `Flush`, `Drain`, `Write(n)`
  (one call may take fewer bytes), `DrainEcho`, `Read`, each with its failure. A byte is its origin
  (`reply`, `late`, `echo`, `garbage`); the line delivers bytes in order at any time, and loses
  them while the pin is high.
* `CanFireTest` has one action per branch of the select, and two for a transmission, since time
  passes in it. Ages and deadlines are relative, as above; `watch_in` may be overdue, because the ticker
  of the watch keeps its schedule while a transmission holds the loop.

Definitions whose comment calls them *a slip* are plausible mistakes, kept beside the
definition they would replace. No specification uses them: they document, for each
property, a fault of the code that it would catch.

## 3. The runs

Durations are small numbers that keep the order and coincidence of the real
ones (every boundary is reached exactly, before it and after it); the code
compares nothing else. Frames and raised faults are limited per run to those its
properties tell apart. No symmetry is used.

| run | shows | bounds |
|---|---|---|
| `supervisor` | `IgniterOnlyInWindow`, `LatchReleasable`, `FiringOnlyOpensValve`, `NoStaleAngle`, `ServoFaultAborts`, `ServoAbortIsFinal`, the inductive invariant `IInv`, and that the task is a `FiringSequence`; with the record of `FiringHistory`: `OpenSendsBounded`, `OpenSendsSpaced`, `ValveLeftAlone` | wait 2, delay 1, running 5 ticks, poll 2, 2 OPENs, release after 2, so the sends run out inside a firing; neutral, FIRE and VALVE_SET frames; 3.6 M states |
| `supervisor_live` | every firing ends, every opened valve is released, a dead link stops the outputs, an abort from Idle recovers | all durations 1; 0.5 M states |
| `fault_history` | `HeldFaultEndsFiring`, `OutputsOffWhenInhibited`, `CanFaultWithoutLinkAborts`, `FiringAbortNeedsAck` | a soft and a hard-inhibit CAN fault, and the servo fault; 4.6 M |
| `released_controls` | **violated**: see 5.1 | reset counter modulo 3 |
| `can_manager` | `BusOffStopsInputs`, `GuaranteesCanStep`, `SilentPanelIsLost`, `TransmissionResumes`, `SilentUntilHeard`, `TimeoutClearedBySend`, `RestartsEarned`, `AckIsEdge` | all transmission results, all health states, peer timeout 2 ticks; 0.2 M |
| `can_faults_latched` | **violated**: see 5.2 | the same |
| `core0` | `FaultIffLimit`, `WireFollowsTarget`, `ImplementsSupervisor`, `DeadServoStopsFiring` | limit 2, saturation 3, so the count rises above the limit and saturates; neutral, FIRE and VALVE_SET frames, so that both angles are signalled; no CAN fault, but the link comes and goes; 0.4 M |
| `status_frames` | `SampleStillDue`, `PanelCatchesUp`, `LastSampleArrives` | one or two other values of each static besides its first; the valve at either of two angles, below and above the centre, answered for or not; sample counter modulo 3, so that it wraps between two transmissions; 118 k |
| `ics_device` | `OkIsOwnReply`, `TransferEnds`, `ServiceRecovers` | the two commands `servo_task` uses (3 bytes each way; 2 and 4), timeout 2 ticks, up to 2 late bytes under way when a transfer begins; 12 k |
| `can_fire` | `FireBacked`, `TransmissionReturns` | timeout 10, watch 3, retry 10, transmission 2 ticks: the watch does not divide the timeout, so it just misses it, and a transmission delays it; 0.5 k |
| `can_fire_probe` | **violated**: see 5.3 | the same |
| `can_fire_timeout` | **violated**: see 5.4 | timeout 20, watch 2, retry 20, transmission 1: a tick is 25 ms, and a transmission is rounded up |

Every bound is a constant with a named assumption; there is no state constraint.
The counter of reset events wraps at `RESET_ACK_MODULUS` (256 in the code), so a run
also contains the wrap-around that hides an event. The sample counter of `StatusFrames` may wrap too, but
not come round to a counter the CAN task still holds: 65535 samples between two transmissions
would look like none, and are left out by the guard of `Sample`.

### Fairness

* `Supervisor!Fairness`: an iteration in progress goes on and the ticker starts the
  next one (weak fairness of `Iteration`), and the clock advances (strong fairness of a
  `Wake` with a positive delay: the control signal can wake the task within a
  tick, but not always). The embassy ticker and the executor of core 0, which
  polls every woken task, justify it.
* `CanManager!Fairness`: begun work completes (a transmission has a timeout, a
  back-off a timer), and a restarted controller recovers. `select3` polls reception before the two tickers, so a ticker
  is served only in a round in which reception is not ready. Off bus-off such rounds come again and again (strong fairness of each
  ticker while the controller is not bus-off): at 125 kbit/s the panel's frames, however many, leave
  gaps, and a receive error is an event, taken when it is reported. In bus-off
  `receive_async` fails at once in every round, and with the restart spent each round sleeps 100 ms: the tickers may
  starve, and all that is assumed there is that some branch is served. Nothing is assumed of the panel;
  `TransmissionResumes` takes its frames, a controller that stays off bus-off and success of transmissions
  as its hypothesis. `SilentPanelIsLost` says what a silent panel leads to with and without the tickers: without them
  the inputs are withdrawn and `CAN_BUS_OFF` may be the only fault, with them `CAN_PEER_LOST` is raised.
* `Core0!CoreFairness`: the same for the supervisor, and servo transfers begin and end
  (the 200 ms poll and the 100 ms reply timeout).
* `StatusFrames`: the ticker comes again and again and a transmission is bounded (`Fairness`); of the bus and
  the panel (`BusFairness`) that the panel is heard, and that of the loads and transmissions that are due
  again and again some happen before the next suspension. Any number of frames may be lost. That the servo
  answers is not assumed: it is the hypothesis of the last part of `PanelCatchesUp`.
* `IcsDevice`: the driver runs, time passes, a byte under way arrives (or is lost while the pin is high), and
  `servo_task` asks again (its 200 ms poll).
* `CanFireTest`: time passes, a due watch is served, a transmission ends, and the transmit ticker, due
  every 50 ms, gets its turn between frames.
* `FiringSequence!FairSpec` is what these imply of the abstract firing, as
  `supervisor_live` checks.

## 4. The proofs

`SupervisorProofs` proves, from the named assumptions on the constants in
`GseBoard` and `Supervisor` only (durations positive, oxygen off no later than the end of
the firing, at least two reset values, frames made of operator bits):

| theorem | statement |
|---|---|
| `Invariance` | `Spec => []IInv` |
| `TypeCorrect` | `Spec => []TypeOK` |
| `IgniterSafe` | `Spec => []IgniterOnlyInWindow` |
| `LatchAlwaysReleasable` | `Spec => []LatchReleasable` |
| `FiringOpensOnly` | `Spec => []FiringOnlyOpensValve` |
| `AngleNeverStale` | `Spec => []NoStaleAngle` |
| `ServoFaultEndsFiring` | `Spec => []ServoFaultAborts` |
| `ServoAbortFinal` | `Spec => ServoAbortIsFinal` |
| `FiringSequenceImplemented` | `Spec => ImplementsSequence` |

None of the safety properties is inductive alone. `IInv` adds what the code
silently relies on:

* `FiringTimed`: a firing has a start time and no other phase has. Without it the
  windows of `IgniterOnlyInWindow` compare nothing.
* `LatchFresh`: an unlatched state has no send history, and a firing is latched
  only from its valve-open time; so the igniter window and the latch exclude each other.
* `IgniterPhase`: the igniter is on in Firing, or in Timeout until that same
  iteration applies its decision.
* `PendingAngle`, `CommandSent`: an untaken angle is of the last command's kind and the
  command in force has been sent; together they exclude a stale angle.
* `AbortOrigin`, `ServoFaultStable`, `ServoAbortPending`: the servo fault cannot
  vanish while the supervisor runs, hence the latch of line 98 is followed by the
  abort of line 142 although the faults are loaded anew in between.

The proof has one lemma per action (`WakeInv`, `LoadFaultsInv`, ...), the shared
effects of `enter_abort` and `return_to_idle` in lemmas of their own. Its first section
states what each servo operator returns and preserves, so that the proof of
`ApplyDecisionInv` never expands `schedule`. The refinement maps `stage` to `SEQUENCE_PHASE`,
`igniter` to the igniter output and `opened` to the open latch, and uses `IInv`
at both ends of a step.

### The supervisor over many iterations

`HistoryProofs` proves the properties of the two history modules, for all durations and limits. A
history only watches (`FaultHistoryStep`, `FiringHistoryStep`), so `IInv` holds beside it.

| theorem | statement |
|---|---|
| `LastingFaultEndsFiring` | `FaultHistorySpec => []HeldFaultEndsFiring` |
| `LastingInhibitStopsOutputs` | `FaultHistorySpec => []OutputsOffWhenInhibited` |
| `LastingCanFaultAborts` | `FaultHistorySpec => []CanFaultWithoutLinkAborts` |
| `AbortWaitsForAck` | `FaultHistorySpec => FiringAbortNeedsAck` |
| `SendsBounded`, `SendsSpaced` | `FiringHistorySpec => []OpenSendsBounded`, `OpenSendsSpaced` |
| `ValveUndisturbed` | `FiringHistorySpec => ValveLeftAlone` |

* `FaultInv`. `HeldNow` and `HeldLoaded` say that what has lasted since `Wake` is in every load made
  since, so it does not matter which of the four loads of the faults a decision uses. `InhibitDone` and
  `FiringClear` carry it past the two tests that act on it (lines 102 and 142) to the end of the iteration. For
  `AbortWaitsForAck`, `AbortStart` ties the code's flag to the phase the abort began in, and `AckCounted`
  its two counters to what was acknowledged: the counter loaded last may lag behind only if an
  acknowledgement has come since the abort, or the board is not in Abort and the iteration has yet to load it.
* `FiringInv`. `SendsCounted`: in a firing the code's send count and timestamp are those of the outside
  record. `BurnLatched`: a firing that has begun to open the valve is latched. `BurnReleases`: after its end the
  latch stands, and its release timer is never ahead of the time since that end; no way
  through the phases starts it earlier, hence the latch is not released early.

### The other tasks and the board

| theorem | statement | from |
|---|---|---|
| `CanTypeCorrect`, `BusOffWithdrawsInputs` | `Spec => []TypeOK`, `Spec => []BusOffStopsInputs` | the assumptions of `CanManager` |
| `CanTaskKeepsItsWord` | `Spec => GuaranteesCanStep` | `RaisedCanFaults = CanFaults`: `CanStep` admits every CAN fault |
| `PanelHeardFirst`, `SendClearsTimeout`, `RestartsAreEarned`, `ResetCountsPresses` | `HistorySpec => SilentUntilHeard`, `TimeoutClearedBySend`, `RestartsEarned`, `AckIsEdge` of `CanHistory` | the assumptions of `CanManager` |
| `ServoFaultCounts`, `CoreTypeCorrect` | `CoreSpec => []FaultIffLimit`, `[]CoreTypeOK` | the assumptions of `ServoTask` and `Supervisor` |
| `ServoKeepsItsWord`, `WireAngleCurrent` | `CoreSpec => ImplementsSupervisor`, `WireFollowsTarget` | the same |
| `BoardImplementsCore0` | `BoardSpec => CoreSpec` | `CanAssumption` |
| `BoardSafe`, `BoardFires`, `BoardWireCurrent`, `BoardBusOff` | the supervisor's safety, the abstract firing, the wire angle and the withdrawal of inputs, of the three tasks together | the same |
| `TransferReturnsOwnReply` | `Spec => []OkIsOwnReply` of `IcsDevice` | its two assumptions |
| `IgniterBacked` | `Spec => []FireBacked` of `CanFireTest` | positive intervals |
| `MessagesSurvive`, `AngleSurvives` | decoding gives back every message; an angle sent, echoed and reported is off by a tenth of a degree at most (within 135 degrees, and clamped beyond) | none |
| `NoSampleSkipped`, `FramesTrue`, `FramesTypeCorrect` | `Spec => []SampleStillDue`, `FramesTellTruth`, `[]TypeOK` of `StatusFrames` | its two assumptions |

* `CanManagerProofs`. The invariant is about the stores still to be made: each one that is not safe by
  itself stands behind the store that makes it so, or is the next one and the inputs already are as
  it needs them (`Ordered`). A fault is raised only after the link bit and the requests are
  gone, a fault is cleared only after the link is back, a reset is counted only after a frame
  without requests. `BusOffOnItsWay` adds that a bus-off the task knows of has arrived in the statics or is
  among those stores. The supervisor's own store (`replace_operator_input_flags(0)`) disturbs neither.
* `CanHistoryProofs`. `TrafficInv` ties `tx_runtime_state`, `restart_attempted` and `reset_ack_prev` to the traffic they
  stand for (`HeardNow`, `SentNow`, `RestartNow`, `AckNow`). A store may come long after the frame
  that justified it; `StoresEarned` says that each one on its way is still justified, because no frame is received or sent before
  the last of them.
* `BoardProofs`, core 0. `servo_task` runs while the supervisor awaits, so each of its steps is a `ServoStep` or
  a stutter for the supervisor; that its fault flag follows its count gives `FaultIffLimit`.
* `BoardProofs`, both cores. The circle of the two assumptions is broken by one joint invariant, the conjunction of the
  parts' invariants: from it a step of core 0 is a `SupervisorStep` or a stutter for core 1, and a step of core 1 a
  `CanStep` or a stutter for core 0. The theorems of the parts then carry over.
* `IcsDeviceProofs`. In an undisturbed transfer what has been read, what is buffered and what is under
  way are consecutive pieces of one reply (`InOrder`); bytes are lost only at its front, and then
  the reply cannot be complete. A reply that is still under way when the next transfer begins is excluded by the
  hypothesis `quiet`: the code compares neither the echoed command byte nor a checksum and cannot
  tell it from its own.
* `StatusFramesProofs`. Each payload decodes to its message (`MessagesSurvive`) and the angle survives both roundings
  (`AngleSurvives`); with the ranges of the statics every loaded message is one of the protocol
  (`LoadedMessages`), so the frame is accepted and tells what was loaded. The angle is true of the servo's last answer
  (`PositionAnswered`), which is all the code knows: nothing bounds how old that answer is. `SampleStillDue` is
  inductive with `SampleInFlight`: a sample in transmission that is no longer the last has left the panel behind, so
  delivering it changes nothing about what is still due, whether its success is seen or not. The bound in `Sample` is needed:
  a counter that comes round to the last one sent hides all samples between.

Every safety and action property that a passing run checks is proved. `FramesTellTruth` and the theorems about `Board`
are proved and checked by no run. Only model-checked is liveness
(`LinkLossStopsOutputs`, `PreFiringAbortRecovers`, `ImplementsFairSequence`, `SilentPanelIsLost`,
`TransmissionResumes`, `DeadServoStopsFiring`, `PanelCatchesUp`, `LastSampleArrives`, `TransferEnds`,
`ServiceRecovers`, `TransmissionReturns`): it rests on fairness, hence on ENABLED, which the prover does not
handle. The four violated properties are refuted by TLC's counterexamples. That the
integer formulas of `ServoAngles` are the code's `f32` ones is neither checked nor proved here (section 2).

## 5. Disagreements between code and text

1. **A held FIRE can be forgotten** (`released_controls`). The supervisor loads the
   inputs (line 92) without the link; a frame with FIRE held arrives; the fault of the
   lost link is still set when loaded at line 93; line 103 then wipes the new
   request and keeps the new link bit. Next iteration the controls look neutral and the
   pre-firing recovery leaves Abort; the panel's next frame, FIRE still held, may start a firing.
   The test at `supervisor.rs:611-630` says recovery is refused while FIRE is requested.
2. **CAN faults are not latched** (`can_faults_latched`). `lib.rs:44` says they are, until an
   explicit reset; `clear_recovered_can_faults` clears three of the four on the next valid frame
   (and leaves nothing for `handle_reset_ack_edge` to clear).
3. **The CAN fire test probes unasked** (`can_fire_probe`). The repository's `README.md` (36-38) says
   that after a bus-off it stops transmitting and sends a probe after a valid button frame; lines
   268-274 of `tests/can_fire.rs` set `ProbePending` with the restart itself, so the next tick probes.
4. **The CAN fire test keeps the igniter on for more than 500 ms** (`can_fire_timeout`). The repository's `README.md` (31-32)
   says that the output goes Low by itself unless a command is received within 500 ms of the last valid one. Lines
   195-209 of `tests/can_fire.rs` look at the age of the command only every 50 ms, and not while a status frame
   of up to 10 ms is in transmission, so it may be about 560 ms old. `FireBacked` is the bound the code does keep.

## 6. Not modelled, and why

* The status LED task displays three statics and the debug task prints counters; nothing depends on either,
  and `SERVO_COMM_ACTIVE`, `CAN_COMM_ACTIVE` and the error counters exist for them alone.
* Board bring-up configures pins and peripherals before any task runs.
* `tests/servo.rs` and `tests/solenoid_ignition.rs` run a fixed script on hardware.
* The contents of the fire test's status frames, and the range checks of the servo driver: every caller
  passes identifier 0 and a clamped position (`AngleSurvives`).
* TLC does not run `Board`: the product of the three tasks is too large, and a bound small enough would leave
  out the cases that matter. It is proved instead.

Memory ordering is taken as sequentially consistent: every static is one atomic with acquire and release, and no
decision compares two that are written without an order.

## 7. Plan

Open, in this order:

1. Tickers with periods in `CanManager`, to bound how long a silence or a bus-off goes unnoticed,
   including during back-offs.
2. `StatusFrames` under `CanManager`'s own control instead of its summary, so that the fairness of the bus need not
   mention the transmit state.

# Verification of the ESP32 flight estimator

TLA+ modules, TLC configurations and TLAPS proofs for the firmware under `src/`: an attitude
estimator on an ESP32 with an MPU6050, two FreeRTOS tasks on two cores, a binary telemetry
protocol over UART and Wi-Fi UDP and a ground station written in Processing. Paths below are
relative to the repository; numbers after a file name are lines.

## 1. The system

### Parts, their state and their operations

| Part | State | Operations |
| --- | --- | --- |
| `app_main` (`main.cpp`) | none of its own | prepares NVS, sets the initial flags and state, starts the two tasks, suspends itself |
| Telemetry task, core 0 (`telemetry_task.cpp`) | `g_system_state`, `g_active_profile`, `g_health_flags`, `g_telemetry_queue` (one element), one `FrameParser` per channel | 10 ms loop: read both channels, carry out commands, then act by state: heartbeat, self test and calibration, forward telemetry, or wait |
| GNC task, core 1 (`gnc_task.cpp`) | its copy of the profile, the EKF, the time of the last turn | woken by DRDY, GPTimer or a 20 ms time-out: read a burst, feed the watchdog, supervise, predict, update, overwrite the queue |
| Flight state machine (`flight_fsm.hpp`) | none | the table of legal transitions, consulted at one of the six places that write the state |
| FDIR (`fdir_manager.cpp`) | I2C error count, stuck and nominal sample counts, last reading | `process_sample`, `should_fuse_accelerometer`, `register_i2c_error/success`, `notify_recovery_performed` |
| MPU6050 driver (`mpu6050_driver.cpp`) | device handle, profile, calibration | `init`, `calibrate_biases`, `read_burst_raw`, `scale_data`, `reset_signal_path` |
| DRDY and GPTimer (`drdy_sync.cpp`, `timer_watchdog.cpp`) | the task to notify, the alarm period, whether the timer runs | interrupt handlers that notify the GNC task; feed |
| Flight profiles (`flight_profiles.hpp`) | none | the rates, full scales, filter settings and thresholds of four profiles |
| Transports (`transport_uart.cpp`, `transport_wifi_udp.cpp`) | socket, destination address | `send`, `receive`, both without blocking |
| EKF and matrices (`ekf.cpp`, `matrix.hpp`) | quaternion, gyroscope biases, covariance | `predict`, `update`, `normalizeQuaternion` |
| Ground station (`FlightVisualizerV2.pde`) | parser, last values, screen | handshake by buttons, display |

How they interact: the tasks share four global variables (the state and the profile are
`volatile`, the flags atomic, the queue holds one element), the I2C driver (no lock at all) and
one task notification. Commands reach the telemetry task only; telemetry payloads reach it
through the queue. The ground station hears heartbeats, ACKs and NACKs, self-test reports and
telemetry.

### What is hard, and what makes each part correct

* Two cores and one sensor without a lock. `g_system_state` alone hands the I2C bus from the
  telemetry task to the GNC task, together with the calibration. Correct: never both in a
  transfer, never a sample scaled for another profile, never a profile changed after it was
  acknowledged.
* Flags, state and profile are three variables, written one after the other and read one after
  the other. Correct: no reader sees a state without the flags that belong to it, and no
  payload mixes times.
* Transfers fail one at a time, during the self test and in flight; power fails at any time.
  Correct: the self test ends, the system locks at the limit, nothing survives a restart.
* Commands arrive while the task is busy with the self test, or when the system is locked.
  Correct: a reset is carried out all the same.
* The supervisors in FDIR are counters over the stream of samples that reset one another.
  Correct: what flags and resets mean, in terms of the samples themselves.
* Bytes on the serial line get lost, garbled and inserted, and the parser has neither time-out nor
  escape. Correct: it never writes past its buffer, hands over only what it heard, finds the
  next frames again, and no mixture of frames around one wrong byte passes for a command nobody gave.
* A data-ready interrupt, a hardware timer and a time-out wake one task through one notification
  that counts but is taken as one, and nobody looks at whether the first two could be set up.
  Correct: the loop is never starved, a pulse during a read is not lost, the fallback flag goes up
  when the pulses stop and not without a reason, and no sample is integrated over a wrong time.
* UDP loses, doubles and reorders, the protocol has no sequence numbers and no repetition, and
  the telemetry goes to whoever sent last. Correct: the ground station's screen comes to agree
  with the vehicle, and shows no flight that was none.
* The driver writes the sensor's registers without looking at the results, the sensor survives a restart
  of the processor, and the calibration takes whatever the sensor returns for its offset. Correct: a
  missed write spoils what it was to set and no more, nothing an earlier boot configured is left,
  and a sensor that does not work is noticed.
* Floating point degenerates: the covariance grows with each prediction and is limited on its diagonal
  alone, a NaN spreads. Correct: the formulas are the derivatives they are meant to be, the yaw
  stays unobserved, the attitude sent is one of numbers.

`PROJECT.json` lists these hazards one by one, at their lines.

## 2. What is modelled

| Module | Models | Kind |
| --- | --- | --- |
| `FlightTypes` | profiles, system states, the table of transitions | vocabulary |
| `FlightFSM` | what the state and the profile may do, whoever writes them | abstract specification |
| `Vehicle` | the vehicle as its frames describe it to an operator | abstract specification |
| `FlightCore` | `app_main`, the telemetry task, the GNC task, their shared state, the self test, the I2C error count | detailed specification |
| `FlightCore_proofs` | theorems about `FlightCore`, and that it implements `FlightFSM` and `Vehicle` | proofs |
| `FdirManager` | the GNC loop's sample supervision: jitter, stuck data, hysteresis, G-gate | component |
| `Fdir` | `FdirManager` fed with any samples, and their history | composition |
| `Fdir_proofs` | theorems about `Fdir` | proofs |
| `SampleSync` | what paces the GNC loop: data-ready pulse, hardware timer, time-out | specification, with time |
| `SampleSync_proofs` | theorems about `SampleSync` | proofs |
| `FlightProfiles` | the numbers of the four profiles and the register values they lead to | vocabulary |
| `Mpu6050` | the sensor's registers and the driver: `init`, calibration, conversion | component |
| `Ekf` | the filter, reduced to which of its numbers are numbers | component |
| `Estimator` | `Mpu6050`, `FdirManager` and `Ekf` over boots, restarts and losses of power | composition |
| `Estimator_proofs` | theorems about `Estimator` | proofs |
| `FilterMath` | the formulas of `predict`, `update` and `inverse3x3`, over the integers | algorithm |
| `FilterMath_proofs` | theorems about them | proofs |
| `FrameParser` | the parser of either end, byte by byte, and the checksum | component |
| `FrameStream` | `FrameParser` fed with any bytes at all | composition |
| `FrameStream_proofs` | theorems about `FrameStream` | proofs |
| `FrameLine` | the ground station's commands, a disturbed serial line and `FrameParser` | composition |
| `FrameLine_proofs` | theorems about `FrameLine` and about its checksum | proofs |
| `GroundLink` | a ground station and the vehicle over Wi-Fi or the cable | specification |
| `GroundLink_proofs` | theorems about `GroundLink` | proofs |
| `MCFlightCore`, `MCFdir`, `MCSampleSync`, `MCEstimator`, `MCFrameStream`, `MCFrameLine`, `MCGroundLink` | instances for TLC | model checking |

The modules meet at named places. `FlightCore` takes a command as a record that `FrameParser`
would hand over; `Fdir`, `SampleSync` and `Estimator` open up what `FlightCore` calls a transfer, a turn of
the loop and the self test; `GroundLink` uses `FlightTypes` and takes each command and each state of `FlightCore` in
one step, which the proved properties of `FlightCore` justify: a profile is fixed once, the ACK
precedes the self test, telemetry speaks of the profile in force.

### FlightCore

Each task has a program counter (`mainPc`, `telPc`, `gncPc`) and one action per stretch of code
that touches shared state once, so the two cores interleave as finely as the code allows. The
stores to the flags and to the state that follow each other in the source are separate actions
(`TelPass`/`TelRun`, `TelFault`/`TelLock`, `GncReadFails`/`GncLock`), and so are the store of the profile,
the ACK and the store of the state (`TelFixProfile`/`TelAck`/`TelAdvance`). In the GNC task the look at the
state and the look at the profile are two (`GncWake`/`GncCompare`), and a payload takes four steps: it
starts as zeros with the flags and is given the state, then the profile, then its place in the queue
(`GncLoadFlags`/`GncLoadState`/`GncLoadProfile`/`GncOverwrite`), with the other core free to act between any
two of them.
The accesses are taken to happen in program order: the state is `volatile`, the flags are
atomic read-modify-writes, internal RAM is uncached on this chip, and the compiler for Xtensa
puts a memory barrier around volatile accesses. (C++ itself promises less: `g_system_state` is
not atomic.)

| Action | Code |
| --- | --- |
| `MainSetState`, `MainStartTelemetry`, `MainAbort`, `MainStartGnc` | `app_main`, with an abort when a transport cannot be initialised |
| `TelReceive`, `TelNextChannel` | `process_incoming_stream`: UART hands over what it holds, UDP one datagram |
| `TelReject`, `TelFixProfile`, `TelAck`, `TelAdvance`, `TelAckReset`, `TelRestart` | `handle_incoming_command` |
| `TelHeartbeat`, `TelDispatch`, `TelStream` | the switch of `telemetry_task_run` |
| `TelInitDriver`, `TelCalibrate`, `TelEndCalibration`, `TelReportPass`, `TelPass`, `TelRun`, `TelFault`, `TelLock` | the BIST case, with `calibrate_biases` one sample per step |
| `GncWake` ... `GncOverwrite` | one turn of `gnc_task_run` |
| `GroundSend`, `PowerCycle` | the environment: any command at any time, power lost at any time |

A command is a record: which message it is, whether it passes its checksum, whether it is long
enough, which id it carries. Frames are abstracted to their kind, and `sent` keeps the last one.
`accepted` is a history variable: the profiles acknowledged since boot. The heartbeat's 100 ms are
a nondeterministic choice, and so is the outcome of every I2C transfer. `GncReadOk` is
followed by `GncRecover`, which uses the bus once more, whenever FDIR may find the sensor stuck, which is
`Fdir`'s matter and a choice here. `GncWake` has no cause
but the state: the 20 ms time-out of `ulTaskNotifyTake` lets the task go on without any
notification.

### FlightFSM

The two shared variables alone. The state moves along the table or restarts, the profile is
fixed once while the system waits for it, and the self test needs a profile. `FlightCore`
implements it (`FsmSpec`, model-checked and proved), which is not obvious from the code: five of
the six writes of the state do not consult the table.

### Vehicle

What an operator may conclude from the frames alone: each frame that announces a change is one step with
that change, all others change nothing, and only a lock in flight and a restart happen without one. `FlightCore`
implements it (`VehicleSpec`, model-checked and proved) under this mapping: the vehicle is in the mode a
frame announces from the moment it is sent, although the flags and the state are stored afterwards
(`Mode` reads the program counter there), the profile counts as chosen from the ACK on although it is stored
before, and a lock is a failed self test or a lost sensor depending on `BIST_PASSED`. It says in
particular that no progress report follows the verdict, that a NACK never comes in between an ACK and the
change it announces, and that telemetry comes from a vehicle that is or was running.

### FdirManager and Fdir

One action of `Fdir` is one turn of the loop with a successful transfer, for one reading out of a small
set and one length of the interval since the last. A reading is an opaque value in the classes
that FDIR's thresholds distinguish (saturated, high g, free fall). The counters are those of the
code. `window` is a history variable, the newest samples with their verdicts; the properties
are stated over it, so that they say what the counters are for rather than what they are.

### SampleSync

Time is counted in ticks, and `Tick` is enabled only when nothing is due: no pulse, no alarm, no
end of a wait. Between two ticks the interrupts and the task come in any order. `Pulse` is
`drdy_gpio_isr_handler`, `Alarm` is `timer_watchdog_on_alarm_cb` with auto-reload, `Wake` is the
return of `ulTaskNotifyTake(pdTRUE, ...)`, which takes any number of notifications as one, and
`ReadOk` and `ReadFails` are the two ways a burst read ends: only the first feeds the timer and
moves `s_last_loop_us`. `drdyOk` and `timerOk` are the results of the initialisations, which
`gnc_task.cpp:79-81` does not look at: the model starts with each of the four combinations.

The history variables are clocks: since the last pulse that reached the processor, since the last read
began, since the first pulse no read has followed; `excuse` says that a pulse was lost or a
read failed since the timer was last fed. They stop at `Horizon`, which lies beyond every limit a
property compares them with.

### FlightProfiles, Mpu6050, Ekf and Estimator

`Mpu6050` has the sensor's registers (`dev`), the driver's statics (`drv`) and `init` as the sequence of its
register writes, `InitWrites`. `WriteReg` performs one: the sensor acts on it or misses it, and in either case
the driver goes on and sets its own scale, since nobody looks at what `write_reg` returns. `lost` is a history
variable, the writes of the present initialisation that were missed. Rates and accelerations are
integers counted in the finest scale's counts; the sensor's conversion saturates and divides by the selected
scale (`Counts`), `ScaleData` multiplies with the scale the driver believes in. A sensor asleep returns zeros.

`Ekf` is an abstraction: the quaternion, the biases and the covariance are numbers or not, and the covariance
is sound, has outgrown its diagonal, or holds a NaN. `Predicted` and `Updated` are the sets of states `predict`
and `update` may end in; the gate that takes the rates for zero at rest, the yaw bias that follows the gyroscope
there and is taken back by `update`, the limits that a NaN passes and the reset in `normalizeQuaternion` are those of
the code. That the covariance grows under rotation is `PredictStretches` of `FilterMath`; for how many
predictions without an update it stands that, `BlindLimit`, is a parameter (see section 3 for measured values).

`Estimator` composes them with `FdirManager`, whose thresholds it computes from the profile's numbers:

| Action | Code |
| --- | --- |
| `SetProfile` | a profile accepted by `handle_incoming_command` |
| `InitDriver` | one register write of `MPU6050Driver::init`, or its failing: the bus or the device cannot be created, or `verify_who_am_i` fails after the second write |
| `Calibrate` | the rest of the self test: biases from a vehicle in one of the motions `MotionsAtTest`, or a fault |
| `Turn` | a turn of `gnc_task_run` with a successful transfer: conversion, `process_sample`, recovery, `predict`, `update` |
| `Lock`, `Restart` | too many failed transfers; `esp_restart` or a panic, between two writes of `init` as well, which leaves the sensor's registers as they are |
| `PowerCycle` | the supply of both |

A motion is a rate and an acceleration, steady over the self test. Intervals are nominal here, since `Fdir` has
the others.

### FilterMath

The formulas of the filter, each a function over tuples of integers: the increment of the quaternion, the
Jacobians, the expected gravity, the direction of yaw, its removal from the gain and the inverse of a
3x3 matrix, without the scalars that divide. Its theorems are identities of polynomials with integer
coefficients; such an identity holds for all real numbers if it holds for all integers. Nothing here
speaks of rounding.

### FrameParser, FrameStream, FrameLine

One action of `FrameParser` is one case of the switch in `FrameParser::process_byte`
(`telemetry_task.cpp:162-220`), and of its twin `processIncomingByte` in the ground station
(`FlightVisualizerV2.pde:2028-2086`), which differ in the size of the buffer and in where they look at
the length. The checksum is computed, not abstracted: the properties are about which errors it
lets through.

`FrameStream` feeds the parser any sequence of bytes and keeps the newest ones in `heard`, as many as
the longest frame has. `FrameLine` sends the frames of the ground station's commands
(`sendSetProfileCmd`, `sendSystemResetCmd`) one after the other over a line that may lose, garble
or insert a byte, at most `MaxFaults` times. Histories: `intact` and `synced` say whether the frame under way
was disturbed and whether the parser was waiting when it began, `missed` counts undisturbed frames
in a row that were not handed over, `sent` keeps what was sent.

### GroundLink

| Action | Code |
| --- | --- |
| `Boot`, `PowerCycle`, `Restart` | `telemetry_task_run` until it awaits a profile; a restart forgets what was not read |
| `VehicleReceive`, `HandleIncomingCommand`, `Accepts`, `Link` | `process_incoming_stream`, `handle_incoming_command`; `WifiUdpTransport::receive` sets the destination |
| `Transmit` | `transport_send_raw`: every frame to the UART and to the one UDP destination |
| `Heartbeat`, `Report`, `BistEnds`, `Telemetry`, `Lock` | the vehicle's states and what it sends in each |
| `StationReceive`, `ScreenAfter`, `ShownAfter` | `processIncomingTraffic`, `handleReceivedPacket` |
| `Connect`, `ChooseProfile`, `ChooseOffline`, `PressReset`, `PressDemo`, `DemoRuns` | `keyPressed`, `mousePressed`, `selectProfile`, `sendSystemResetCmd`, `startDemoMode`, `updateDemoSimulation` |
| `OthersCommand` | the environment: the commands of all other stations |

A frame over Wi-Fi arrives never, once or twice and may overtake others (`Copies`, `NextOf`); on the
cable it arrives once or, garbled, never. `conn` and the link are one variable: the station has
no way to disconnect. Histories: `flown` the profiles the vehicle has run the estimator for,
`othersLast` whether another station sent the last datagram, `cut` whether an answer to a command
has ended a simulation without replacing what it had put on the screen, `quiet` that no operator
will touch a station any more.

## 3. What is checked

| Run | Checks | Bounds |
| --- | --- | --- |
| `flight_core_safety` | six invariants of `FlightCore` (`PayloadCoherent` of finished payloads, in the queue or about to enter it), the inductive invariant `IInv` they follow from, and that it implements `FlightFSM` and `Vehicle` | two profiles, all kinds of command on both channels, receive buffers of one command, 4 calibration samples, 2 I2C errors |
| `flight_core_live` | `BistConcludes`, `ResetHonoured`, `NoSilentRunning`, `CommandsAnswered` | one profile to choose and a reset, receive buffers of two commands, 3 samples, 2 errors |
| `fdir` | `RecoversWhenFrozen`, `AnomalyIsRecent`, `HighGIsLastVerdict`, the inductive invariant `FdirInv` | five readings, one of each kind and two ordinary; limits 4 and 3 |
| `sample_sync` | the inductive invariant `SyncInv`, `LossFlagged`, `SamplingContinues`, `NoLostWakeup`, `NoFalseAlarm`, `TimeKept` | 4 ticks to the period, 6 to the alarm, 16 to the time-out, 1 for a read, 4 for a failing one, 3 errors |
| `estimator` | the inductive invariant `EstimatorInv`, `OnlyLostWritesHarm`, `ReadingFaithful`, `TestLooksPerfect`, `YawBiasLocked`, `AttitudeFinite`, `SleepNoticed` | the profiles with the finest and the coarsest scales, 64 counts to the full scale, two missed writes in one initialisation, rest and a slow drift during the self test, seven motions in flight (rest, slow and fast rotation, all axes saturated, thrust, free fall, and a climb no count is a divisor of), 3 and 1 samples for FDIR's limits |
| `frame_stream` | `HandedAsHeard`, the inductive invariant `StreamInv`, which says that the buffer is not overrun | payloads of one byte; both preamble bytes, a legal length and the checksum of a frame |
| `frame_line` | `RecoveryBounded`, `SyncedDelivers`, `NothingForged` | the profiles 1 and 4, whose frames are the most easily taken for one another, and the reset; payloads of up to three bytes, two disturbed bytes out of all that occur in the five commands, the limits of the length and 0 and 255 |
| `ground_link` | `RunningShowsFlown`, the inductive invariant `LinkInv`, `ScreenCatchesUp`, `InsistenceHeard`, `SettledStays` | two profiles, one command and two frames under way, every command of other stations |

What they show, in the terms of the hazards: no interleaving of the cores, of commands, failures
and power cycles brings both onto the bus, shows a state without its flags or lets the ground
hear of a state the vehicle is not in; the counters of FDIR mean what they are named for; a loop
that loses its pulses goes on at the timer's pace and one that loses the timer as well at the
time-out's; a register write the sensor missed does not spoil another one, and a sensor that
was never woken, which passes the self test and then reads like one perfectly at rest, is reported
by the stuck-data watchdog; two wrong bytes do not stop the parser and one makes up no command; the screen and the
vehicle agree in the end.

`NothingForged` says one byte because two can: with a 1 inserted before the payload of the frame that chooses profile 4
(`AA 55 02 01 04 07 0C`) and 9 for its checksum byte 07, the vehicle hears `AA 55 02 01 01 04 09`, takes `04 09` for the
checksum of profile 1, which it is, and acknowledges that profile. TLC finds it when the limit in `NothingForged` is
raised to two faults. The repository promises nothing here; the acknowledgement, which names no profile, does not
tell the ground station either.

`TestLooksPerfect` is worth a second look. It is a property of the code that is proved and that one would
rather not have: a vehicle that moves as during the calibration reads exactly 0 dps and 1 g upwards
whatever the registers hold, so no check at rest, neither a stricter self test on calibrated samples nor
FDIR's thresholds, could tell a sensor with the wrong scale, and `is_calibrated` says nothing of the sensor.
`SleepNoticed` names the one that is noticed all the same.

The bounds are small because the code is uniform in them. A profile is only compared with
another one, so two suffice; a counter is only compared with its limit, and each limit leaves
room for below, at and after; a receive buffer of one command is refilled at any time, so
longer sequences of commands occur all the same, and `flight_core_live` has two in one buffer, which is
what the order of the answers needs. With two frames under way one can overtake the
other and be doubled. For a parser of payloads up to three bytes, as for one up to 128, a false frame
covers several true ones (`MissLimit`). Four ticks to the period let a pulse, an alarm and the end of a read
fall together and apart; with a read of two ticks, half a period, `NoFalseAlarm` fails, so the slack of
`timer_watchdog_init` is as large as it has to be. In `estimator` most motions are
multiples of the coarsest count; `Drifting` and `Climbing` are not, and are rounded up and down. With 64 counts each
of the scales is saturated by some motion and not by another; two missed writes are two that could hide or repair one another;
FDIR's limits keep the order of the code's 20 and 25. The proofs of section 4 hold for all bounds.

`RunningShowsFlown` has an exception, `cut`, without which it fails: any frame ends a simulation
(`FlightVisualizerV2.pde:2090`), and an ACK or NACK leaves the simulated values on a dashboard that is no
longer marked as a simulation until telemetry or a heartbeat follows.

### Where the repository and its code disagree

Four runs end in a violation, each of one statement of the repository that `PROJECT.json` quotes:

* `HardFaultReported`: a lock in flight is announced by no frame, although the ground station has a screen
  for it. (`UI_STATE_HARD_FAULT` is in fact assigned nowhere, and `bistCode` is never drawn.)
* `FrozenSampleRejected`: FDIR accepts the samples of a frozen sensor again after each reset.
* `BistScreenTellsProfile`: the screen of the self test does not show the profile just fixed.
* `CovarianceRepaired`: the design document has a NaN in the covariance answered by a new covariance;
  nothing in the code looks at it. How long it takes, measured by running `ekf.cpp` on a host: with the
  accelerometer rejected and the gyroscope at its full scale the off-diagonal elements have outgrown
  the diagonal's limits after 60 to 90 s (MISSILE_HIGH_G, DRONE_ACRO), and accelerometer samples that are
  accepted afterwards drive P to infinity and NaN. With every sample fused P stays sound at any rate.

Smaller ones, by reading alone:

* the jitter supervisor (`fdir_manager.cpp:57`) never sees an interval above three periods, which
  `gnc_task.cpp:114` has replaced by the nominal one;
* failing reads alone raise the flag that `safety_types.hpp:15` explains by lost pulses (`timer_watchdog.cpp:32`
  does not know why it was not fed); `NoFalseAlarm` says when it may go up;
* one saturated axis never exceeds 1.05 full scales (`fdir_manager.cpp:50`), so its samples are accepted;
* `init` logs the sensor as configured (`mpu6050_driver.cpp:166`) when every write has been missed but
  WHO_AM_I answers;
* `SMPLRT_DIV` divides 1000 Hz (`mpu6050_driver.cpp:125`), but with MISSILE_HIGH_G's DLPF setting 0 the
  sensor's base rate is 8 kHz;
* the calibration looks at the number of answers, never at noise, although the code it reports then is
  `IMU_NOISE_EXCESSIVE` and `ESQUEMA_PROYECTO_FLIGHT_ESTIMATOR_V2.md:133` has it test the sensor's noise;
* the profiles' `q_process_gyro` and `r_measure_accel` are read by nobody: `setProfile` has numbers of its own;
* with the gyroscope at rest F is not the identity (`ekf.cpp:135`): the block F_qb does not depend on the rates;
* `HEALTH_FLAG_EKF_CONVERGED` is raised at the end of the self test, before any
  estimator exists (`safety_types.hpp:14`, `telemetry_task.cpp:341`), and never withdrawn;
* the README's limit of five I2C errors (`README.md:66`) is 25 in the code;
* the timer runs for 1.5 periods where `ESQUEMA_PROYECTO_FLIGHT_ESTIMATOR_V2.md` says 1.2.

### Fairness

* `FlightCore` (`LiveSpec`): weak fairness of each of the three tasks. FreeRTOS runs a task that is
  ready unless one of higher priority is; the telemetry task blocks in every turn of its loop, so
  `app_main` gets core 0, and the GNC task is alone on core 1. Nothing is assumed of the ground, of
  the outcome of transfers or of power.
* `GroundLink`: weak fairness of `Boot`, `BistEnds`, `VehicleReceive` and `StationReceive`, which are
  loops of the two programs (that the self test ends is `BistConcludes`); strong fairness of a heartbeat
  or telemetry frame that gets through. The last is the assumption that a link which is given the same frame again and
  again does not lose all of them; without it no property of the ground's knowledge could hold.
  No fairness for operators, other stations, power or commands: `ScreenCatchesUp` and `InsistenceHeard`
  state what they need of these as hypotheses.
* `Estimator`: weak fairness of `Turn`, the loop of a running system. That it goes on is `SamplingContinues`, that
  it is not stopped by failing transfers without a lock is `NoSilentRunning`. Nothing is assumed of motions.
* `SampleSync` has safety properties with time in them and needs none.

## 4. What is proved

`FlightCore_proofs`, for every set of profiles, error limit, number of calibration samples,
report interval, buffer size and set of commands the ground may send:

* `Invariance`: `IInv` holds in every reachable state. The safety invariants are not inductive.
  That the bus is used by one task needs to know that the telemetry task is in the self test
  only while the state is BIST_AND_CALIBRATION (`OwnerInv`), that nobody else moves the state away
  from there, that the GNC task is active in RUNNING_ESTIMATOR only; what the flags say needs to know
  which program counter lies between a store to the flags and the store to the state
  (`FlagsInv`); what the ground has heard needs both (`SentInv`). `CoreInv` is the conjunction of these
  parts, one per kind of knowledge; `InitInv`, `RestartInv` and one lemma per group of actions
  show it inductive. `BufferInv` adds what the task holds of the commands it has read, and
  where, and `RoomInv` what the receive buffers hold.
* `TypeCorrect`, `BusExclusion`, `CalibratedUse`, `AckBinds`, `HealthCoherent`, `PayloadsCoherent`,
  `DownlinkIsTruthful` follow from it, one per safety invariant. That a payload's three loads agree is not a
  matter of one step: `PayloadInv` says what each load has left in the unfinished payload, `FlagsInv` and
  `OwnerInv` that the flags and the state still stand when the next one comes, and `LoadStep` shows
  the second and the third load.
* `Refinement`: `Spec => FsmSpec`, from `FsmStep`: under `IInv` every write of the state is one the
  table allows.
* `VehicleAsSeen`: `Spec => VehicleSpec`. Under the mapping a step that sends a frame changes the mode and
  the stores that follow stutter; `VehicleStep` shows it action by action, and `IInv` provides what the
  mapping cannot see, which frame was sent before a store (`SentInv`) and whether the self test had been
  passed (`FlagsInv`).
* `EveryCommandAnswered`: `Spec => CommandsAnswered`. A channel's commands are those the task has read of it and
  those behind; `BufferInv` makes the two one queue, which only grows at its end and only shrinks at its
  head, by a command the newest frame answers. `Receive` moves them, a restart alone drops them.
* `TurnEnds`: `Spec => TurnShrinks`. `TurnLeft` is a variant of the telemetry task's loop: a natural number that each of its
  steps lowers and no other step raises, until the next turn begins. A turn takes at most 18 steps, three for each
  command the UART held and one for each sample; commands that arrive meanwhile wait for the next one (`RoomInv`
  bounds what `receive` takes at once).
* `TestEnds`: `Spec => TestShrinks`. The self test is over within one turn: `BufferInv` says that none begins before the
  state has changed. Fairness of the task is all that `BistConcludes` needs on top.
* `SilenceEnds`: `Spec => SilenceShrinks`. `SilenceLeft` is the variant of a running estimator that has nothing queued: each
  step of the GNC task lowers it, a failed transfer by what it takes off the error limit.

`Fdir_proofs`, for every set of readings and all limits (`FdirAssumption`):

* `FdirInvariance`: the counters describe the window (`StuckInv`: the newest `stuckSamples` samples are
  the last reading, the one before is not or ended in a reset; `NominalInv`: the same for suspect
  samples). `PushFacts` and `WindowStep` say what a new sample does to the window.
* `StuckWatchdog`, `AnomalyFilter`, `GateVerdict`, `FdirTypes` follow.

`FrameStream_proofs`, for every set of bytes that may arrive and every buffer of 1 to 256 bytes, the
vehicle's 128 and the ground station's 256 among them:

* `Invariance`: `StreamInv` holds. `HandedAsHeard` is a statement about the last byte of a frame and needs
  to know what the parser's state says of the bytes before: `PreambleInv` and `FrameInv` say it
  state by state, `HeardStep` what a new byte does to the window. `TypeStep`, `PreambleStep`, `FrameStep` and
  `HandOver` show one part each, action by action.
* `TypeCorrect` (the payload never outgrows its buffer, a part of `StreamInv`) and `HandsOverWhatWasHeard` follow.

`FrameLine_proofs`, for every set of messages that fit the buffer, any noise, any size of the buffer and any number of
disturbed bytes:

* `Synced`: a parser that waits for a preamble misses no undisturbed frame. `SyncedInv` says how far the parser is
  in the frame for each number of bytes that have arrived (`FollowsFrame`); `WireFacts` takes the frame
  apart, `FollowStep` and `LastStep` show one byte. What the checksum computes does not matter here, only that both
  ends compute the same.
* `RecoversInTime`: after the last disturbance at most `MissLimit` undisturbed frames in a row are missed, none before the
  first. Counting missed frames alone is not inductive: `RecoveryInv` (with `OutOfStep`) weighs them
  against what the parser still takes for a frame. Each missed frame lies within one false frame, which
  eats six bytes per frame out of the `MaxPayload + 3` it may claim, and when it is over the parser waits for a preamble.
  This needs `PreambleAssumption`: no frame holds the first preamble byte a second time. The
  station's frames do not: ids are 2 and 6, lengths 0 and 1, payloads 1 to 4, and the bytes of their checksums at most 12;
  TLC evaluates the assumption for them.
* `GarbledByteRefused`, `GarbledPairRefused`: what the checksum is worth. For a command of any length, garbling its id or one byte
  of its payload, or two neighbouring bytes, leads to other sums, unless 0 and 255 are exchanged.
  One byte moves the first sum; two whose sum stays the same move the second, which weighs each by its place.
  `Sums` is a recursive function of the number of bytes, and that two of its courses stay apart once they have
  parted is shown with the least number at which they do not, since no induction theorem can be used.

* `OneByteForgesNothing`: `NothingForged`, for every noise and buffer size and all of the station's five commands
  (`Messages \subseteq StationCommands`). What one byte can do is said by `Strayed`, state by state of the parser: a
  command that is not the one sent comes about only by garbling the id, the length or the payload, by reading one of
  them twice or by skipping one, and the frame's further bytes then lie at a known place (`Places`). Its checksum is
  another one than those bytes (`ShortChecksum` computes the sums of messages of one and two bytes), with one
  exception: profile 4 heard as profile 1 has the first sum right and the second wrong, which is why a second wrong byte
  is enough. `ByteStrays` and `LossStrays` show the step that disturbs, `StrayGoesOn` the undisturbed ones
  after it, `HandOver` the last byte.

`SampleSync_proofs`, for every period, time-out and length of reads with
`PaceAssumption`, the proportions of the code: one and a half periods are less than the time-out, and a
period and a read are less than one and a half periods:

* `ClocksHold`: `SyncInv` holds. None of the properties is inductive, because each compares a clock of the histories
  with a limit, and why it is not exceeded depends on what the loop is doing. `SyncInv` gives, for the loop waiting, woken
  and reading, how far each clock may be ahead of the timer, of the phase or of the time spent; one lemma per action.
* `LossIsFlagged`, `NeverStarved`, `WakeupKept`, `FlagMeansTrouble`, `IntegratesRealTime` follow, the last
  two as properties of steps.

`Estimator_proofs`, for every set of the code's profiles, every offset, scale, motion and limit
(`Nominal + 1 < MaxStuck`, as 20 and 25 are), any number of missed writes:

* `EstimatorSound`: `EstimatorInv` holds. `WritesInv` counts what `init` has written so far and was not missed,
  which makes `OnlyLostWritesHarm` inductive: the reset comes first and the others write one register each.
  `BiasInv` ties the biases to the registers they were taken with, which no step of a running system changes.
  `RestIsFused` is the fact behind `YawBiasLocked`: what the GNC loop takes for rest lies within the G-gate of each of
  the four profiles.
* `OnlyLostWrites`, `TestIsBlind`, `YawLocked`, `AttitudeOfNumbers` follow.
* `FaithfulReadings`: a reading is the motion relative to the self test's, to less than one count of the selected
  scale in either direction. `ScalesInv` says that the driver believes in the profile's scale, so the scale
  divided by and the one multiplied with are the same when the write was not missed; the offset then cancels up to
  what the two divisions have cut off (`CutsCancel`).
* `SleepIsCounted`: `Spec => SleepCounted`, every sample of a sensor that was never woken raises the
  anomaly or brings the stuck-data watchdog one closer. `AsleepInv` is why: its reading is that at rest,
  always, and the supervision begins with none.

`FilterMath_proofs`, for all integers, from no assumption:

* `PredictStretches`: a prediction lengthens the quaternion, and what F_qq is applied to, by exactly 1 + (rate * step)^2,
  step being half the interval. So no quaternion collapses in `predict`, and the covariance grows under rotation.
* `JacobianOfRotation`, `JacobianOfBias`, `JacobianOfGravity`: the three blocks are the derivatives of the code's own
  integration and projection, signs included; `GravityIsUnit` makes the residual one of unit vectors.
* `YawIsRotation`, `YawUnobservable`, `DecouplingKeepsTilt`: `nq` is the direction of yaw in every attitude and never
  zero, the accelerometer sees nothing of it, and taking it out of the gain leaves the correction of the tilt as it was.
* `AdjointInverts`: the nine expressions of `inverse3x3` are right, from either side.

`GroundLink_proofs`, for every set of profiles, whatever other stations send and any number of
commands and frames under way:

* `Invariance`: `LinkInv` holds. That the dashboard shows a flown profile needs that no frame under way
  tells of another (`down \in Seq(HonestFrames)`), which needs that the vehicle only runs the estimator with a
  profile in `flown`. `EnqueueType` and `RemoveType` say what the link does to a queue; the
  step is shown for the commands, the vehicle and the station in turn.
* `TypeCorrect` and `DashboardIsReal` follow.
* `SettledForGood`: `Spec => SettledStays`. Once the operators are quiet, the screen agrees with a vehicle that waits or flies and
  only true frames are under way, no step but one of the vehicle's state moves the screen: late commands are
  refused, and the screen does not follow their answers.

The assumptions are the named ones of the modules: the limits are positive, NoProfile is not a
profile, the sentinel is not a reading (-9999 is outside the scaled range), a sensor is stuck
after two samples at the least, the profile shown first is one, and the bad id is none.

Only model-checked: the liveness properties, since the prover has no ENABLED. What they need besides fairness is
proved where it is more than a step: `TestEnds` for `BistConcludes`, `SilenceEnds` and `TurnEnds` for the two halves of
`NoSilentRunning`, `TurnEnds` and `EveryCommandAnswered` for `ResetHonoured` (the task comes back to both channels, and takes
each one's commands in their order), `SleepIsCounted` for `SleepNoticed`, `SettledForGood` for `ScreenCatchesUp`.
(`TurnShrinks`, `TestShrinks`, `SilenceShrinks` and `SleepCounted`, which state these, are no run's properties: the runs check
what follows from them.) Every safety invariant and action property of a run is proved. The violations are runs only.

## 5. Not modelled

* The pace of the UART: frames are written without a transmit buffer, at the pace of the estimator, on a port the console
  shares (`transport_uart.cpp:42`). Whether they fit is a matter of bytes per second, and no frame of the model has a duration.
* How long `processUdp` may read before the ground station draws again (`FlightVisualizerV2.pde:2004`): milliseconds
  between datagrams, as above.
* That the ground station offers no connection any more after R on the first screen or a failed attempt
  (`FlightVisualizerV2.pde:1844`): the model has the paths, no statement of the repository is about them.
* One saturated axis (`fdir_manager.cpp:50`): the model has it (`Counts` saturates), and no property is about it,
  since the code promises nothing there.
* Rounding in floating point (the sensor's to counts is modelled), the values of Q and R, convergence and accuracy of the filter: floating point is beyond both
  tools. `Ekf` keeps which numbers are numbers, `FilterMath` the exact formulas.
* The time the rest of a turn takes: in `SampleSync` the loop waits again as soon as the timer is fed. The computation
  takes tens of microseconds (`PayloadTelemetry` reports it as `wcet_us`) and `reset_signal_path`, when FDIR finds the
  sensor stuck, two more transfers of three bytes, which take up to 4 ms each should they fail. A pulse in that time stays pending like one during a
  read; the interval to the next read may be longer by it, the timer is not fed again before that.
* Drawing and the simulated values of the demo: no state the protocol depends on.
* NVS and the Wi-Fi, GPIO, timer and I2C drivers of ESP-IDF: by their results. Registers of the MPU6050 that are not
  written, or only with the value they hold after a reset (`INT_PIN_CFG`), and its temperature.
* Functions nobody calls: `drdy_sync_enable`, `drdy_sync_disable`, `timer_watchdog_stop`, `setAdaptiveR`, the blocks of the
  matrices, and the statistics of FDIR, which tests alone read. Guards that cannot be met: `predict`'s on the interval and
  `update`'s on the length of the acceleration.
* Tests, CI and build files, which are read as statements about the code.

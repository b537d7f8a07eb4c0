------------------------------- MODULE FlightCore -------------------------------
(***************************************************************************)
(* The firmware's control core: app_main, the telemetry task (core 0) and  *)
(* the GNC task (core 1), which share g_system_state, g_active_profile,    *)
(* g_health_flags, the MPU6050 driver with its calibration and a telemetry *)
(* queue of one element.                                                   *)
(*                                                                         *)
(* Each task has a program counter and one action per stretch of code in   *)
(* which it touches shared state once (or twice with no point at which the *)
(* other task could tell): the tasks run on two cores, so any interleaving *)
(* of these actions can happen.  Numbers in comments are source lines.     *)
(*                                                                         *)
(* Left out here: the bytes of a frame (a command arrives whole or fails   *)
(* its checksum), FDIR's signal supervisors and the EKF (Estimator), the   *)
(* notification that ends ulTaskNotifyTake early (the 20 ms timeout lets   *)
(* the task go on at any time, so GncWake needs no cause).                 *)
(***************************************************************************)
EXTENDS Integers, Sequences, FlightTypes

CONSTANTS
    MaxI2cErrors,     \* MAX_CONSECUTIVE_I2C_ERRORS
    CalSamples,       \* sample_count of calibrate_biases
    ReportInterval,   \* sample_count / 20 there
    InboxCap,         \* bound: commands a receive buffer holds
    GroundCommands    \* bound: the commands the ground station may send

\* A command as the frame parser hands it over.  id matters to set_profile only:
\* NoProfile stands there for every id outside 1..4.
Commands ==
    [msg : {"set_profile"}, id : Profiles \cup {NoProfile}] \cup
    [msg : {"short_set_profile", "system_reset", "unknown", "bad_checksum"},
     id  : {NoProfile}]

ASSUME ConstantsAssumption ==
    /\ MaxI2cErrors \in Nat \ {0}
    /\ CalSamples \in Nat \ {0}
    /\ ReportInterval \in Nat \ {0}
    /\ InboxCap \in Nat
    /\ GroundCommands \subseteq Commands

Channels == {"uart", "wifi"}

\* The health flags the core reads or writes; module FdirManager has the others.
Flags == {"TELEMETRY_STREAMING", "IMU_OK", "BIST_PASSED", "EKF_CONVERGED", "HARD_FAULT"}

Payloads == [state : SystemStates, profile : Profiles \cup {NoProfile},
             flags : SUBSET Flags]

Heartbeat(state)       == [kind |-> "HEARTBEAT_AWAIT_PROFILE", state |-> state]
AckNack(msg, status)   == [kind |-> "ACK_NACK", ref |-> msg, status |-> status]
BistReport(code, pct)  == [kind |-> "BIST_REPORT", code |-> code, pct |-> pct]
Telemetry(payload)     == [kind |-> "ESTIMATOR_TELEMETRY", payload |-> payload]
NoFrame                == [kind |-> "NONE"]

VARIABLES
    sysState, profile, flags,
    queue,        \* g_telemetry_queue: the set of its elements, at most one
    sent,         \* the frame transport_send_raw put on both channels last
    accepted,     \* history: the profiles acknowledged to the ground since boot
    inbox,        \* what UART and the UDP socket have received, per channel
    mainPc,
    telPc,        \* where the telemetry task is
    rxChan,       \* the channel process_incoming_stream is working on
    rxBuf,        \* what is left of the commands it read from there
    driver,       \* the profile MPU6050Driver::init configured
    calibrated,   \* s_calibration.is_calibrated
    calDone,      \* i in calibrate_biases
    calValid,     \* valid_samples there
    gncPc,        \* where the GNC task is
    gncProfile,   \* current_profile of gnc_task_run
    i2cErrors,    \* s_consecutive_i2c_errors
    payload       \* the payload gnc_task_run is putting together, at most one

shared   == <<sysState, profile, flags, queue>>
ground   == <<sent, accepted, inbox>>
telVars  == <<telPc, rxChan, rxBuf>>
imuVars  == <<driver, calibrated, calDone, calValid>>
gncVars  == <<gncPc, gncProfile, i2cErrors, payload>>
vars     == <<shared, ground, mainPc, telVars, imuVars, gncVars>>

TelPcs == {"off", "receive", "handle", "ack", "advance", "reset", "dispatch", "stream",
           "bist_init", "calibrate", "bist_report", "bist_pass", "bist_run",
           "bist_fault", "bist_lock"}

GncPcs == {"off", "wait", "compare", "configure", "read", "lock", "recover",
           "load_flags", "load_state", "load_profile", "overwrite"}

Init ==
    /\ sysState = "UNINITIALIZED"
    /\ profile = NoProfile
    /\ flags = {}
    /\ queue = {}
    /\ sent = NoFrame
    /\ accepted = {}
    /\ inbox = [ch \in Channels |-> <<>>]
    /\ mainPc = "nvs"
    /\ telPc = "off"
    /\ rxChan = "uart"
    /\ rxBuf = <<>>
    /\ driver = NoProfile
    /\ calibrated = FALSE
    /\ calDone = 0
    /\ calValid = 0
    /\ gncPc = "off"
    /\ gncProfile = NoProfile
    /\ i2cErrors = 0
    /\ payload = {}

\* esp_restart, an abort or a power cycle: all the state is in RAM and starts anew.
Restart ==
    /\ sysState' = "UNINITIALIZED"
    /\ profile' = NoProfile
    /\ flags' = {}
    /\ queue' = {}
    /\ sent' = NoFrame
    /\ accepted' = {}
    /\ inbox' = [ch \in Channels |-> <<>>]
    /\ mainPc' = "nvs"
    /\ telPc' = "off"
    /\ rxChan' = "uart"
    /\ rxBuf' = <<>>
    /\ driver' = NoProfile
    /\ calibrated' = FALSE
    /\ calDone' = 0
    /\ calValid' = 0
    /\ gncPc' = "off"
    /\ gncProfile' = NoProfile
    /\ i2cErrors' = 0
    /\ payload' = {}

(***************************************************************************)
(* app_main                                                                *)
(***************************************************************************)

\* NVS is ready (16-22; a failure aborts and restarts), then the initial state (25-26).
MainSetState ==
    /\ mainPc = "nvs"
    /\ mainPc' = "telemetry"
    /\ flags' = {"TELEMETRY_STREAMING"}
    /\ sysState' = "AWAITING_PROFILE"
    /\ UNCHANGED <<profile, queue, ground, telVars, imuVars, gncVars>>

MainStartTelemetry ==
    /\ mainPc = "telemetry"
    /\ mainPc' = "gnc"
    /\ telPc' = "receive"
    /\ UNCHANGED <<shared, ground, rxChan, rxBuf, imuVars, gncVars>>

\* ESP_ERROR_CHECK of a transport's init (252, 255) fails: abort.
MainAbort ==
    /\ mainPc = "telemetry"
    /\ Restart

MainStartGnc ==
    /\ mainPc = "gnc"
    /\ mainPc' = "suspended"
    /\ gncPc' = "wait"
    /\ UNCHANGED <<shared, ground, telVars, imuVars, gncProfile, i2cErrors, payload>>

MainTask == MainSetState \/ MainStartTelemetry \/ MainAbort \/ MainStartGnc

(***************************************************************************)
(* Telemetry task: incoming commands                                       *)
(***************************************************************************)

\* UART hands over all it holds, the UDP socket one datagram per call.
TelReceive ==
    /\ telPc = "receive"
    /\ telPc' = "handle"
    /\ IF rxChan = "uart" \/ inbox[rxChan] = <<>>
       THEN /\ rxBuf' = inbox[rxChan]
            /\ inbox' = [inbox EXCEPT ![rxChan] = <<>>]
       ELSE /\ rxBuf' = <<Head(inbox[rxChan])>>
            /\ inbox' = [inbox EXCEPT ![rxChan] = Tail(@)]
    /\ UNCHANGED <<shared, sent, accepted, mainPc, rxChan, imuVars, gncVars>>

TelNextChannel ==
    /\ telPc = "handle"
    /\ rxBuf = <<>>
    /\ IF rxChan = "uart" THEN rxChan' = "wifi" /\ telPc' = "receive"
                          ELSE rxChan' = "uart" /\ telPc' = "dispatch"
    /\ UNCHANGED <<shared, ground, mainPc, rxBuf, imuVars, gncVars>>

\* Mutant of Rejection: the immutability rule is not checked.
RejectionInAnyState(c, state) ==
    CASE c.msg = "bad_checksum"      -> {"NACK_CHECKSUM_ERROR"}
      [] c.msg = "unknown"           -> {"NACK_UNKNOWN_CMD"}
      [] c.msg = "short_set_profile" -> {"NACK_INVALID_PARAM"}
      [] c.msg = "set_profile" /\ c.id \notin Profiles -> {"NACK_INVALID_PARAM"}
      [] OTHER                       -> {}

\* The NACKs a command earns in a state; handle_incoming_command tests the
\* length, then the state, then the id.  Empty when the command is carried out.
Rejection(c, state) ==
    CASE c.msg = "bad_checksum"      -> {"NACK_CHECKSUM_ERROR"}
      [] c.msg = "unknown"           -> {"NACK_UNKNOWN_CMD"}
      [] c.msg = "short_set_profile" -> {"NACK_INVALID_PARAM"}
      [] c.msg = "set_profile" /\ state # "AWAITING_PROFILE" -> {"NACK_INVALID_STATE"}
      [] c.msg = "set_profile" /\ state = "AWAITING_PROFILE"
                               /\ c.id \notin Profiles       -> {"NACK_INVALID_PARAM"}
      [] OTHER                       -> {}

TelReject ==
    /\ telPc = "handle"
    /\ rxBuf # <<>>
    /\ \E status \in Rejection(Head(rxBuf), sysState) :
          sent' = AckNack(Head(rxBuf).msg, status)
    /\ rxBuf' = Tail(rxBuf)
    /\ UNCHANGED <<shared, accepted, inbox, mainPc, telPc, rxChan, imuVars, gncVars>>

TelFixProfile ==
    /\ telPc = "handle"
    /\ rxBuf # <<>>
    /\ Head(rxBuf).msg = "set_profile"
    /\ Rejection(Head(rxBuf), sysState) = {}
    /\ profile' = Head(rxBuf).id
    /\ telPc' = "ack"
    /\ UNCHANGED <<sysState, flags, queue, ground, mainPc, rxChan, rxBuf, imuVars, gncVars>>

TelAck ==
    /\ telPc = "ack"
    /\ sent' = AckNack("set_profile", "ACK")
    /\ accepted' = accepted \cup {Head(rxBuf).id}
    /\ telPc' = "advance"
    /\ UNCHANGED <<shared, inbox, mainPc, rxChan, rxBuf, imuVars, gncVars>>

\* Mutant of TelAdvance: what came behind the command that fixed the profile is thrown away.
TelAdvanceAlone ==
    /\ telPc = "advance"
    /\ sysState' = IF <<sysState, "BIST_AND_CALIBRATION">> \in ValidTransition
                   THEN "BIST_AND_CALIBRATION" ELSE sysState
    /\ rxBuf' = <<>>
    /\ telPc' = "handle"
    /\ UNCHANGED <<profile, flags, queue, ground, mainPc, rxChan, imuVars, gncVars>>

TelAdvance ==
    /\ telPc = "advance"
    /\ sysState' = IF <<sysState, "BIST_AND_CALIBRATION">> \in ValidTransition
                   THEN "BIST_AND_CALIBRATION" ELSE sysState
    /\ rxBuf' = Tail(rxBuf)
    /\ telPc' = "handle"
    /\ UNCHANGED <<profile, flags, queue, ground, mainPc, rxChan, imuVars, gncVars>>

TelAckReset ==
    /\ telPc = "handle"
    /\ rxBuf # <<>>
    /\ Head(rxBuf).msg = "system_reset"
    /\ sent' = AckNack("system_reset", "ACK")
    /\ telPc' = "reset"
    /\ UNCHANGED <<shared, accepted, inbox, mainPc, rxChan, rxBuf, imuVars, gncVars>>

TelRestart ==
    /\ telPc = "reset"
    /\ Restart

(***************************************************************************)
(* Telemetry task: emission by system state (291-370)                      *)
(***************************************************************************)

\* Mutant of HeartbeatStates: the heartbeat goes on after the profile is fixed.
HeartbeatStatesAll == SystemStates

HeartbeatStates == {"AWAITING_PROFILE"}

\* The heartbeat goes out when 100 ms have passed since the last one.
TelHeartbeat ==
    /\ telPc = "dispatch"
    /\ sysState \in HeartbeatStates
    /\ \E due \in BOOLEAN : sent' = IF due THEN Heartbeat(sysState) ELSE sent
    /\ telPc' = "receive"
    /\ UNCHANGED <<shared, accepted, inbox, mainPc, rxChan, rxBuf, imuVars, gncVars>>

TelEnter(state, pc) ==
    /\ telPc = "dispatch"
    /\ sysState = state
    /\ telPc' = pc
    /\ UNCHANGED <<shared, ground, mainPc, rxChan, rxBuf, imuVars, gncVars>>

\* Mutant of TelDispatch: the task ends when the system locks.
TelDispatchHalts ==
    \/ TelEnter("BIST_AND_CALIBRATION", "bist_init")
    \/ TelEnter("RUNNING_ESTIMATOR", "stream")
    \/ TelEnter("HARD_FAULT_LOCK", "off")

\* In HARD_FAULT_LOCK the task only waits, and goes on receiving.
TelDispatch ==
    \/ TelEnter("BIST_AND_CALIBRATION", "bist_init")
    \/ TelEnter("RUNNING_ESTIMATOR", "stream")
    \/ TelEnter("HARD_FAULT_LOCK", "receive")

\* xQueueReceive: an element, or none within 20 ms.
TelStream ==
    /\ telPc = "stream"
    /\ sent' \in IF queue = {} THEN {sent} ELSE {Telemetry(p) : p \in queue}
    /\ queue' = {}
    /\ telPc' = "receive"
    /\ UNCHANGED <<sysState, profile, flags, accepted, inbox, mainPc, rxChan, rxBuf,
                   imuVars, gncVars>>

(***************************************************************************)
(* Telemetry task: self test and calibration (310-351)                     *)
(***************************************************************************)

TelInitDriver ==
    /\ telPc = "bist_init"
    /\ \/ /\ telPc' = "calibrate"
          /\ driver' = profile
          /\ UNCHANGED sent
       \/ /\ telPc' = "bist_fault"
          /\ sent' = BistReport("IMU_COMM_FAIL", 0)
          /\ UNCHANGED driver
    /\ UNCHANGED <<shared, accepted, inbox, mainPc, rxChan, rxBuf, calibrated, calDone,
                   calValid, gncVars>>

\* Mutant of Progress: the sample just taken counts.
ProgressInclusive(i) == ((i + 1) * 100) \div CalSamples

Progress(i) == (i * 100) \div CalSamples

\* Mutant of Counted: a failed transfer starts the calibration over, without limit.
CountedStartingOver(ok) ==
    IF ok THEN calDone' = calDone + 1 /\ calValid' = calValid + 1
          ELSE calDone' = 0 /\ calValid' = 0

\* i and valid_samples after a transfer.
Counted(ok) ==
    /\ calDone' = calDone + 1
    /\ calValid' = IF ok THEN calValid + 1 ELSE calValid

TelCalibrate ==
    /\ telPc = "calibrate"
    /\ calDone < CalSamples
    /\ \E ok \in BOOLEAN : Counted(ok)
    /\ sent' = IF calDone % ReportInterval = 0 \/ calDone = CalSamples - 1
               THEN BistReport("OK", Progress(calDone)) ELSE sent
    /\ UNCHANGED <<shared, accepted, inbox, mainPc, telVars, driver, calibrated, gncVars>>

TelEndCalibration ==
    /\ telPc = "calibrate"
    /\ calDone = CalSamples
    /\ IF calValid < CalSamples \div 2
       THEN /\ telPc' = "bist_fault"
            /\ sent' = BistReport("IMU_NOISE_EXCESSIVE", 0)
            /\ UNCHANGED calibrated
       ELSE /\ telPc' = "bist_report"
            /\ calibrated' = TRUE
            /\ UNCHANGED sent
    /\ UNCHANGED <<shared, accepted, inbox, mainPc, rxChan, rxBuf, driver, calDone,
                   calValid, gncVars>>

TelReportPass ==
    /\ telPc = "bist_report"
    /\ sent' = BistReport("OK", 100)
    /\ telPc' = "bist_pass"
    /\ UNCHANGED <<shared, accepted, inbox, mainPc, rxChan, rxBuf, imuVars, gncVars>>

\* A store to the health flags and the store to the state that follows it are two
\* steps: the other core reads the state to decide what it may do.
TelPass ==
    /\ telPc = "bist_pass"
    /\ flags' = flags \cup {"IMU_OK", "BIST_PASSED", "EKF_CONVERGED"}
    /\ telPc' = "bist_run"
    /\ UNCHANGED <<sysState, profile, queue, ground, mainPc, rxChan, rxBuf, imuVars, gncVars>>

TelRun ==
    /\ telPc = "bist_run"
    /\ sysState' = "RUNNING_ESTIMATOR"
    /\ telPc' = "receive"
    /\ UNCHANGED <<profile, flags, queue, ground, mainPc, rxChan, rxBuf, imuVars, gncVars>>

\* Mutant of FaultFlags: HARD_FAULT is not raised.
FaultFlagsAsTheyWere == flags

FaultFlags == flags \cup {"HARD_FAULT"}

TelFault ==
    /\ telPc = "bist_fault"
    /\ flags' = FaultFlags
    /\ telPc' = "bist_lock"
    /\ UNCHANGED <<sysState, profile, queue, ground, mainPc, rxChan, rxBuf, imuVars, gncVars>>

TelLock ==
    /\ telPc = "bist_lock"
    /\ sysState' = "HARD_FAULT_LOCK"
    /\ telPc' = "receive"
    /\ UNCHANGED <<profile, flags, queue, ground, mainPc, rxChan, rxBuf, imuVars, gncVars>>

TelemetryTask ==
    \/ TelReceive \/ TelNextChannel \/ TelReject \/ TelFixProfile \/ TelAck \/ TelAdvance
    \/ TelAckReset \/ TelRestart \/ TelHeartbeat \/ TelDispatch \/ TelStream
    \/ TelInitDriver \/ TelCalibrate \/ TelEndCalibration
    \/ TelReportPass \/ TelPass \/ TelRun \/ TelFault \/ TelLock

(***************************************************************************)
(* GNC task                                                                *)
(***************************************************************************)

\* Mutants of GncMayRun and NewProfile: nothing is checked.
GncMayRunAlways == TRUE
NewProfileIgnored == FALSE

GncMayRun == sysState = "RUNNING_ESTIMATOR"

NewProfile == gncProfile # profile

\* ulTaskNotifyTake returns; in any state but RUNNING_ESTIMATOR the task waits again.
GncWake ==
    /\ gncPc = "wait"
    /\ GncMayRun
    /\ gncPc' = "compare"
    /\ UNCHANGED <<shared, ground, mainPc, telVars, imuVars, gncProfile, i2cErrors, payload>>

GncCompare ==
    /\ gncPc = "compare"
    /\ gncPc' = IF NewProfile THEN "configure" ELSE "read"
    /\ UNCHANGED <<shared, ground, mainPc, telVars, imuVars, gncProfile, i2cErrors, payload>>

\* setProfile and FDIRManager::init, which resets the error count.
GncConfigure ==
    /\ gncPc = "configure"
    /\ gncProfile' = profile
    /\ i2cErrors' = 0
    /\ gncPc' = "read"
    /\ UNCHANGED <<shared, ground, mainPc, telVars, imuVars, payload>>

\* Mutant of Errors: the error is not counted.
ErrorsUncounted == i2cErrors

Errors == i2cErrors + 1

\* Mutant of FlagsAfterError: IMU_OK is not withdrawn.
FlagsAfterErrorKept == flags

FlagsAfterError == flags \ {"IMU_OK"}

\* read_burst_raw fails: register_i2c_error decides whether the bus is lost.
GncReadFails ==
    /\ gncPc = "read"
    /\ i2cErrors' = Errors
    /\ IF Errors >= MaxI2cErrors
       THEN flags' = FlagsAfterError \cup {"HARD_FAULT"} /\ gncPc' = "lock"
       ELSE flags' = FlagsAfterError /\ gncPc' = "wait"
    /\ UNCHANGED <<sysState, profile, queue, ground, mainPc, telVars, imuVars,
                   gncProfile, payload>>

\* Mutant of StateAfterLoss: the self test is tried again instead.
StateAfterLossRetries == "BIST_AND_CALIBRATION"

StateAfterLoss == "HARD_FAULT_LOCK"

GncLock ==
    /\ gncPc = "lock"
    /\ sysState' = StateAfterLoss
    /\ gncPc' = "wait"
    /\ UNCHANGED <<profile, flags, queue, ground, mainPc, telVars, imuVars, gncProfile,
                   i2cErrors, payload>>

FlagsAfterSuccess == flags \cup {"IMU_OK"}

\* FDIR decides on the sample (Fdir) whether the sensor is stuck.
GncReadOk ==
    /\ gncPc = "read"
    /\ i2cErrors' = 0
    /\ flags' = FlagsAfterSuccess
    /\ gncPc' \in {"recover", "load_flags"}
    /\ UNCHANGED <<sysState, profile, queue, ground, mainPc, telVars, imuVars,
                   gncProfile, payload>>

\* reset_signal_path uses the bus again; how its two writes end is not looked at.
GncRecover ==
    /\ gncPc = "recover"
    /\ gncPc' = "load_flags"
    /\ UNCHANGED <<shared, ground, mainPc, telVars, imuVars, gncProfile, i2cErrors, payload>>

\* The payload is a local that starts as zeros and takes the flags, the state and the
\* profile from the shared variables one after the other.
GncLoadFlags ==
    /\ gncPc = "load_flags"
    /\ payload' = {[state |-> "UNINITIALIZED", profile |-> NoProfile, flags |-> flags]}
    /\ gncPc' = "load_state"
    /\ UNCHANGED <<shared, ground, mainPc, telVars, imuVars, gncProfile, i2cErrors>>

GncLoadState ==
    /\ gncPc = "load_state"
    /\ payload' = {[p EXCEPT !.state = sysState] : p \in payload}
    /\ gncPc' = "load_profile"
    /\ UNCHANGED <<shared, ground, mainPc, telVars, imuVars, gncProfile, i2cErrors>>

GncLoadProfile ==
    /\ gncPc = "load_profile"
    /\ payload' = {[p EXCEPT !.profile = profile] : p \in payload}
    /\ gncPc' = "overwrite"
    /\ UNCHANGED <<shared, ground, mainPc, telVars, imuVars, gncProfile, i2cErrors>>

\* xQueueOverwrite: the new payload replaces one not yet received.
GncOverwrite ==
    /\ gncPc = "overwrite"
    /\ queue' = payload
    /\ payload' = {}
    /\ gncPc' = "wait"
    /\ UNCHANGED <<sysState, profile, flags, ground, mainPc, telVars, imuVars,
                   gncProfile, i2cErrors>>

GncTask == \/ GncWake \/ GncCompare \/ GncConfigure \/ GncReadFails \/ GncLock
           \/ GncReadOk \/ GncRecover
           \/ GncLoadFlags \/ GncLoadState \/ GncLoadProfile \/ GncOverwrite

(***************************************************************************)
(* The environment                                                         *)
(***************************************************************************)

\* A command reaches a receive buffer that has room; one that does not is lost.
GroundSend ==
    /\ telPc # "off"
    /\ \E ch \in Channels, c \in GroundCommands :
          /\ Len(inbox[ch]) < InboxCap
          /\ inbox' = [inbox EXCEPT ![ch] = Append(@, c)]
    /\ UNCHANGED <<shared, sent, accepted, mainPc, telVars, imuVars, gncVars>>

PowerCycle == Restart

Next == MainTask \/ TelemetryTask \/ GncTask \/ GroundSend \/ PowerCycle

Spec == Init /\ [][Next]_vars

\* FreeRTOS runs each task that is ready: the telemetry task blocks in every turn
\* of its loop, so app_main gets core 0, and nothing else runs on core 1.  Nothing
\* is assumed of the ground, of the power supply or of how an I2C transfer ends.
Fairness == WF_vars(MainTask) /\ WF_vars(TelemetryTask) /\ WF_vars(GncTask)

LiveSpec == Spec /\ Fairness

(***************************************************************************)
(* Safety                                                                  *)
(***************************************************************************)

FrameKinds == {"NONE", "HEARTBEAT_AWAIT_PROFILE", "ACK_NACK", "BIST_REPORT",
               "ESTIMATOR_TELEMETRY"}

\* Every variable has its type.
TypeOK ==
    /\ sysState \in SystemStates
    /\ profile \in Profiles \cup {NoProfile}
    /\ flags \in SUBSET Flags
    /\ queue \in SUBSET Payloads
    /\ sent.kind \in FrameKinds
    /\ accepted \in SUBSET Profiles
    /\ inbox \in [Channels -> Seq(GroundCommands)]
    /\ mainPc \in {"nvs", "telemetry", "gnc", "suspended"}
    /\ telPc \in TelPcs
    /\ rxChan \in Channels
    /\ rxBuf \in Seq(GroundCommands)
    /\ driver \in Profiles \cup {NoProfile}
    /\ calibrated \in BOOLEAN
    /\ calDone \in 0..CalSamples
    /\ calValid \in 0..calDone
    /\ gncPc \in GncPcs
    /\ gncProfile \in Profiles \cup {NoProfile}
    /\ i2cErrors \in 0..MaxI2cErrors
    /\ payload \in SUBSET Payloads

\* The MPU6050 has no lock: the telemetry task drives it during the self test, the GNC
\* task while the estimator runs.  They are never both inside a transfer, whatever
\* the interleaving of the cores and of resets: g_system_state alone hands the bus over.
I2CExclusive == ~ (telPc \in {"bist_init", "calibrate"} /\ gncPc \in {"read", "recover"})

\* From the moment the GNC task touches the sensor until it publishes a payload, the
\* driver is calibrated and configured for the profile the operator selected, and so
\* is the estimator: no sample is scaled with another profile's full scale.
CalibrationBeforeUse ==
    /\ gncPc \notin {"off", "wait"} => calibrated /\ driver = profile /\ profile # NoProfile
    /\ gncPc \notin {"off", "wait", "compare", "configure"} => gncProfile = profile

\* An ACK to CMD_SET_PROFILE binds: at most one profile is acknowledged per boot,
\* it is the active one, and no state past AWAITING_PROFILE is reached without it.
AckIsBinding ==
    /\ accepted \subseteq {profile}
    /\ sysState \in {"BIST_AND_CALIBRATION", "RUNNING_ESTIMATOR", "HARD_FAULT_LOCK"} =>
          accepted = {profile}

\* Whoever sees a state sees the flags that go with it (the flags are stored first):
\* a locked system has raised HARD_FAULT and withdrawn IMU_OK, a running one has
\* passed its self test, and one awaiting a profile claims nothing of its sensor.
HealthMatchesState ==
    /\ sysState = "HARD_FAULT_LOCK" => "HARD_FAULT" \in flags /\ "IMU_OK" \notin flags
    /\ sysState = "RUNNING_ESTIMATOR" => "BIST_PASSED" \in flags
    /\ sysState = "AWAITING_PROFILE" => flags = {"TELEMETRY_STREAMING"}

\* A payload is put together from three separate loads, between which the telemetry task
\* goes on, and may be overwritten or sent much later; but what a finished one says belongs
\* together: the estimator runs on the profile in force, the sensor answered, and no
\* fault is declared.
PayloadCoherent ==
    \A p \in queue \cup (IF gncPc = "overwrite" THEN payload ELSE {}) :
        /\ p.state = "RUNNING_ESTIMATOR"
        /\ p.profile = profile
        /\ {"IMU_OK", "BIST_PASSED"} \subseteq p.flags
        /\ "HARD_FAULT" \notin p.flags

\* What the ground heard last does not run ahead of the vehicle: a heartbeat means it
\* still awaits a profile, an ACK that the profile is fixed, a partial BIST report
\* that the test goes on, a full one that it was passed, a failure code that the
\* system is locking, telemetry that the estimator did run on the active profile.
DownlinkTruthful ==
    /\ sent.kind = "HEARTBEAT_AWAIT_PROFILE" =>
          sysState = "AWAITING_PROFILE" /\ accepted = {}
    /\ (sent.kind = "ACK_NACK" /\ sent.ref = "set_profile" /\ sent.status = "ACK") =>
          /\ profile # NoProfile
          /\ sysState \in {"AWAITING_PROFILE", "BIST_AND_CALIBRATION"}
    /\ (sent.kind = "BIST_REPORT" /\ sent.code = "OK" /\ sent.pct < 100) =>
          sysState = "BIST_AND_CALIBRATION"
    /\ (sent.kind = "BIST_REPORT" /\ sent.code = "OK" /\ sent.pct >= 100) =>
          calibrated /\ calValid >= CalSamples \div 2
    /\ (sent.kind = "BIST_REPORT" /\ sent.code # "OK") =>
          telPc \in {"bist_fault", "bist_lock"} \/ sysState = "HARD_FAULT_LOCK"
    /\ sent.kind = "ESTIMATOR_TELEMETRY" =>
          /\ sysState \in {"RUNNING_ESTIMATOR", "HARD_FAULT_LOCK"}
          /\ sent.payload.profile = profile

\* The code moves the state and fixes the profile as FlightFSM promises, although it
\* consults the transition table at one of the places where it writes the state.
FSM == INSTANCE FlightFSM WITH sysState <- sysState, profile <- profile
FsmSpec == FSM!Spec

\* What the operator makes of the frames.
Told ==
    CASE sent.kind = "NONE"                    -> "nothing"
      [] sent.kind = "HEARTBEAT_AWAIT_PROFILE" -> "heartbeat"
      [] sent.kind = "ESTIMATOR_TELEMETRY"     -> "telemetry"
      [] sent.kind = "ACK_NACK"    -> IF sent.status # "ACK" THEN "rejected"
                                      ELSE IF sent.ref = "system_reset" THEN "resetting"
                                      ELSE "accepted"
      [] sent.kind = "BIST_REPORT" -> IF sent.code # "OK" THEN "failed"
                                      ELSE IF sent.pct >= 100 THEN "passed" ELSE "progress"

\* A change takes place when the frame that announces it is sent; the stores follow.
Mode ==
    CASE telPc = "reset"                      -> "off"
      [] telPc = "advance"                    -> "testing"
      [] telPc \in {"bist_pass", "bist_run"}  -> "running"
      [] telPc \in {"bist_fault", "bist_lock"} -> "failed"
      [] OTHER ->
            CASE sysState = "UNINITIALIZED"        -> "off"
              [] sysState = "AWAITING_PROFILE"     -> "awaiting"
              [] sysState = "BIST_AND_CALIBRATION" -> "testing"
              [] sysState = "RUNNING_ESTIMATOR"    -> "running"
              [] sysState = "HARD_FAULT_LOCK"      ->
                    IF "BIST_PASSED" \in flags THEN "lost" ELSE "failed"

Chosen == IF telPc \in {"ack", "reset"} THEN NoProfile ELSE profile

\* The frames announce what happens as Vehicle promises, although the announcement, the
\* flags and the state are separate steps, and the state has a second writer.
View == INSTANCE Vehicle WITH mode <- Mode, chosen <- Chosen, told <- Told
VehicleSpec == View!Spec

(***************************************************************************)
(* The inductive invariant the proofs rest on: which program counters each *)
(* state of the system allows, and what each of them may rely on.          *)
(***************************************************************************)

BistPcs   == {"bist_init", "calibrate", "bist_report", "bist_pass", "bist_run",
              "bist_fault", "bist_lock"}
Loading   == {"load_state", "load_profile", "overwrite"}
ActiveGnc == {"compare", "configure", "read", "lock", "recover", "load_flags"} \cup Loading

\* How far app_main has come decides which tasks exist.
BootInv ==
    /\ mainPc = "nvs" <=> sysState = "UNINITIALIZED"
    /\ telPc = "off" <=> mainPc \in {"nvs", "telemetry"}
    /\ gncPc = "off" <=> mainPc # "suspended"
    /\ telPc = "off" => sysState \in {"UNINITIALIZED", "AWAITING_PROFILE"}

\* Who may write the state: the telemetry task until the estimator runs, then the GNC
\* task, which is active in no other state.
OwnerInv ==
    /\ telPc \in {"ack", "advance"} => sysState = "AWAITING_PROFILE" /\ rxBuf # <<>>
    /\ telPc \in BistPcs => sysState = "BIST_AND_CALIBRATION"
    /\ telPc = "stream" => sysState \in {"RUNNING_ESTIMATOR", "HARD_FAULT_LOCK"}
    /\ gncPc \in ActiveGnc => sysState = "RUNNING_ESTIMATOR"

\* The profile is free, being acknowledged, or acknowledged and in force.
ProfileInv ==
    /\ telPc = "ack" => profile \in Profiles /\ profile = Head(rxBuf).id /\ accepted = {}
    /\ telPc = "advance" => profile \in Profiles /\ accepted = {profile}
    /\ sysState \in {"UNINITIALIZED", "AWAITING_PROFILE"} /\ telPc \notin {"ack", "advance"}
          => profile = NoProfile /\ accepted = {}
    /\ sysState \notin {"UNINITIALIZED", "AWAITING_PROFILE"}
          => profile \in Profiles /\ accepted = {profile}

\* The driver serves the profile in force once the self test has configured it.
DriverInv ==
    /\ telPc \in {"calibrate", "bist_report", "bist_pass", "bist_run"} => driver = profile
    /\ telPc \in {"bist_report", "bist_pass", "bist_run"} \/ sysState = "RUNNING_ESTIMATOR" =>
          calibrated /\ driver = profile /\ calValid >= CalSamples \div 2
    /\ gncPc \in ActiveGnc \ {"compare", "configure"} => gncProfile = profile

FlagsInv ==
    /\ sysState = "AWAITING_PROFILE" => flags = {"TELEMETRY_STREAMING"}
    /\ sysState = "BIST_AND_CALIBRATION" =>
          /\ "HARD_FAULT" \in flags <=> telPc = "bist_lock"
          /\ "IMU_OK" \in flags <=> telPc = "bist_run"
          /\ "BIST_PASSED" \in flags <=> telPc = "bist_run"
    /\ sysState = "RUNNING_ESTIMATOR" =>
          /\ "BIST_PASSED" \in flags
          /\ "HARD_FAULT" \in flags <=> gncPc = "lock"
          /\ gncPc = "lock" => "IMU_OK" \notin flags
          /\ gncPc \in {"recover", "load_flags"} \cup Loading => "IMU_OK" \in flags
    /\ sysState = "HARD_FAULT_LOCK" => "HARD_FAULT" \in flags /\ "IMU_OK" \notin flags

ErrorsInv == i2cErrors = MaxI2cErrors => gncPc = "lock" \/ sysState = "HARD_FAULT_LOCK"

\* Each load has left in the payload what the finished one must say.
PayloadInv ==
    /\ PayloadCoherent
    /\ queue # {} => sysState \in {"RUNNING_ESTIMATOR", "HARD_FAULT_LOCK"}
                  /\ "BIST_PASSED" \in flags
    /\ gncPc \in Loading <=> payload # {}
    /\ \A p \in payload : {"IMU_OK", "BIST_PASSED"} \subseteq p.flags /\ "HARD_FAULT" \notin p.flags
    /\ gncPc \in {"load_profile", "overwrite"} => \A p \in payload : p.state = "RUNNING_ESTIMATOR"

\* What the last frame was when a step relies on the ground having been told.
SentInv ==
    /\ DownlinkTruthful
    /\ telPc = "advance" => sent = AckNack("set_profile", "ACK")
    /\ telPc \in {"bist_pass", "bist_run"} => sent = BistReport("OK", 100)
    /\ telPc \in {"bist_fault", "bist_lock"} => sent.kind = "BIST_REPORT" /\ sent.code # "OK"
    /\ telPc = "off" => sent = NoFrame
    /\ (sent.kind = "BIST_REPORT" /\ sent.code = "OK" /\ sent.pct >= 100) =>
          telPc \in {"bist_pass", "bist_run"}
             \/ sysState \in {"RUNNING_ESTIMATOR", "HARD_FAULT_LOCK"}

CoreInv ==
        /\ TypeOK
        /\ BootInv
        /\ OwnerInv
        /\ ProfileInv
        /\ DriverInv
        /\ FlagsInv
        /\ ErrorsInv
        /\ PayloadInv
        /\ SentInv

\* Outside the loop over the commands it has read, the telemetry task holds none back; it has
\* read both channels when it acts by state, and once a profile is fixed the Wi-Fi channel is
\* all it still reads before the self test.
BufferInv ==
    /\ sysState = "BIST_AND_CALIBRATION" /\ telPc = "receive" => rxChan = "wifi"
    /\ telPc \notin {"handle", "ack", "advance", "reset"} => rxBuf = <<>>
    /\ telPc \in {"ack", "advance"} => Head(rxBuf).msg = "set_profile"
    /\ telPc \in {"dispatch", "stream"} \cup BistPcs => rxChan = "uart"

RoomInv == \A ch \in Channels : Len(inbox[ch]) <= InboxCap

IInv == CoreInv /\ BufferInv /\ RoomInv

\* The commands of a channel that have not been dealt with, read or not.
Pending(ch) == IF ch = rxChan THEN rxBuf \o inbox[ch] ELSE inbox[ch]

\* The first command of a channel has been dealt with: the last frame answers it.
Answered(ch) ==
    /\ Pending(ch) # <<>>
    /\ Pending(ch)' = Tail(Pending(ch))
    /\ Head(Pending(ch)).msg # "system_reset"
    /\ sent'.kind = "ACK_NACK" /\ sent'.ref = Head(Pending(ch)).msg

\* What a channel has delivered is dealt with in its order, one command at a time, and
\* none without an answer to it; a reset goes only with the restart it asks for.  No
\* other command, no change of state and no datagram behind it takes one away.
CommandsAnswered ==
    [][sysState' # "UNINITIALIZED" =>
         \A ch \in Channels :
            \/ Pending(ch)' = Pending(ch)
            \/ Answered(ch)
            \/ \E c \in GroundCommands : Pending(ch)' = Append(Pending(ch), c)]_vars

(***************************************************************************)
(* Liveness                                                                *)
(***************************************************************************)

\* The self test ends, however many transfers fail: it passes, locks or is cut short
\* by a restart.
BistConcludes == sysState = "BIST_AND_CALIBRATION" ~> sysState # "BIST_AND_CALIBRATION"

\* The steps of the telemetry task that are left of its turn, at most: those from pc on, where it
\* reads the channel ch, three for each command it has read (it fixes a profile, answers and
\* advances) and one for each sample of a calibration.
StepsFrom(pc, ch) ==
    CASE pc = "receive" /\ ch = "uart" -> 3 * InboxCap + 18
      [] pc = "handle"  /\ ch = "uart" -> 17
      [] pc = "ack"     /\ ch = "uart" -> 16
      [] pc = "advance" /\ ch = "uart" -> 15
      [] pc = "receive" /\ ch = "wifi" -> 16
      [] pc = "handle"  /\ ch = "wifi" -> 12
      [] pc = "ack"     /\ ch = "wifi" -> 11
      [] pc = "advance" /\ ch = "wifi" -> 10
      [] pc \in {"reset", "dispatch"}  -> 9
      [] pc \in {"stream", "bist_init"} -> 8
      [] pc = "calibrate"   -> 7
      [] pc = "bist_report" -> 6
      [] pc = "bist_pass"   -> 5
      [] pc = "bist_run"    -> 4
      [] pc = "bist_fault"  -> 3
      [] pc = "bist_lock"   -> 2

TurnLeft == StepsFrom(telPc, rxChan) + 3 * Len(rxBuf) + (CalSamples - calDone)

NewTurn == telPc # "receive" /\ telPc' = "receive" /\ rxChan' = "uart"

\* Every turn of the telemetry task's loop comes to its end, whatever it hears meanwhile: each
\* step it takes brings that nearer, and no step of another task or of the ground puts it
\* off.  So it comes back to both channels, which ResetHonoured needs, and to the queue,
\* which NoSilentRunning needs.
TurnShrinks ==
    [][telPc # "off" /\ telPc' # "off" /\ ~ NewTurn =>
          /\ TurnLeft' \in Nat /\ TurnLeft' <= TurnLeft
          /\ TelemetryTask => TurnLeft' < TurnLeft]_vars

\* The self test takes no more than one turn: as long as it lasts, every step of the telemetry
\* task brings its end nearer, whatever it hears and however the transfers end.
TestShrinks ==
    [][sysState = "BIST_AND_CALIBRATION" /\ sysState' = "BIST_AND_CALIBRATION" =>
          /\ TurnLeft' \in Nat /\ TurnLeft' <= TurnLeft
          /\ TelemetryTask => TurnLeft' < TurnLeft]_vars

\* The steps that are left until the GNC task has queued a payload or the bus is lost, at
\* most: three for each transfer that may still fail.
QueueingFrom(pc, new, errors) ==
    CASE pc = "off"                   -> 3 * MaxI2cErrors + 10
      [] pc = "wait" /\ new           -> 3 * MaxI2cErrors + 9
      [] pc = "compare" /\ new        -> 3 * MaxI2cErrors + 8
      [] pc = "configure"             -> 3 * MaxI2cErrors + 7
      [] pc = "wait" /\ ~ new         -> 3 * (MaxI2cErrors - errors) + 8
      [] pc = "compare" /\ ~ new      -> 3 * (MaxI2cErrors - errors) + 7
      [] pc = "read"                  -> 3 * (MaxI2cErrors - errors) + 6
      [] pc = "recover"               -> 5
      [] pc = "load_flags"            -> 4
      [] pc = "load_state"            -> 3
      [] pc = "load_profile"          -> 2
      [] pc \in {"overwrite", "lock"} -> 1

SilenceLeft == QueueingFrom(gncPc, NewProfile, i2cErrors)

\* While the estimator runs and nothing is queued, every step of the GNC task brings the next
\* payload or the lock nearer, however the transfers end, and no other step puts it off.
SilenceShrinks ==
    [][sysState = "RUNNING_ESTIMATOR" /\ sysState' = "RUNNING_ESTIMATOR" /\ queue' = {} =>
          /\ SilenceLeft' \in Nat /\ SilenceLeft' <= SilenceLeft
          /\ GncTask => SilenceLeft' < SilenceLeft]_vars

ResetPending == \E ch \in Channels : \E k \in 1..Len(inbox[ch]) :
                    inbox[ch][k].msg = "system_reset"

\* A reset the ground station got into a receive buffer is carried out in every state,
\* the locked one and the self test included, on either channel.
ResetHonoured == ResetPending ~> sysState = "UNINITIALIZED"

\* A running estimator is never silent for ever: a payload is always queued again and
\* every queued one is taken and sent, until the system locks or restarts, even if
\* transfers fail again and again.
NoSilentRunning ==
    /\ sysState = "RUNNING_ESTIMATOR" ~> (queue # {} \/ sysState # "RUNNING_ESTIMATOR")
    /\ queue # {} ~> (queue = {} \/ sysState # "RUNNING_ESTIMATOR")

(***************************************************************************)
(* What the documentation says and the code does not do                    *)
(***************************************************************************)

FaultFrame ==
    \/ sent.kind = "BIST_REPORT" /\ sent.code # "OK"
    \/ sent.kind = "ESTIMATOR_TELEMETRY" /\ "HARD_FAULT" \in sent.payload.flags
    \/ sent.kind = "HEARTBEAT_AWAIT_PROFILE" /\ sent.state = "HARD_FAULT_LOCK"

\* The ground station has a screen for a fault the ESP32 detected: it is told of every
\* lock, one the GNC task enters in flight included.
HardFaultReported == gncPc = "lock" ~> (FaultFrame \/ sysState = "UNINITIALIZED")

================================================================================

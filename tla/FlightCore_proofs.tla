--------------------------- MODULE FlightCore_proofs ---------------------------
(***************************************************************************)
(* CoreInv and with it IInv are inductive invariants of FlightCore, for    *)
(* every set of profiles and every limit. The safety properties follow,    *)
(* the order of answers and the end of each turn of the two tasks among    *)
(* them, and so do the refinements of FlightFSM and Vehicle. Nothing is    *)
(* assumed but the types of the constants.                                 *)
(***************************************************************************)
EXTENDS FlightCore, TLAPS

\* calibrate_biases never announces 100 % from within its loop.
LEMMA ProgressBelowHundred ==
    ASSUME NEW i \in 0..(CalSamples - 1)
    PROVE  Progress(i) \in Int /\ Progress(i) < 100
  BY ConstantsAssumption, SMT DEF Progress

\* A profile is only written while the system awaits one, and it is one of the four.
LEMMA FixProfileGuard ==
    ASSUME TypeOK, TelFixProfile
    PROVE  /\ sysState = "AWAITING_PROFILE"
           /\ Head(rxBuf) \in Commands
           /\ Head(rxBuf).id \in Profiles
<1>1. Head(rxBuf) \in GroundCommands /\ Head(rxBuf).msg = "set_profile"
  BY DEF TypeOK, TelFixProfile
<1>2. Head(rxBuf) \in Commands
  BY <1>1, ConstantsAssumption
<1>3. sysState = "AWAITING_PROFILE" /\ Head(rxBuf).id \in Profiles
  BY <1>1 DEF TelFixProfile, Rejection
<1> QED
  BY <1>2, <1>3

\* Receiving moves commands from a receive buffer to the task, unchanged.
LEMMA ReceiveType ==
    ASSUME TypeOK, TelReceive
    PROVE  /\ rxBuf' \in Seq(GroundCommands)
           /\ inbox' \in [Channels -> Seq(GroundCommands)]
<1>1. inbox \in [Channels -> Seq(GroundCommands)] /\ rxChan \in Channels
  BY DEF TypeOK
<1>2. inbox[rxChan] \in Seq(GroundCommands)
  BY <1>1
<1>3. CASE rxChan = "uart" \/ inbox[rxChan] = <<>>
  <2>1. rxBuf' = inbox[rxChan] /\ inbox' = [inbox EXCEPT ![rxChan] = <<>>]
    BY <1>3 DEF TelReceive
  <2> QED
    BY <1>1, <1>2, <2>1
<1>4. CASE ~ (rxChan = "uart" \/ inbox[rxChan] = <<>>)
  <2>1. /\ rxBuf' = <<Head(inbox[rxChan])>>
        /\ inbox' = [inbox EXCEPT ![rxChan] = Tail(inbox[rxChan])]
    BY <1>4 DEF TelReceive
  <2>2. /\ Head(inbox[rxChan]) \in GroundCommands
        /\ Tail(inbox[rxChan]) \in Seq(GroundCommands)
    BY <1>2, <1>4
  <2> QED
    BY <1>1, <2>1, <2>2
<1> QED
  BY <1>3, <1>4

\* The state after power-up satisfies the invariant.
LEMMA InitInv == Init => CoreInv
<1> SUFFICES ASSUME Init PROVE CoreInv
  OBVIOUS
<1> USE ConstantsAssumption, ProfilesAssumption DEF Init
<1>1. TypeOK
  <2>1. inbox \in [Channels -> Seq(GroundCommands)] /\ rxBuf \in Seq(GroundCommands)
    OBVIOUS
  <2>2. calDone \in 0..CalSamples /\ calValid \in 0..calDone /\ i2cErrors \in 0..MaxI2cErrors
    OBVIOUS
  <2> QED
    BY <2>1, <2>2 DEF TypeOK, NoFrame, SystemStates, Channels, TelPcs, GncPcs, FrameKinds
<1>2. BootInv /\ OwnerInv /\ ProfileInv /\ DriverInv /\ FlagsInv /\ ErrorsInv
  BY DEF BootInv, OwnerInv, ProfileInv, DriverInv, FlagsInv, ErrorsInv, BistPcs, ActiveGnc, Loading
<1>3. PayloadInv /\ SentInv
  BY DEF PayloadInv, PayloadCoherent, Loading, SentInv, DownlinkTruthful, NoFrame
<1> QED
  BY <1>1, <1>2, <1>3 DEF CoreInv

\* So does the state after a restart, from wherever it comes.
LEMMA RestartInv == Restart => CoreInv'
<1> SUFFICES ASSUME Restart PROVE CoreInv'
  OBVIOUS
<1> USE ConstantsAssumption, ProfilesAssumption DEF Restart
<1>1. TypeOK'
  <2>1. inbox' \in [Channels -> Seq(GroundCommands)] /\ rxBuf' \in Seq(GroundCommands)
    OBVIOUS
  <2>2. /\ calDone' \in 0..CalSamples
        /\ calValid' \in 0..calDone'
        /\ i2cErrors' \in 0..MaxI2cErrors
    OBVIOUS
  <2> QED
    BY <2>1, <2>2 DEF TypeOK, NoFrame, SystemStates, Channels, TelPcs, GncPcs, FrameKinds
<1>2. (BootInv /\ OwnerInv /\ ProfileInv /\ DriverInv /\ FlagsInv /\ ErrorsInv)'
  BY DEF BootInv, OwnerInv, ProfileInv, DriverInv, FlagsInv, ErrorsInv, BistPcs, ActiveGnc, Loading
<1>3. (PayloadInv /\ SentInv)'
  BY DEF PayloadInv, PayloadCoherent, Loading, SentInv, DownlinkTruthful, NoFrame
<1> QED
  BY <1>1, <1>2, <1>3 DEF CoreInv

\* app_main starts the tasks in an order that keeps the invariant.
LEMMA MainStep == CoreInv /\ (MainTask) => CoreInv'
<1> SUFFICES ASSUME CoreInv, MainTask PROVE CoreInv'
  OBVIOUS
<1> USE ConstantsAssumption, ProfilesAssumption
        DEF CoreInv, TypeOK, BootInv, OwnerInv, ProfileInv, DriverInv, FlagsInv, ErrorsInv,
            PayloadInv, PayloadCoherent, SentInv, DownlinkTruthful, BistPcs, ActiveGnc, Loading,
            vars, shared, ground, telVars, imuVars, gncVars
<1>1. CASE MainSetState
  BY <1>1, SMTT(30) DEF MainSetState, SystemStates, TelPcs, GncPcs, FrameKinds, Flags
<1>2. CASE MainStartTelemetry
  BY <1>2, SMTT(30) DEF MainStartTelemetry, SystemStates, TelPcs, GncPcs, FrameKinds, NoFrame
<1>3. CASE MainAbort
  BY <1>3, RestartInv DEF MainAbort
<1>4. CASE MainStartGnc
  BY <1>4, SMTT(30) DEF MainStartGnc, SystemStates, TelPcs, GncPcs, FrameKinds
<1> QED
  BY <1>1, <1>2, <1>3, <1>4 DEF MainTask

\* Receiving and carrying out commands.
LEMMA CommandStep ==
    CoreInv /\ (TelReceive \/ TelNextChannel \/ TelReject \/ TelFixProfile \/ TelAck
                \/ TelAdvance \/ TelAckReset \/ TelRestart)
      => CoreInv'
<1> SUFFICES ASSUME CoreInv,
                    TelReceive \/ TelNextChannel \/ TelReject \/ TelFixProfile \/ TelAck
                      \/ TelAdvance \/ TelAckReset \/ TelRestart
             PROVE  CoreInv'
  OBVIOUS
<1> USE ConstantsAssumption, ProfilesAssumption
        DEF CoreInv, TypeOK, BootInv, OwnerInv, ProfileInv, DriverInv, FlagsInv, ErrorsInv,
            PayloadInv, PayloadCoherent, SentInv, DownlinkTruthful, BistPcs, ActiveGnc, Loading,
            vars, shared, ground, telVars, imuVars, gncVars
<1>1. CASE TelReceive
  <2>1. /\ rxBuf' \in Seq(GroundCommands)
        /\ inbox' \in [Channels -> Seq(GroundCommands)]
    BY <1>1, ReceiveType
  <2>2. UNCHANGED <<shared, sent, accepted, mainPc, rxChan, imuVars, gncVars>>
    BY <1>1 DEF TelReceive
  <2>3. telPc = "receive" /\ telPc' = "handle"
    BY <1>1 DEF TelReceive
  <2> QED
    BY <2>1, <2>2, <2>3, SMTT(30) DEF TelPcs
<1>2. CASE TelNextChannel
  BY <1>2, SMTT(30) DEF TelNextChannel, SystemStates, TelPcs, GncPcs, FrameKinds, Channels
<1>3. CASE TelReject
  BY <1>3, SMTT(30) DEF TelReject, SystemStates, TelPcs, GncPcs, FrameKinds, AckNack, Rejection
<1>4. CASE TelFixProfile
  <2>1. /\ sysState = "AWAITING_PROFILE"
        /\ profile' \in Profiles
        /\ profile' = Head(rxBuf).id
    BY <1>4, FixProfileGuard DEF TelFixProfile
  <2>2. accepted = {} /\ queue = {} /\ payload = {} /\ gncPc \notin ActiveGnc
    BY <1>4, <2>1 DEF TelFixProfile
  <2> QED
    BY <1>4, <2>1, <2>2, SMTT(30) DEF TelFixProfile, TelPcs
<1>5. CASE TelAck
  BY <1>5, SMTT(30) DEF TelAck, SystemStates, TelPcs, GncPcs, FrameKinds, AckNack
<1>6. CASE TelAdvance
  BY <1>6, SMTT(30) DEF TelAdvance, SystemStates, TelPcs, GncPcs, FrameKinds, ValidTransition, AckNack
<1>7. CASE TelAckReset
  BY <1>7, SMTT(30) DEF TelAckReset, SystemStates, TelPcs, GncPcs, FrameKinds, AckNack
<1>8. CASE TelRestart
  BY <1>8, RestartInv DEF TelRestart
<1> QED
  BY <1>1, <1>2, <1>3, <1>4, <1>5, <1>6, <1>7, <1>8

\* Heartbeat and telemetry.
LEMMA EmitStep == CoreInv /\ (TelHeartbeat \/ TelDispatch \/ TelStream) => CoreInv'
<1> SUFFICES ASSUME CoreInv, TelHeartbeat \/ TelDispatch \/ TelStream PROVE CoreInv'
  OBVIOUS
<1> USE ConstantsAssumption, ProfilesAssumption
        DEF CoreInv, TypeOK, BootInv, OwnerInv, ProfileInv, DriverInv, FlagsInv, ErrorsInv,
            PayloadInv, PayloadCoherent, SentInv, DownlinkTruthful, BistPcs, ActiveGnc, Loading,
            vars, shared, ground, telVars, imuVars, gncVars
<1>1. CASE TelHeartbeat
  BY <1>1, SMTT(30) DEF TelHeartbeat, HeartbeatStates, SystemStates, TelPcs, GncPcs, FrameKinds, Heartbeat
<1>2. CASE TelDispatch
  <2>1. CASE TelEnter("BIST_AND_CALIBRATION", "bist_init")
    BY <2>1, SMTT(30) DEF TelEnter, TelPcs
  <2>2. CASE TelEnter("RUNNING_ESTIMATOR", "stream")
    BY <2>2, SMTT(30) DEF TelEnter, TelPcs
  <2>3. CASE TelEnter("HARD_FAULT_LOCK", "receive")
    BY <2>3, SMTT(30) DEF TelEnter, TelPcs
  <2> QED
    BY <1>2, <2>1, <2>2, <2>3 DEF TelDispatch
<1>3. CASE TelStream
  BY <1>3, SMTT(30) DEF TelStream, SystemStates, TelPcs, GncPcs, FrameKinds, Telemetry
<1> QED
  BY <1>1, <1>2, <1>3

\* The self test, from the driver's initialisation to the state it ends in.
LEMMA SelfTestStep ==
    CoreInv /\ (TelInitDriver \/ TelCalibrate \/ TelEndCalibration \/ TelReportPass
                \/ TelPass \/ TelRun \/ TelFault \/ TelLock)
      => CoreInv'
<1> SUFFICES ASSUME CoreInv,
                    TelInitDriver \/ TelCalibrate \/ TelEndCalibration \/ TelReportPass
                      \/ TelPass \/ TelRun \/ TelFault \/ TelLock
             PROVE  CoreInv'
  OBVIOUS
<1> USE ConstantsAssumption, ProfilesAssumption
        DEF CoreInv, TypeOK, BootInv, OwnerInv, ProfileInv, DriverInv, FlagsInv, ErrorsInv,
            PayloadInv, PayloadCoherent, SentInv, DownlinkTruthful, BistPcs, ActiveGnc, Loading,
            vars, shared, ground, telVars, imuVars, gncVars
<1>1. CASE TelInitDriver
  BY <1>1, SMTT(30) DEF TelInitDriver, SystemStates, TelPcs, GncPcs, FrameKinds, BistReport
<1>2. CASE TelCalibrate
  <2>1. Progress(calDone) \in Int /\ Progress(calDone) < 100
    BY <1>2, ProgressBelowHundred DEF TelCalibrate
  <2>2. calDone < CalSamples /\ calDone' = calDone + 1 /\ calValid' \in {calValid, calValid + 1}
    <3>1. PICK ok \in BOOLEAN : Counted(ok)
      BY <1>2 DEF TelCalibrate
    <3> QED
      BY <1>2, <3>1 DEF TelCalibrate, Counted
  <2>3. calDone' \in 0..CalSamples /\ calValid' \in 0..calDone'
    BY <2>2
  <2> QED
    BY <1>2, <2>1, <2>3, SMTT(30) DEF TelCalibrate, BistReport, FrameKinds
<1>3. CASE TelEndCalibration
  <2>1. CASE calValid < CalSamples \div 2
    BY <1>3, <2>1, SMTT(30) DEF TelEndCalibration, BistReport, TelPcs, FrameKinds
  <2>2. CASE ~ (calValid < CalSamples \div 2)
    <3>1. calValid >= CalSamples \div 2
      BY <2>2
    <3> QED
      BY <1>3, <2>2, <3>1, SMTT(30) DEF TelEndCalibration, TelPcs
  <2> QED
    BY <2>1, <2>2
<1>4. CASE TelReportPass
  BY <1>4, SMTT(30) DEF TelReportPass, SystemStates, TelPcs, GncPcs, FrameKinds, BistReport
<1>5. CASE TelPass
  BY <1>5, SMTT(30) DEF TelPass, SystemStates, TelPcs, GncPcs, FrameKinds, Flags
<1>6. CASE TelRun
  BY <1>6, SMTT(30) DEF TelRun, SystemStates, TelPcs, GncPcs, FrameKinds, BistReport
<1>7. CASE TelFault
  BY <1>7, SMTT(30) DEF TelFault, FaultFlags, SystemStates, TelPcs, GncPcs, FrameKinds, Flags
<1>8. CASE TelLock
  BY <1>8, SMTT(30) DEF TelLock, SystemStates, TelPcs, GncPcs, FrameKinds
<1> QED
  BY <1>1, <1>2, <1>3, <1>4, <1>5, <1>6, <1>7, <1>8

\* The second and the third load of a payload.
LEMMA LoadStep == CoreInv /\ (GncLoadState \/ GncLoadProfile) => CoreInv'
<1> SUFFICES ASSUME CoreInv, GncLoadState \/ GncLoadProfile PROVE CoreInv'
  OBVIOUS
<1>1. UNCHANGED <<sysState, profile, flags, queue, sent, accepted, inbox, mainPc, telPc, rxChan,
                  rxBuf, driver, calibrated, calDone, calValid, gncProfile, i2cErrors>>
  BY DEF GncLoadState, GncLoadProfile, shared, ground, telVars, imuVars
<1>2. /\ sysState = "RUNNING_ESTIMATOR"
      /\ payload \in SUBSET Payloads /\ sysState \in SystemStates
      /\ profile \in Profiles \cup {NoProfile}
  BY DEF GncLoadState, GncLoadProfile, CoreInv, TypeOK, OwnerInv, ActiveGnc, Loading
<1>3. gncPc \in {"load_state", "load_profile"} /\ gncPc' \in {"load_profile", "overwrite"}
  BY DEF GncLoadState, GncLoadProfile
<1>4. payload' \in SUBSET Payloads /\ PayloadInv'
  <2>1. /\ payload # {}
        /\ \A p \in payload : {"IMU_OK", "BIST_PASSED"} \subseteq p.flags /\ "HARD_FAULT" \notin p.flags
        /\ gncPc = "load_profile" => \A p \in payload : p.state = "RUNNING_ESTIMATOR"
    BY <1>3 DEF CoreInv, PayloadInv, Loading
  <2>2. \A p \in queue : /\ p.state = "RUNNING_ESTIMATOR" /\ p.profile = profile
                        /\ {"IMU_OK", "BIST_PASSED"} \subseteq p.flags
                        /\ "HARD_FAULT" \notin p.flags
    BY DEF CoreInv, PayloadInv, PayloadCoherent
  <2>3. queue # {} => "BIST_PASSED" \in flags
    BY DEF CoreInv, PayloadInv
  <2>4. CASE GncLoadState
    <3>1. gncPc' = "load_profile" /\ payload' = {[p EXCEPT !.state = sysState] : p \in payload}
      BY <2>4 DEF GncLoadState
    <3>2. payload' \in SUBSET Payloads /\ payload' # {}
      <4>1. \A p \in payload : [p EXCEPT !.state = sysState] \in Payloads
        BY <1>2 DEF Payloads
      <4>2. PICK p \in payload : TRUE
        BY <2>1
      <4>3. [p EXCEPT !.state = sysState] \in payload'
        BY <3>1, <4>2
      <4> QED
        BY <3>1, <4>1, <4>3
    <3>3. \A q \in payload' : q.state = sysState /\ \E p \in payload : q.flags = p.flags
      BY <1>2, <3>1 DEF Payloads
    <3>4. \A q \in payload' : /\ q.state = "RUNNING_ESTIMATOR"
                             /\ {"IMU_OK", "BIST_PASSED"} \subseteq q.flags
                             /\ "HARD_FAULT" \notin q.flags
      BY <1>2, <2>1, <3>3
    <3>5. PayloadCoherent'
      BY <1>1, <2>2, <3>1 DEF PayloadCoherent
    <3> QED
      BY <1>1, <1>2, <2>3, <3>1, <3>2, <3>4, <3>5 DEF PayloadInv, Loading
  <2>5. CASE GncLoadProfile
    <3>1. /\ gncPc = "load_profile" /\ gncPc' = "overwrite"
          /\ payload' = {[p EXCEPT !.profile = profile] : p \in payload}
      BY <2>5 DEF GncLoadProfile
    <3>2. payload' \in SUBSET Payloads /\ payload' # {}
      <4>1. \A p \in payload : [p EXCEPT !.profile = profile] \in Payloads
        BY <1>2 DEF Payloads
      <4>2. PICK p \in payload : TRUE
        BY <2>1
      <4>3. [p EXCEPT !.profile = profile] \in payload'
        BY <3>1, <4>2
      <4> QED
        BY <3>1, <4>1, <4>3
    <3>3. \A q \in payload' : /\ q.profile = profile
                             /\ \E p \in payload : q.flags = p.flags /\ q.state = p.state
      BY <1>2, <3>1 DEF Payloads
    <3>4. \A q \in payload' : /\ q.state = "RUNNING_ESTIMATOR" /\ q.profile = profile
                             /\ {"IMU_OK", "BIST_PASSED"} \subseteq q.flags
                             /\ "HARD_FAULT" \notin q.flags
      BY <2>1, <3>1, <3>3
    <3>5. PayloadCoherent'
      BY <1>1, <2>2, <3>1, <3>4 DEF PayloadCoherent
    <3> QED
      BY <1>1, <1>2, <2>3, <3>1, <3>2, <3>4, <3>5 DEF PayloadInv, Loading
  <2> QED
    BY <2>4, <2>5
<1>5. TypeOK'
  BY <1>1, <1>3, <1>4 DEF CoreInv, TypeOK, GncPcs
<1>6. BootInv' /\ OwnerInv' /\ ProfileInv'
  BY <1>1, <1>3 DEF CoreInv, BootInv, OwnerInv, ProfileInv, BistPcs, ActiveGnc, Loading
<1>7. DriverInv' /\ FlagsInv' /\ ErrorsInv'
  BY <1>1, <1>2, <1>3
  DEF CoreInv, DriverInv, FlagsInv, ErrorsInv, ActiveGnc, Loading
<1>8. SentInv'
  BY <1>1 DEF CoreInv, SentInv, DownlinkTruthful
<1> QED
  BY <1>4, <1>5, <1>6, <1>7, <1>8 DEF CoreInv

\* The GNC task.
LEMMA GncStep == CoreInv /\ (GncTask) => CoreInv'
<1> SUFFICES ASSUME CoreInv, GncTask PROVE CoreInv'
  OBVIOUS
<1> USE ConstantsAssumption, ProfilesAssumption
        DEF CoreInv, TypeOK, BootInv, OwnerInv, ProfileInv, DriverInv, FlagsInv, ErrorsInv,
            PayloadInv, PayloadCoherent, SentInv, DownlinkTruthful, BistPcs, ActiveGnc, Loading,
            vars, shared, ground, telVars, imuVars, gncVars
<1>1. CASE GncWake
  BY <1>1, SMTT(30) DEF GncWake, GncMayRun, NewProfile, SystemStates, TelPcs, GncPcs, FrameKinds
<1>2. CASE GncConfigure
  BY <1>2, SMTT(30) DEF GncConfigure, SystemStates, TelPcs, GncPcs, FrameKinds
<1>3. CASE GncReadFails
  <2>1. i2cErrors < MaxI2cErrors /\ sysState = "RUNNING_ESTIMATOR" /\ gncPc = "read"
    BY <1>3 DEF GncReadFails
  <2>2. /\ i2cErrors' = i2cErrors + 1 /\ i2cErrors' \in 0..MaxI2cErrors
        /\ \/ /\ i2cErrors' = MaxI2cErrors /\ gncPc' = "lock"
              /\ flags' = (flags \ {"IMU_OK"}) \cup {"HARD_FAULT"}
           \/ /\ i2cErrors' # MaxI2cErrors /\ gncPc' = "wait"
              /\ flags' = flags \ {"IMU_OK"}
    BY <1>3, <2>1 DEF GncReadFails, Errors, FlagsAfterError
  <2>3. UNCHANGED <<sysState, profile, queue, ground, mainPc, telVars, imuVars, gncProfile, payload>>
    BY <1>3 DEF GncReadFails
  <2>4. TypeOK'
    <3>1. flags' \in SUBSET Flags
      BY <2>2 DEF Flags
    <3>2. gncPc' \in GncPcs
      BY <2>2 DEF GncPcs
    <3> QED
      BY <2>2, <2>3, <3>1, <3>2, SMTT(30)
  <2>5. FlagsInv' /\ ErrorsInv'
    BY <2>1, <2>2, <2>3
  <2> QED
    BY <2>1, <2>2, <2>3, <2>4, <2>5, SMTT(30)
<1>4. CASE GncLock
  BY <1>4, SMTT(30) DEF GncLock, StateAfterLoss, SystemStates, TelPcs, GncPcs, FrameKinds
<1>5. CASE GncReadOk
  BY <1>5, SMTT(30) DEF GncReadOk, FlagsAfterSuccess, SystemStates, TelPcs, GncPcs, FrameKinds, Flags
<1>6. CASE GncCompare \/ GncRecover
  BY <1>6, SMTT(30) DEF GncCompare, NewProfile, GncRecover, SystemStates, TelPcs, GncPcs,
                        FrameKinds
<1>7. CASE GncLoadFlags
  BY <1>7, SMTT(30) DEF GncLoadFlags, SystemStates, TelPcs, GncPcs, FrameKinds, Payloads
<1>8. CASE GncLoadState \/ GncLoadProfile
  BY <1>8, LoadStep
<1>9. CASE GncOverwrite
  BY <1>9, SMTT(30) DEF GncOverwrite, SystemStates, TelPcs, GncPcs, FrameKinds
<1> QED
  BY <1>1, <1>2, <1>3, <1>4, <1>5, <1>6, <1>7, <1>8, <1>9 DEF GncTask

\* A command arrives.
LEMMA GroundStep == CoreInv /\ (GroundSend) => CoreInv'
<1> SUFFICES ASSUME CoreInv, GroundSend PROVE CoreInv'
  OBVIOUS
<1> USE ConstantsAssumption, ProfilesAssumption
        DEF CoreInv, TypeOK, BootInv, OwnerInv, ProfileInv, DriverInv, FlagsInv, ErrorsInv,
            PayloadInv, PayloadCoherent, SentInv, DownlinkTruthful, BistPcs, ActiveGnc, Loading,
            vars, shared, ground, telVars, imuVars, gncVars
<1>1. PICK ch \in Channels, c \in GroundCommands :
          inbox' = [inbox EXCEPT ![ch] = Append(@, c)]
  BY DEF GroundSend
<1>2. inbox' \in [Channels -> Seq(GroundCommands)]
  BY <1>1
<1> QED
  BY <1>2, SMTT(30) DEF GroundSend

\* A step that changes nothing.
LEMMA StutterStep == CoreInv /\ UNCHANGED vars => CoreInv'
  BY SMTT(30) DEF CoreInv, TypeOK, BootInv, OwnerInv, ProfileInv, DriverInv, FlagsInv, ErrorsInv,
      PayloadInv, PayloadCoherent, SentInv, DownlinkTruthful,
      vars, shared, ground, telVars, imuVars, gncVars

\* CoreInv holds in every reachable state, for all values of the constants.
LEMMA CoreInvariance == Spec => []CoreInv
<1>1. CoreInv /\ [Next]_vars => CoreInv'
  BY MainStep, CommandStep, EmitStep, SelfTestStep, GncStep, GroundStep, StutterStep,
     RestartInv DEF Next, TelemetryTask, PowerCycle
<1> QED
  BY InitInv, <1>1, PTL DEF Spec

\* What the telemetry task has read and not dealt with.
LEMMA BufferStep == CoreInv /\ BufferInv /\ [Next]_vars => BufferInv'
<1> SUFFICES ASSUME CoreInv, BufferInv, [Next]_vars PROVE BufferInv'
  OBVIOUS
<1> USE DEF BufferInv, BistPcs
<1>1. CASE Restart
  BY <1>1 DEF Restart
<1>2. CASE TelFixProfile
  BY <1>2 DEF TelFixProfile
<1>3. CASE TelAck \/ TelAckReset
  BY <1>3 DEF TelAck, TelAckReset
<1>4. CASE TelReceive \/ TelReject \/ TelAdvance
  BY <1>4 DEF TelReceive, TelReject, TelAdvance
<1>5. CASE TelNextChannel
  BY <1>5 DEF TelNextChannel
<1>6. CASE MainStartTelemetry
  BY <1>6 DEF MainStartTelemetry, CoreInv, BootInv, shared
<1>7. CASE TelHeartbeat \/ TelDispatch \/ TelStream
  BY <1>7
  DEF TelHeartbeat, HeartbeatStates, TelDispatch, TelEnter, TelStream, CoreInv, OwnerInv,
      shared
<1>8. CASE \/ TelInitDriver \/ TelCalibrate \/ TelEndCalibration \/ TelReportPass
           \/ TelPass \/ TelRun \/ TelFault \/ TelLock
  BY <1>8
  DEF TelInitDriver, TelCalibrate, TelEndCalibration, TelReportPass, TelPass, TelRun,
      TelFault, TelLock, telVars
<1>9. CASE UNCHANGED telVars /\ (sysState' = "BIST_AND_CALIBRATION" => sysState' = sysState)
  BY <1>9 DEF telVars
<1> QED
  <2>1. GncTask \/ GroundSend \/ UNCHANGED vars =>
          UNCHANGED telVars /\ (sysState' = "BIST_AND_CALIBRATION" => sysState' = sysState)
    BY DEF GncTask, GncWake, GncCompare, GncConfigure, GncReadFails, GncLock,
           StateAfterLoss, GncReadOk, GncRecover, GncLoadFlags, GncLoadState,
           GncLoadProfile, GncOverwrite, GroundSend, vars, shared
  <2>2. MainTask =>
          \/ Restart \/ MainStartTelemetry
          \/ UNCHANGED telVars /\ (sysState' = "BIST_AND_CALIBRATION" => sysState' = sysState)
    BY DEF MainTask, MainSetState, MainAbort, MainStartGnc, shared
  <2>3. TelRestart \/ PowerCycle => Restart
    BY DEF TelRestart, PowerCycle
  <2> QED
    BY <1>1, <1>2, <1>3, <1>4, <1>5, <1>6, <1>7, <1>8, <1>9, <2>1, <2>2, <2>3
    DEF Next, TelemetryTask

\* No receive buffer holds more than it has room for.
LEMMA RoomStep == CoreInv /\ RoomInv /\ [Next]_vars => RoomInv'
<1> SUFFICES ASSUME CoreInv, RoomInv, [Next]_vars, NEW ch \in Channels
             PROVE  (Len(inbox[ch]) <= InboxCap)'
  BY DEF RoomInv
<1>1. /\ inbox \in [Channels -> Seq(GroundCommands)] /\ inbox[ch] \in Seq(GroundCommands)
      /\ rxChan \in Channels /\ Len(inbox[ch]) <= InboxCap /\ InboxCap \in Nat
  BY ConstantsAssumption DEF CoreInv, TypeOK, RoomInv
<1>2. CASE inbox' = inbox
  BY <1>1, <1>2
<1>3. CASE Restart
  BY <1>1, <1>3 DEF Restart
<1>4. CASE TelReceive
  <2>1. inbox'[ch] \in {inbox[ch], <<>>} \/ (inbox[ch] # <<>> /\ inbox'[ch] = Tail(inbox[ch]))
    BY <1>1, <1>4 DEF TelReceive
  <2>. QED
    BY <1>1, <2>1
<1>5. CASE GroundSend
  <2>1. PICK to \in Channels, c \in GroundCommands :
          /\ Len(inbox[to]) < InboxCap
          /\ inbox' = [inbox EXCEPT ![to] = Append(@, c)]
    BY <1>5 DEF GroundSend
  <2>2. inbox'[ch] = inbox[ch] \/ (ch = to /\ inbox'[ch] = Append(inbox[ch], c))
    BY <1>1, <2>1
  <2>. QED
    BY <1>1, <2>1, <2>2
<1>. QED
  <2>1. MainTask \/ GncTask => Restart \/ inbox' = inbox
    BY DEF MainTask, MainSetState, MainStartTelemetry, MainAbort, MainStartGnc, GncTask,
           GncWake, GncCompare, GncConfigure, GncReadFails, GncLock, GncReadOk, GncRecover,
           GncLoadFlags, GncLoadState, GncLoadProfile, GncOverwrite, ground
  <2>2. TelemetryTask => Restart \/ TelReceive \/ inbox' = inbox
    BY DEF TelemetryTask, TelNextChannel, TelReject, TelFixProfile, TelAck, TelAdvance,
           TelAckReset, TelRestart, TelHeartbeat, TelDispatch, TelEnter, TelStream,
           TelInitDriver, TelCalibrate, TelEndCalibration, TelReportPass, TelPass, TelRun,
           TelFault, TelLock, ground
  <2>. QED
    BY <1>2, <1>3, <1>4, <1>5, <2>1, <2>2 DEF Next, PowerCycle, vars, ground

\* IInv holds in every reachable state, for all values of the constants.
THEOREM Invariance == Spec => []IInv
<1>1. Init => BufferInv
  BY DEF Init, BufferInv, BistPcs
<1>2. CoreInv /\ BufferInv /\ [Next]_vars => BufferInv'
  BY BufferStep
<1>3. Init => RoomInv
  BY ConstantsAssumption DEF Init, RoomInv
<1>4. CoreInv /\ RoomInv /\ [Next]_vars => RoomInv'
  BY RoomStep
<1>5. CoreInv /\ BufferInv /\ RoomInv => IInv
  BY DEF IInv
<1> QED
  BY CoreInvariance, <1>1, <1>2, <1>3, <1>4, <1>5, PTL DEF Spec

\* Every variable keeps its type.
THEOREM TypeCorrect == Spec => []TypeOK
<1>1. CoreInv => TypeOK
  BY DEF CoreInv
<1> QED
  BY CoreInvariance, <1>1, PTL

\* The two tasks are never both inside an MPU6050 transfer: while the telemetry task
\* is, the state is BIST_AND_CALIBRATION, and the GNC task is active in RUNNING only.
THEOREM BusExclusion == Spec => []I2CExclusive
<1>1. CoreInv => I2CExclusive
  BY DEF CoreInv, OwnerInv, I2CExclusive, BistPcs, ActiveGnc, Loading
<1> QED
  BY CoreInvariance, <1>1, PTL

\* The sensor and the estimator serve the profile in force whenever they are used.
THEOREM CalibratedUse == Spec => []CalibrationBeforeUse
<1>1. CoreInv => CalibrationBeforeUse
  BY ProfilesAssumption
  DEF CoreInv, TypeOK, GncPcs, OwnerInv, ProfileInv, DriverInv, CalibrationBeforeUse,
      ActiveGnc, Loading
<1> QED
  BY CoreInvariance, <1>1, PTL

\* An acknowledged profile is the active one until a restart.
THEOREM AckBinds == Spec => []AckIsBinding
<1>1. CoreInv => AckIsBinding
  BY DEF CoreInv, TypeOK, SystemStates, ProfileInv, OwnerInv, AckIsBinding
<1> QED
  BY CoreInvariance, <1>1, PTL

\* The health flags are never behind the state.
THEOREM HealthCoherent == Spec => []HealthMatchesState
<1>1. CoreInv => HealthMatchesState
  BY DEF CoreInv, FlagsInv, HealthMatchesState
<1> QED
  BY CoreInvariance, <1>1, PTL

\* Payloads are coherent although three steps load their parts, and the telemetry task, the
\* ground and a restart may come between any two of them.
THEOREM PayloadsCoherent == Spec => []PayloadCoherent
<1>1. CoreInv => PayloadCoherent
  BY DEF CoreInv, PayloadInv
<1> QED
  BY CoreInvariance, <1>1, PTL

\* The last frame sent never runs ahead of the vehicle.
THEOREM DownlinkIsTruthful == Spec => []DownlinkTruthful
<1>1. CoreInv => DownlinkTruthful
  BY DEF CoreInv, SentInv
<1> QED
  BY CoreInvariance, <1>1, PTL

(***************************************************************************)
(* Commands                                                                *)
(***************************************************************************)

\* Facts about sequences.
LEMMA TailOfConcat ==
    ASSUME NEW S, NEW a \in Seq(S), NEW b \in Seq(S), a # <<>>
    PROVE  /\ a \o b # <<>>
           /\ Head(a \o b) = Head(a)
           /\ Tail(a \o b) = Tail(a) \o b
<1>1. Len(a) \in Nat /\ Len(a) > 0 /\ Len(b) \in Nat
  OBVIOUS
<1>2. a \o b \in Seq(S) /\ Len(a \o b) = Len(a) + Len(b)
  OBVIOUS
<1>3. Tail(a) \in Seq(S) /\ Len(Tail(a)) = Len(a) - 1
  BY <1>1
<1>. QED
  BY <1>1, <1>2, <1>3

LEMMA AppendToConcat ==
    ASSUME NEW S, NEW a \in Seq(S), NEW b \in Seq(S), NEW x \in S
    PROVE  a \o Append(b, x) = Append(a \o b, x)
  OBVIOUS

LEMMA HeadAndTail ==
    ASSUME NEW S, NEW s \in Seq(S), s # <<>>
    PROVE  <<Head(s)>> \o Tail(s) = s
  OBVIOUS

LEMMA ConcatEmpty ==
    ASSUME NEW S, NEW s \in Seq(S)
    PROVE  <<>> \o s = s /\ s \o <<>> = s
  OBVIOUS

\* What a step may do with the commands of a channel.
Dealt(ch) ==
    \/ Pending(ch)' = Pending(ch)
    \/ Answered(ch)
    \/ \E c \in GroundCommands : Pending(ch)' = Append(Pending(ch), c)

LEMMA DealtStep ==
    ASSUME IInv, Next, ~ Restart, NEW ch \in Channels
    PROVE  Dealt(ch)
<1>1. /\ inbox[ch] \in Seq(GroundCommands)
      /\ inbox \in [Channels -> Seq(GroundCommands)]
      /\ rxChan \in Channels
      /\ rxBuf \in Seq(GroundCommands)
  BY DEF IInv, CoreInv, TypeOK
<1>2. CASE UNCHANGED <<rxChan, rxBuf, inbox>>
  BY <1>2 DEF Dealt, Pending
<1>3. CASE TelReceive
  <2>1. rxBuf = <<>> /\ rxChan' = rxChan
    BY <1>3 DEF TelReceive, IInv, BufferInv
  <2>2. CASE ch # rxChan
    BY <1>1, <1>3, <2>1, <2>2 DEF TelReceive, Dealt, Pending
  <2>3. CASE ch = rxChan /\ (rxChan = "uart" \/ inbox[rxChan] = <<>>)
    <3>1. rxBuf' = inbox[ch] /\ inbox'[ch] = <<>>
      BY <1>1, <1>3, <2>3 DEF TelReceive
    <3>2. Pending(ch) = inbox[ch] /\ Pending(ch)' = inbox[ch]
      BY <1>1, <2>1, <2>3, <3>1, ConcatEmpty DEF Pending
    <3>. QED
      BY <3>2 DEF Dealt
  <2>4. CASE ch = rxChan /\ ~ (rxChan = "uart" \/ inbox[rxChan] = <<>>)
    <3>1. rxBuf' = <<Head(inbox[ch])>> /\ inbox'[ch] = Tail(inbox[ch])
      BY <1>1, <1>3, <2>4 DEF TelReceive
    <3>2. Pending(ch) = inbox[ch] /\ Pending(ch)' = inbox[ch]
      BY <1>1, <2>1, <2>4, <3>1, ConcatEmpty, HeadAndTail DEF Pending
    <3>. QED
      BY <3>2 DEF Dealt
  <2>. QED
    BY <2>2, <2>3, <2>4
<1>4. CASE TelNextChannel
  <2>1. rxBuf = <<>> /\ rxBuf' = <<>> /\ inbox' = inbox
    BY <1>4 DEF TelNextChannel, ground
  <2>2. Pending(ch) = inbox[ch] /\ Pending(ch)' = inbox[ch]
    BY <1>1, <2>1, ConcatEmpty DEF Pending
  <2>. QED
    BY <2>2 DEF Dealt
<1>5. CASE TelReject \/ TelAdvance
  <2>1. /\ rxBuf # <<>> /\ rxBuf' = Tail(rxBuf)
        /\ rxChan' = rxChan /\ inbox' = inbox
    BY <1>5 DEF TelReject, TelAdvance, IInv, CoreInv, OwnerInv, ground
  <2>2. CASE ch # rxChan
    BY <2>1, <2>2 DEF Dealt, Pending
  <2>3. CASE ch = rxChan
    <3>1. Pending(ch) = rxBuf \o inbox[ch] /\ Pending(ch)' = Tail(rxBuf) \o inbox[ch]
      BY <2>1, <2>3 DEF Pending
    <3>2. /\ Pending(ch) # <<>>
          /\ Head(Pending(ch)) = Head(rxBuf)
          /\ Pending(ch)' = Tail(Pending(ch))
      <4>1. /\ rxBuf \o inbox[ch] # <<>>
            /\ Head(rxBuf \o inbox[ch]) = Head(rxBuf)
            /\ Tail(rxBuf \o inbox[ch]) = Tail(rxBuf) \o inbox[ch]
        BY <1>1, <2>1, TailOfConcat, Zenon
      <4> QED
        BY <3>1, <4>1, Zenon
    <3>3. CASE TelReject
      <4>1. PICK status \in Rejection(Head(rxBuf), sysState) :
              sent' = AckNack(Head(rxBuf).msg, status)
        BY <3>3 DEF TelReject
      <4>2. Head(rxBuf).msg # "system_reset"
        BY <4>1 DEF Rejection
      <4>. QED
        BY <3>2, <4>1, <4>2 DEF Dealt, Answered, AckNack
    <3>4. CASE TelAdvance
      <4>1. Head(rxBuf).msg = "set_profile" /\ sent' = sent
            /\ sent = AckNack("set_profile", "ACK")
        BY <3>4 DEF TelAdvance, ground, IInv, BufferInv, CoreInv, SentInv
      <4>. QED
        BY <3>2, <4>1 DEF Dealt, Answered, AckNack
    <3>. QED
      BY <1>5, <3>3, <3>4
  <2>. QED
    BY <2>2, <2>3
<1>6. CASE GroundSend
  <2>1. PICK to \in Channels, c \in GroundCommands :
          inbox' = [inbox EXCEPT ![to] = Append(@, c)]
    BY <1>6 DEF GroundSend
  <2>2. rxChan' = rxChan /\ rxBuf' = rxBuf
    BY <1>6 DEF GroundSend, telVars
  <2>3. CASE ch # to
    <3>1. inbox'[ch] = inbox[ch]
      BY <1>1, <2>1, <2>3
    <3>. QED
      BY <2>2, <3>1 DEF Dealt, Pending
  <2>4. CASE ch = to
    <3>1. inbox'[ch] = Append(inbox[ch], c)
      BY <1>1, <2>1, <2>4
    <3>2. Pending(ch)' = Append(Pending(ch), c)
      BY <1>1, <2>2, <3>1, AppendToConcat DEF Pending
    <3>. QED
      BY <3>2 DEF Dealt
  <2>. QED
    BY <2>3, <2>4
<1>. QED
  <2>1. MainTask \/ GncTask => Restart \/ UNCHANGED <<rxChan, rxBuf, inbox>>
    BY DEF MainTask, MainSetState, MainStartTelemetry, MainAbort, MainStartGnc, GncTask,
           GncWake, GncCompare, GncConfigure, GncReadFails, GncLock, GncReadOk, GncRecover,
           GncLoadFlags, GncLoadState, GncLoadProfile, GncOverwrite, ground, telVars
  <2>2. TelFixProfile \/ TelAck \/ TelAckReset \/ TelHeartbeat \/ TelDispatch \/ TelStream
          => UNCHANGED <<rxChan, rxBuf, inbox>>
    BY DEF TelFixProfile, TelAck, TelAckReset, TelHeartbeat, TelDispatch, TelEnter,
           TelStream, ground
  <2>3. TelInitDriver \/ TelCalibrate \/ TelEndCalibration \/ TelReportPass \/ TelPass
          \/ TelRun \/ TelFault \/ TelLock => UNCHANGED <<rxChan, rxBuf, inbox>>
    BY DEF TelInitDriver, TelCalibrate, TelEndCalibration, TelReportPass, TelPass,
           TelRun, TelFault, TelLock, ground, telVars
  <2>4. TelRestart \/ PowerCycle => Restart
    BY DEF TelRestart, PowerCycle
  <2>. QED
    BY <1>2, <1>3, <1>4, <1>5, <1>6, <2>1, <2>2, <2>3, <2>4 DEF Next, TelemetryTask

\* Every command is dealt with in its turn and answered, or the system restarts: nothing a
\* channel has delivered is skipped, swapped or dropped, on either channel.
THEOREM EveryCommandAnswered == Spec => CommandsAnswered
<1>1. IInv /\ [Next]_vars =>
        [sysState' # "UNINITIALIZED" => \A ch \in Channels : Dealt(ch)]_vars
  <2> SUFFICES ASSUME IInv, Next, sysState' # "UNINITIALIZED", NEW ch \in Channels
               PROVE  Dealt(ch)
    OBVIOUS
  <2>1. ~ Restart
    BY DEF Restart
  <2>. QED
    BY <2>1, DealtStep
<1>2. Spec => [][sysState' # "UNINITIALIZED" => \A ch \in Channels : Dealt(ch)]_vars
  BY Invariance, <1>1, PTL DEF Spec
<1>. QED
  BY <1>2 DEF CommandsAnswered, Dealt

(***************************************************************************)
(* The turns of the telemetry task                                         *)
(***************************************************************************)

\* In a turn the telemetry task is in one of the places StepsFrom counts.
LEMMA TurnPlace ==
    ASSUME IInv, telPc # "off"
    PROVE  /\ telPc \in TelPcs \ {"off"} /\ rxChan \in Channels
           /\ Len(rxBuf) \in Nat
           /\ telPc \notin {"handle", "ack", "advance", "reset"} => Len(rxBuf) = 0
           /\ calDone \in 0..CalSamples /\ CalSamples \in Nat /\ InboxCap \in Nat
BY ConstantsAssumption DEF IInv, CoreInv, TypeOK, BufferInv

LEMMA StepsOfPlaces ==
    /\ StepsFrom("receive", "uart") = 3 * InboxCap + 18
    /\ StepsFrom("handle", "uart") = 17     /\ StepsFrom("ack", "uart") = 16
    /\ StepsFrom("advance", "uart") = 15
    /\ StepsFrom("receive", "wifi") = 16    /\ StepsFrom("handle", "wifi") = 12
    /\ StepsFrom("ack", "wifi") = 11        /\ StepsFrom("advance", "wifi") = 10
    /\ \A ch \in Channels :
          /\ StepsFrom("reset", ch) = 9        /\ StepsFrom("dispatch", ch) = 9
          /\ StepsFrom("stream", ch) = 8       /\ StepsFrom("bist_init", ch) = 8
          /\ StepsFrom("calibrate", ch) = 7    /\ StepsFrom("bist_report", ch) = 6
          /\ StepsFrom("bist_pass", ch) = 5    /\ StepsFrom("bist_run", ch) = 4
          /\ StepsFrom("bist_fault", ch) = 3   /\ StepsFrom("bist_lock", ch) = 2
BY DEF StepsFrom, Channels

\* What is left is a number.
LEMMA LeftType ==
    ASSUME NEW pc \in TelPcs \ {"off"}, NEW ch \in Channels
    PROVE  StepsFrom(pc, ch) \in Nat
BY StepsOfPlaces, ConstantsAssumption DEF TelPcs, Channels

\* The sums TurnLeft is compared by.
LEMMA Fewer ==
    ASSUME NEW p \in Nat, NEW q \in Nat, NEW m \in Nat, NEW n \in Nat, NEW d \in Nat,
           q + 3 * n < p + 3 * m
    PROVE  q + 3 * n + d \in Nat /\ q + 3 * n + d < p + 3 * m + d
OBVIOUS

\* A step within a turn that keeps the samples.
LEMMA StepOn ==
    ASSUME IInv, telPc # "off", calDone' = calDone,
           telPc' \in TelPcs \ {"off"}, rxChan' \in Channels, Len(rxBuf') \in Nat,
           StepsFrom(telPc', rxChan') + 3 * Len(rxBuf')
              < StepsFrom(telPc, rxChan) + 3 * Len(rxBuf)
    PROVE  TurnLeft' \in Nat /\ TurnLeft' < TurnLeft
<1>1. /\ TurnLeft = StepsFrom(telPc, rxChan) + 3 * Len(rxBuf) + (CalSamples - calDone)
      /\ TurnLeft' = StepsFrom(telPc', rxChan') + 3 * Len(rxBuf') + (CalSamples - calDone)
  BY DEF TurnLeft
<1>2. StepsFrom(telPc, rxChan) \in Nat /\ StepsFrom(telPc', rxChan') \in Nat
  BY TurnPlace, LeftType
<1>3. CalSamples - calDone \in Nat
  BY TurnPlace
<1>. QED
  BY <1>1, <1>2, <1>3, TurnPlace, Fewer

\* One that keeps the commands as well.
LEMMA PlaceOn ==
    ASSUME IInv, telPc # "off", UNCHANGED <<rxChan, rxBuf, calDone>>,
           telPc' \in TelPcs \ {"off"},
           StepsFrom(telPc', rxChan) < StepsFrom(telPc, rxChan)
    PROVE  TurnLeft' \in Nat /\ TurnLeft' < TurnLeft
<1>1. /\ StepsFrom(telPc, rxChan) \in Nat /\ StepsFrom(telPc', rxChan) \in Nat
      /\ Len(rxBuf) \in Nat /\ rxChan \in Channels
  BY TurnPlace, LeftType
<1>. QED
  BY <1>1, StepOn

\* The telemetry task reads, answers and acts by state.
LEMMA ReadingShrinks ==
    ASSUME IInv, telPc # "off", telPc' # "off", ~ NewTurn,
           TelReceive \/ TelNextChannel \/ TelReject \/ TelFixProfile \/ TelAck \/ TelAdvance
             \/ TelAckReset \/ TelRestart \/ TelHeartbeat \/ TelDispatch \/ TelStream
    PROVE  TurnLeft' \in Nat /\ TurnLeft' < TurnLeft
<1>1. /\ rxChan \in Channels /\ rxBuf \in Seq(GroundCommands)
      /\ inbox \in [Channels -> Seq(GroundCommands)]
      /\ Len(rxBuf) \in Nat /\ InboxCap \in Nat
  BY TurnPlace DEF IInv, CoreInv, TypeOK
<1>2. CASE TelReceive
  <2>1. /\ rxBuf = <<>> /\ telPc = "receive" /\ telPc' = "handle"
        /\ rxChan' = rxChan /\ calDone' = calDone
    BY <1>2 DEF TelReceive, IInv, BufferInv, imuVars
  <2>2. /\ Len(rxBuf') \in Nat
        /\ rxChan = "uart" => Len(rxBuf') <= InboxCap
        /\ rxChan = "wifi" => Len(rxBuf') <= 1
    <3>1. /\ inbox[rxChan] \in Seq(GroundCommands) /\ Len(inbox[rxChan]) \in Nat
          /\ Len(inbox[rxChan]) <= InboxCap
      BY <1>1 DEF IInv, RoomInv
    <3>2. \/ Len(rxBuf') = Len(inbox[rxChan]) /\ (rxChan = "uart" \/ Len(rxBuf') = 0)
          \/ rxChan # "uart" /\ Len(rxBuf') = 1
      <4>1. CASE rxChan = "uart" \/ inbox[rxChan] = <<>>
        BY <1>2, <4>1 DEF TelReceive
      <4>2. CASE ~ (rxChan = "uart" \/ inbox[rxChan] = <<>>)
        <5>1. rxBuf' = <<Head(inbox[rxChan])>>
          BY <1>2, <4>2 DEF TelReceive
        <5>. QED
          BY <4>2, <5>1
      <4>. QED
        BY <4>1, <4>2
    <3>3. PICK k \in Nat : k = Len(inbox[rxChan]) /\ k <= InboxCap
      BY <3>1
    <3>4. CASE Len(rxBuf') = k /\ (rxChan = "uart" \/ Len(rxBuf') = 0)
      BY <3>3, <3>4
    <3>5. CASE rxChan # "uart" /\ Len(rxBuf') = 1
      BY <3>5
    <3>. QED
      BY <3>2, <3>3, <3>4, <3>5, Zenon
  <2>3. PICK n \in Nat : n = Len(rxBuf')
    BY <2>2
  <2>4. CASE rxChan = "uart"
    <3>1. 17 + 3 * n < 3 * InboxCap + 18 + 3 * 0
      BY <1>1, <2>2, <2>3, <2>4
    <3>. QED
      BY <1>1, <2>1, <2>3, <2>4, <3>1, StepsOfPlaces, StepOn DEF TelPcs
  <2>5. CASE rxChan = "wifi"
    <3>1. 12 + 3 * n < 16 + 3 * 0
      BY <2>2, <2>3, <2>5
    <3>. QED
      BY <1>1, <2>1, <2>3, <2>5, <3>1, StepsOfPlaces, StepOn DEF TelPcs
  <2>. QED
    BY <1>1, <2>4, <2>5 DEF Channels
<1>3. CASE TelNextChannel
  <2>1. /\ rxBuf = <<>> /\ rxBuf' = <<>> /\ telPc = "handle" /\ calDone' = calDone
        /\ \/ rxChan = "uart" /\ rxChan' = "wifi" /\ telPc' = "receive"
           \/ rxChan = "wifi" /\ rxChan' = "uart" /\ telPc' = "dispatch"
    BY <1>1, <1>3 DEF TelNextChannel, Channels, imuVars
  <2>. QED
    BY <2>1, StepsOfPlaces, StepOn DEF Channels, TelPcs
<1>4. CASE TelReject \/ TelAdvance
  <2>1. /\ rxBuf # <<>> /\ rxBuf' = Tail(rxBuf) /\ UNCHANGED <<rxChan, calDone>>
        /\ telPc \in {"handle", "advance"} /\ telPc' = "handle"
    BY <1>4 DEF TelReject, TelAdvance, IInv, CoreInv, OwnerInv, imuVars
  <2>2. Len(rxBuf') = Len(rxBuf) - 1 /\ Len(rxBuf') \in Nat
    BY <1>1, <2>1
  <2>3. PICK n \in Nat : n = Len(rxBuf) /\ Len(rxBuf') = n - 1
    BY <1>1, <2>2
  <2>4. /\ StepsFrom(telPc, rxChan) \in Nat /\ StepsFrom("handle", rxChan) \in Nat
        /\ StepsFrom("handle", rxChan) <= StepsFrom(telPc, rxChan) + 2
    <3>1. CASE rxChan = "uart"
      BY <2>1, <3>1, StepsOfPlaces
    <3>2. CASE rxChan = "wifi"
      BY <2>1, <3>2, StepsOfPlaces
    <3>. QED
      BY <1>1, <3>1, <3>2 DEF Channels
  <2>5. StepsFrom("handle", rxChan) + 3 * (n - 1) < StepsFrom(telPc, rxChan) + 3 * n
    BY <2>4
  <2>. QED
    BY <1>1, <2>1, <2>2, <2>3, <2>5, StepOn DEF TelPcs
<1>5. CASE TelFixProfile \/ TelAck \/ TelAckReset
  <2>1. /\ UNCHANGED <<rxChan, rxBuf, calDone>>
        /\ \/ telPc = "handle" /\ telPc' \in {"ack", "reset"}
           \/ telPc = "ack" /\ telPc' = "advance"
    BY <1>5 DEF TelFixProfile, TelAck, TelAckReset, imuVars
  <2>2. StepsFrom(telPc', rxChan) < StepsFrom(telPc, rxChan)
    BY <1>1, <2>1, StepsOfPlaces DEF Channels
  <2>. QED
    BY <2>1, <2>2, PlaceOn DEF TelPcs
<1>6. CASE TelDispatch
  <2>1. /\ telPc = "dispatch" /\ telPc' \in {"bist_init", "stream"}
        /\ UNCHANGED <<rxChan, rxBuf, calDone>>
    BY <1>6 DEF TelDispatch, TelEnter, imuVars, telVars, NewTurn, IInv, BufferInv
  <2>2. StepsFrom(telPc', rxChan) < StepsFrom(telPc, rxChan)
    BY <1>1, <2>1, StepsOfPlaces
  <2>. QED
    BY <2>1, <2>2, PlaceOn DEF TelPcs
<1>7. CASE TelHeartbeat \/ TelStream
  BY <1>7 DEF TelHeartbeat, TelStream, NewTurn, IInv, BufferInv
<1>8. CASE TelRestart
  BY <1>8 DEF TelRestart, Restart
<1>. QED
  BY <1>2, <1>3, <1>4, <1>5, <1>6, <1>7, <1>8

\* The telemetry task tests.
LEMMA TestingShrinks ==
    ASSUME IInv, telPc # "off", ~ NewTurn,
           TelInitDriver \/ TelCalibrate \/ TelEndCalibration \/ TelReportPass \/ TelPass
             \/ TelRun \/ TelFault \/ TelLock
    PROVE  TurnLeft' \in Nat /\ TurnLeft' < TurnLeft
<1>1. rxChan \in Channels
  BY TurnPlace
<1>2. CASE TelCalibrate
  <2>1. UNCHANGED <<telPc, rxChan, rxBuf>> /\ telPc = "calibrate"
    BY <1>2 DEF TelCalibrate, telVars
  <2>2. calDone < CalSamples /\ calDone' = calDone + 1
    BY <1>2 DEF TelCalibrate, Counted
  <2>3. /\ TurnLeft = StepsFrom(telPc, rxChan) + 3 * Len(rxBuf) + (CalSamples - calDone)
        /\ TurnLeft' = StepsFrom(telPc, rxChan) + 3 * Len(rxBuf) + (CalSamples - calDone')
    BY <2>1 DEF TurnLeft
  <2>4. StepsFrom(telPc, rxChan) = 7 /\ Len(rxBuf) = 0
    BY <1>1, <2>1, StepsOfPlaces, TurnPlace
  <2>. QED
    BY <2>2, <2>3, <2>4, TurnPlace
<1>3. CASE TelInitDriver \/ TelEndCalibration \/ TelReportPass \/ TelPass \/ TelFault
  <2>1. /\ UNCHANGED <<rxChan, rxBuf, calDone>>
        /\ \/ telPc = "bist_init" /\ telPc' \in {"calibrate", "bist_fault"}
           \/ telPc = "calibrate" /\ telPc' \in {"bist_report", "bist_fault"}
           \/ telPc = "bist_report" /\ telPc' = "bist_pass"
           \/ telPc = "bist_pass" /\ telPc' = "bist_run"
           \/ telPc = "bist_fault" /\ telPc' = "bist_lock"
    BY <1>3
    DEF TelInitDriver, TelEndCalibration, TelReportPass, TelPass, TelFault, imuVars
  <2>2. telPc' \in TelPcs \ {"off"} /\ StepsFrom(telPc', rxChan) < StepsFrom(telPc, rxChan)
    BY <1>1, <2>1, StepsOfPlaces DEF TelPcs
  <2>. QED
    BY <2>1, <2>2, PlaceOn
<1>4. CASE TelRun \/ TelLock
  BY <1>4 DEF TelRun, TelLock, NewTurn, IInv, BufferInv, BistPcs
<1>. QED
  BY <1>2, <1>3, <1>4

\* Nobody else moves the task, what it has read or the calibration.
LEMMA TurnStep ==
    ASSUME IInv, Next, telPc # "off", telPc' # "off", ~ NewTurn
    PROVE  /\ TurnLeft' \in Nat /\ TurnLeft' <= TurnLeft
           /\ TelemetryTask => TurnLeft' < TurnLeft
<1>1. TurnLeft \in Nat
  <2>1. StepsFrom(telPc, rxChan) \in Nat
    BY TurnPlace, LeftType
  <2>. QED
    BY <2>1, TurnPlace DEF TurnLeft
<1>2. CASE TelemetryTask
  <2>1. TurnLeft' \in Nat /\ TurnLeft' < TurnLeft
    BY <1>2, ReadingShrinks, TestingShrinks DEF TelemetryTask
  <2>. QED
    BY <1>1, <2>1
<1>3. CASE ~ TelemetryTask
  <2>1. ~ Restart
    BY DEF Restart
  <2>2. MainTask => UNCHANGED <<telVars, calDone>>
    BY <2>1
    DEF MainTask, MainSetState, MainStartTelemetry, MainAbort, MainStartGnc, IInv, CoreInv,
        BootInv, imuVars
  <2>3. GncTask \/ GroundSend => UNCHANGED <<telVars, calDone>>
    BY DEF GncTask, GncWake, GncCompare, GncConfigure, GncReadFails, GncLock, GncReadOk,
           GncRecover, GncLoadFlags, GncLoadState, GncLoadProfile, GncOverwrite, GroundSend,
           imuVars
  <2>4. TurnLeft' = TurnLeft
    BY <1>3, <2>1, <2>2, <2>3 DEF Next, PowerCycle, TurnLeft, telVars
  <2>. QED
    BY <1>1, <1>3, <2>4
<1>. QED
  BY <1>2, <1>3

\* A turn of the telemetry task ends after at most 18 of its steps, three for each command the
\* UART held when it began and one for each sample, whatever the ground sends meanwhile.
THEOREM TurnEnds == Spec => TurnShrinks
<1>1. IInv /\ [Next]_vars =>
        [telPc # "off" /\ telPc' # "off" /\ ~ NewTurn =>
            /\ TurnLeft' \in Nat /\ TurnLeft' <= TurnLeft
            /\ TelemetryTask => TurnLeft' < TurnLeft]_vars
  BY TurnStep
<1> QED
  BY Invariance, <1>1, PTL DEF Spec, TurnShrinks

\* And the self test ends with it: no new turn begins before the state has changed.
THEOREM TestEnds == Spec => TestShrinks
<1>1. IInv /\ IInv' /\ [Next]_vars =>
        [sysState = "BIST_AND_CALIBRATION" /\ sysState' = "BIST_AND_CALIBRATION" =>
            /\ TurnLeft' \in Nat /\ TurnLeft' <= TurnLeft
            /\ TelemetryTask => TurnLeft' < TurnLeft]_vars
  <2> SUFFICES ASSUME IInv, IInv', Next,
                      sysState = "BIST_AND_CALIBRATION", sysState' = "BIST_AND_CALIBRATION"
               PROVE  /\ TurnLeft' \in Nat /\ TurnLeft' <= TurnLeft
                      /\ TelemetryTask => TurnLeft' < TurnLeft
    OBVIOUS
  <2>1. telPc # "off" /\ telPc' # "off"
    BY DEF IInv, CoreInv, BootInv
  <2>2. ~ NewTurn
    BY DEF IInv, BufferInv, NewTurn
  <2>. QED
    BY <2>1, <2>2, TurnStep
<1> QED
  BY Invariance, <1>1, PTL DEF Spec, TestShrinks

(***************************************************************************)
(* The silence of the estimator                                            *)
(***************************************************************************)

LEMMA QueueingType ==
    ASSUME NEW pc \in GncPcs, NEW new \in BOOLEAN, NEW e \in 0..MaxI2cErrors
    PROVE  QueueingFrom(pc, new, e) \in Nat
BY ConstantsAssumption DEF QueueingFrom, GncPcs

\* While the estimator runs, the other tasks leave the GNC task and the profile alone.
LEMMA OthersSilent ==
    ASSUME IInv, Next, ~ GncTask,
           sysState = "RUNNING_ESTIMATOR", sysState' = "RUNNING_ESTIMATOR"
    PROVE  MainStartGnc \/ UNCHANGED <<gncVars, profile>>
<1>1. ~ Restart
  BY DEF Restart
<1>2. MainTask => MainStartGnc
  BY <1>1 DEF MainTask, MainSetState, MainStartTelemetry, MainAbort, IInv, CoreInv, BootInv
<1>3. ~ TelFixProfile
  BY FixProfileGuard DEF IInv, CoreInv
<1>4. TelReceive \/ TelNextChannel \/ TelReject \/ TelAck \/ TelAdvance \/ TelAckReset
        \/ TelHeartbeat \/ TelDispatch \/ TelStream => UNCHANGED <<gncVars, profile>>
  BY DEF TelReceive, TelNextChannel, TelReject, TelAck, TelAdvance, TelAckReset,
         TelHeartbeat, TelDispatch, TelEnter, TelStream, shared
<1>5. TelInitDriver \/ TelCalibrate \/ TelEndCalibration \/ TelReportPass \/ TelPass \/ TelRun
        \/ TelFault \/ TelLock => UNCHANGED <<gncVars, profile>>
  BY DEF TelInitDriver, TelCalibrate, TelEndCalibration, TelReportPass, TelPass, TelRun,
         TelFault, TelLock, shared
<1>6. GroundSend => UNCHANGED <<gncVars, profile>>
  BY DEF GroundSend, shared
<1>. QED
  BY <1>1, <1>2, <1>3, <1>4, <1>5, <1>6 DEF Next, TelemetryTask, TelRestart, PowerCycle

LEMMA SilenceStep ==
    ASSUME IInv, IInv', Next, queue' = {},
           sysState = "RUNNING_ESTIMATOR", sysState' = "RUNNING_ESTIMATOR"
    PROVE  /\ SilenceLeft' \in Nat /\ SilenceLeft' <= SilenceLeft
           /\ GncTask => SilenceLeft' < SilenceLeft
<1>1. /\ i2cErrors \in 0..MaxI2cErrors /\ i2cErrors' \in 0..MaxI2cErrors
      /\ gncPc \in GncPcs /\ gncPc' \in GncPcs
      /\ NewProfile \in BOOLEAN /\ NewProfile' \in BOOLEAN /\ MaxI2cErrors \in Nat
  BY ConstantsAssumption DEF IInv, CoreInv, TypeOK, NewProfile
<1>2. SilenceLeft \in Nat /\ SilenceLeft' \in Nat
  BY <1>1, QueueingType DEF SilenceLeft
<1>3. CASE GncTask
  <2>1. CASE GncWake
    BY <1>1, <2>1 DEF GncWake, SilenceLeft, QueueingFrom, NewProfile, shared
  <2>2. CASE GncCompare
    BY <1>1, <2>2 DEF GncCompare, SilenceLeft, QueueingFrom, NewProfile, shared
  <2>3. CASE GncConfigure
    BY <1>1, <2>3 DEF GncConfigure, SilenceLeft, QueueingFrom
  <2>4. CASE GncReadFails
    BY <1>1, <2>4 DEF GncReadFails, Errors, SilenceLeft, QueueingFrom, NewProfile,
                      IInv, CoreInv, DriverInv, ActiveGnc, Loading
  <2>5. CASE GncLock
    BY <2>5 DEF GncLock, StateAfterLoss
  <2>6. CASE GncReadOk \/ GncRecover \/ GncLoadFlags \/ GncLoadState \/ GncLoadProfile
    BY <1>1, <2>6 DEF GncReadOk, GncRecover, GncLoadFlags, GncLoadState, GncLoadProfile,
                      SilenceLeft, QueueingFrom
  <2>7. CASE GncOverwrite
    BY <2>7 DEF GncOverwrite, IInv, CoreInv, PayloadInv, Loading
  <2>. QED
    BY <1>2, <1>3, <2>1, <2>2, <2>3, <2>4, <2>5, <2>6, <2>7 DEF GncTask
<1>4. CASE MainStartGnc
  <2>1. gncPc = "off" /\ gncPc' = "wait"
    BY <1>4 DEF MainStartGnc, IInv, CoreInv, BootInv
  <2>2. SilenceLeft' <= SilenceLeft
    BY <1>1, <2>1 DEF SilenceLeft, QueueingFrom
  <2>3. ~ GncTask
    BY <2>1 DEF GncTask, GncWake, GncCompare, GncConfigure, GncReadFails, GncLock,
                GncReadOk, GncRecover, GncLoadFlags, GncLoadState, GncLoadProfile,
                GncOverwrite
  <2>. QED
    BY <1>2, <2>2, <2>3
<1>5. CASE ~ GncTask /\ UNCHANGED <<gncVars, profile>>
  <2>1. SilenceLeft' = SilenceLeft
    BY <1>5 DEF SilenceLeft, NewProfile, gncVars
  <2>. QED
    BY <1>2, <1>5, <2>1
<1>. QED
  BY <1>3, <1>4, <1>5, OthersSilent

\* A running estimator queues its next payload, or loses the bus, after at most nine steps of
\* the GNC task and three for each failed transfer the limit allows.
THEOREM SilenceEnds == Spec => SilenceShrinks
<1>1. IInv /\ IInv' /\ [Next]_vars =>
        [sysState = "RUNNING_ESTIMATOR" /\ sysState' = "RUNNING_ESTIMATOR" /\ queue' = {} =>
            /\ SilenceLeft' \in Nat /\ SilenceLeft' <= SilenceLeft
            /\ GncTask => SilenceLeft' < SilenceLeft]_vars
  BY SilenceStep
<1> QED
  BY Invariance, <1>1, PTL DEF Spec, SilenceShrinks

(***************************************************************************)
(* The refinement                                                          *)
(***************************************************************************)

\* Every step of the code is a step of FlightFSM or leaves its variables alone: five of
\* the six writes of the state consult no table, and are legal because of the state
\* their program counter implies.
LEMMA FsmStep == CoreInv /\ [Next]_vars => [FSM!Next]_(FSM!fsmVars)
<1> SUFFICES ASSUME CoreInv, [Next]_vars PROVE [FSM!Next]_(FSM!fsmVars)
  OBVIOUS
<1> USE DEF FSM!Next, FSM!fsmVars, FSM!SystemStates, FSM!ValidTransition, shared, vars
<1>1. CASE MainSetState
  <2>1. FSM!Advance("AWAITING_PROFILE")
    BY <1>1 DEF MainSetState, FSM!Advance, CoreInv, BootInv
  <2> QED
    BY <2>1
<1>2. CASE TelFixProfile
  <2>1. FSM!FixProfile(Head(rxBuf).id) /\ Head(rxBuf).id \in Profiles
    BY <1>2, FixProfileGuard DEF TelFixProfile, FSM!FixProfile, CoreInv, ProfileInv
  <2> QED
    BY <2>1
<1>3. CASE TelAdvance
  <2>1. FSM!Advance("BIST_AND_CALIBRATION")
    BY <1>3, ProfilesAssumption
    DEF TelAdvance, FSM!Advance, ValidTransition, CoreInv, OwnerInv, ProfileInv
  <2> QED
    BY <2>1
<1>4. CASE TelRun
  <2>1. FSM!Advance("RUNNING_ESTIMATOR")
    BY <1>4 DEF TelRun, FSM!Advance, CoreInv, OwnerInv, BistPcs
  <2> QED
    BY <2>1
<1>5. CASE TelLock
  <2>1. FSM!Advance("HARD_FAULT_LOCK")
    BY <1>5 DEF TelLock, FSM!Advance, CoreInv, OwnerInv, BistPcs
  <2> QED
    BY <2>1
<1>6. CASE GncLock
  <2>1. FSM!Advance("HARD_FAULT_LOCK")
    BY <1>6 DEF GncLock, StateAfterLoss, FSM!Advance, CoreInv, OwnerInv, ActiveGnc, Loading
  <2> QED
    BY <2>1
<1>7. CASE Restart
  BY <1>7 DEF Restart, FSM!Restart
<1>8. CASE UNCHANGED <<sysState, profile>>
  BY <1>8
<1> QED
  <2>1. MainTask => MainSetState \/ Restart \/ UNCHANGED <<sysState, profile>>
    BY DEF MainTask, MainStartTelemetry, MainAbort, MainStartGnc
  <2>2. TelemetryTask => \/ TelFixProfile \/ TelAdvance \/ TelRun \/ TelLock \/ Restart
                         \/ UNCHANGED <<sysState, profile>>
    BY DEF TelemetryTask, TelReceive, TelNextChannel, TelReject, TelAck, TelAckReset,
           TelRestart, TelHeartbeat, TelDispatch, TelEnter, TelStream, TelInitDriver,
           TelCalibrate, TelEndCalibration, TelReportPass, TelPass, TelFault
  <2>3. GncTask => GncLock \/ UNCHANGED <<sysState, profile>>
    BY DEF GncTask, GncWake, GncCompare, GncConfigure, GncReadFails, GncReadOk, GncRecover,
           GncLoadFlags, GncLoadState, GncLoadProfile, GncOverwrite
  <2>4. GroundSend => UNCHANGED <<sysState, profile>>
    BY DEF GroundSend
  <2> QED
    BY <1>1, <1>2, <1>3, <1>4, <1>5, <1>6, <1>7, <1>8, <2>1, <2>2, <2>3, <2>4
    DEF Next, PowerCycle

\* The firmware implements the state machine it documents.
THEOREM Refinement == Spec => FsmSpec
<1>1. Init => FSM!Init
  BY DEF Init, FSM!Init
<1>2. CoreInv /\ [Next]_vars => [FSM!Next]_(FSM!fsmVars)
  BY FsmStep
<1> QED
  BY <1>1, <1>2, CoreInvariance, PTL DEF Spec, FsmSpec, FSM!Spec

\* A step without a frame is not seen unless it changes the mode or the profile.
LEMMA Unseen ==
    ASSUME sent' = sent, Mode' = Mode, Chosen' = Chosen
    PROVE  UNCHANGED View!modeVars
<1>1. Told' = Told
  BY DEF Told
<1> QED
  BY <1>1 DEF View!modeVars

\* The operator's view of the initial states and of a restart.
LEMMA RestartSeen == CoreInv /\ Restart => View!Restart
  BY DEF Restart, View!Restart, Mode, Chosen, Told, NoFrame

\* Commands: the frame that answers one is the change it announces, and the stores behind
\* it are not seen.
LEMMA CommandSeen ==
    CoreInv /\ (TelReceive \/ TelNextChannel \/ TelReject \/ TelFixProfile \/ TelAck
                \/ TelAdvance \/ TelAckReset \/ TelRestart) => [View!Next]_(View!modeVars)
<1> SUFFICES ASSUME CoreInv,
                    TelReceive \/ TelNextChannel \/ TelReject \/ TelFixProfile \/ TelAck
                       \/ TelAdvance \/ TelAckReset \/ TelRestart
             PROVE  [View!Next]_(View!modeVars)
  OBVIOUS
<1> USE DEF View!Next, View!modeVars, shared
<1>1. CASE TelReceive
  <2>1. sent' = sent /\ Chosen' = Chosen
    BY <1>1 DEF TelReceive, Chosen
  <2>2. Mode' = Mode
    BY <1>1 DEF TelReceive, Mode
  <2> QED
    BY <2>1, <2>2, Unseen
<1>2. CASE TelNextChannel
  <2>0. telPc = "handle" /\ telPc' \in {"receive", "dispatch"}
    BY <1>2 DEF TelNextChannel
  <2>1. UNCHANGED <<sysState, profile, flags, sent>> /\ sysState \in SystemStates
    BY <1>2 DEF TelNextChannel, ground, CoreInv, TypeOK
  <2>2. Mode' = Mode
    BY <2>0, <2>1 DEF Mode, SystemStates
  <2>3. Chosen' = Chosen
    BY <2>0, <2>1 DEF Chosen
  <2> QED
    BY <2>1, <2>2, <2>3, Unseen
<1>3. CASE TelReject
  <2>1. View!Tell("rejected", {"awaiting", "testing", "failed", "running", "lost"})
    <3>1. sysState \in SystemStates \ {"UNINITIALIZED"} /\ telPc = "handle" /\ telPc' = telPc
      BY <1>3 DEF TelReject, CoreInv, TypeOK, BootInv
    <3>2. Mode \in {"awaiting", "testing", "failed", "running", "lost"}
      BY <3>1 DEF Mode, SystemStates
    <3>3. Told' = "rejected"
      BY <1>3 DEF TelReject, Told, AckNack, Rejection
    <3>4. Mode' = Mode /\ Chosen' = Chosen
      BY <1>3 DEF TelReject, Mode, Chosen
    <3> QED
      BY <3>2, <3>3, <3>4 DEF View!Tell
  <2> QED
    BY <2>1
<1>4. CASE TelFixProfile
  <2>1. profile = NoProfile /\ sysState = "AWAITING_PROFILE"
    BY <1>4, FixProfileGuard DEF TelFixProfile, CoreInv, ProfileInv
  <2>2. sent' = sent /\ Chosen' = Chosen
    BY <1>4, <2>1 DEF TelFixProfile, ground, Chosen
  <2>3. Mode' = Mode
    BY <1>4, <2>1 DEF TelFixProfile, Mode
  <2> QED
    BY <2>2, <2>3, Unseen
<1>5. CASE TelAck
  <2>1. profile \in Profiles /\ sysState = "AWAITING_PROFILE"
    BY <1>5 DEF TelAck, CoreInv, ProfileInv, OwnerInv
  <2>2. View!Accept(profile)
    BY <1>5, <2>1 DEF TelAck, View!Accept, View!Announce, Mode, Chosen, Told, AckNack
  <2> QED
    BY <2>1, <2>2
<1>6. CASE TelAdvance
  <2>1. sysState = "AWAITING_PROFILE"
    BY <1>6 DEF TelAdvance, CoreInv, OwnerInv
  <2>2. sent' = sent /\ Chosen' = Chosen
    BY <1>6, <2>1 DEF TelAdvance, ValidTransition, ground, Chosen
  <2>3. Mode' = Mode
    BY <1>6, <2>1 DEF TelAdvance, ValidTransition, Mode
  <2> QED
    BY <2>2, <2>3, Unseen
<1>7. CASE TelAckReset
  <2>1. sysState \in SystemStates \ {"UNINITIALIZED"}
    BY <1>7 DEF TelAckReset, CoreInv, TypeOK, BootInv
  <2>2. View!AckReset
    BY <1>7, <2>1
    DEF TelAckReset, View!AckReset, Mode, Chosen, Told, AckNack, SystemStates
  <2> QED
    BY <2>2
<1>8. CASE TelRestart
  BY <1>8, RestartSeen DEF TelRestart
<1> QED
  BY <1>1, <1>2, <1>3, <1>4, <1>5, <1>6, <1>7, <1>8

\* Reports and telemetry.
LEMMA TestSeen ==
    CoreInv /\ (TelHeartbeat \/ TelDispatch \/ TelStream \/ TelInitDriver \/ TelCalibrate
                \/ TelEndCalibration \/ TelReportPass \/ TelPass \/ TelRun \/ TelFault
                \/ TelLock) => [View!Next]_(View!modeVars)
<1> SUFFICES ASSUME CoreInv,
                    TelHeartbeat \/ TelDispatch \/ TelStream \/ TelInitDriver \/ TelCalibrate
                       \/ TelEndCalibration \/ TelReportPass \/ TelPass \/ TelRun \/ TelFault
                       \/ TelLock
             PROVE  [View!Next]_(View!modeVars)
  OBVIOUS
<1> USE DEF View!Next, View!modeVars, shared, telVars
<1>1. CASE TelHeartbeat
  <2>1. CASE UNCHANGED sent
    <3>1. sent' = sent /\ Chosen' = Chosen
      BY <1>1, <2>1 DEF TelHeartbeat, Chosen
    <3>2. Mode' = Mode
      BY <1>1, <2>1 DEF TelHeartbeat, Mode
    <3> QED
      BY <3>1, <3>2, Unseen
  <2>2. CASE sent' = Heartbeat(sysState)
    <3>1. View!Tell("heartbeat", {"awaiting"})
      BY <1>1, <2>2
      DEF TelHeartbeat, HeartbeatStates, Heartbeat, View!Tell, Mode, Chosen, Told
    <3> QED
      BY <3>1
  <2> QED
    BY <1>1, <2>1, <2>2 DEF TelHeartbeat
<1>2. CASE TelDispatch
  <2>1. sent' = sent /\ Chosen' = Chosen
    BY <1>2 DEF TelDispatch, TelEnter, ground, Chosen
  <2>2. Mode' = Mode
    BY <1>2 DEF TelDispatch, TelEnter, ground, Mode
  <2> QED
    BY <2>1, <2>2, Unseen
<1>3. CASE TelStream
  <2>1. CASE queue = {}
    <3>1. sent' = sent /\ Chosen' = Chosen
      BY <1>3, <2>1 DEF TelStream, Chosen
    <3>2. Mode' = Mode
      BY <1>3, <2>1 DEF TelStream, Mode
    <3> QED
      BY <3>1, <3>2, Unseen
  <2>2. CASE queue # {}
    <3>1. /\ sysState \in {"RUNNING_ESTIMATOR", "HARD_FAULT_LOCK"}
          /\ "BIST_PASSED" \in flags
      BY <2>2 DEF CoreInv, PayloadInv
    <3>2. PICK p \in queue : sent' = Telemetry(p)
      BY <1>3, <2>2 DEF TelStream
    <3>3. View!Tell("telemetry", {"running", "lost"})
      BY <1>3, <3>1, <3>2 DEF TelStream, Telemetry, View!Tell, Mode, Chosen, Told
    <3> QED
      BY <3>3
  <2> QED
    BY <2>1, <2>2
<1>4. sysState = "BIST_AND_CALIBRATION" \/ TelHeartbeat \/ TelDispatch \/ TelStream
  BY DEF CoreInv, OwnerInv, BistPcs, TelInitDriver, TelCalibrate, TelEndCalibration,
         TelReportPass, TelPass, TelRun, TelFault, TelLock
<1>5. CASE sysState = "BIST_AND_CALIBRATION" /\ TelInitDriver
  <2>1. CASE sent' = sent /\ telPc' = "calibrate"
    BY <1>5, <2>1 DEF TelInitDriver, Mode, Chosen, Told
  <2>2. CASE sent' = BistReport("IMU_COMM_FAIL", 0) /\ telPc' = "bist_fault"
    <3>1. View!Conclude
      BY <1>5, <2>2
      DEF TelInitDriver, BistReport, View!Conclude, View!Announce, Mode, Chosen, Told
    <3> QED
      BY <3>1
  <2> QED
    BY <1>5, <2>1, <2>2 DEF TelInitDriver
<1>6. CASE sysState = "BIST_AND_CALIBRATION" /\ TelCalibrate
  <2>1. CASE sent' = sent
    <3>1. sent' = sent /\ Chosen' = Chosen
      BY <1>6, <2>1 DEF TelCalibrate, Chosen
    <3>2. Mode' = Mode
      BY <1>6, <2>1 DEF TelCalibrate, Mode
    <3> QED
      BY <3>1, <3>2, Unseen
  <2>2. CASE sent' = BistReport("OK", Progress(calDone))
    <3>1. Progress(calDone) \in Int /\ Progress(calDone) < 100
      <4>1. calDone \in 0..(CalSamples - 1)
        BY <1>6, ConstantsAssumption DEF TelCalibrate, CoreInv, TypeOK
      <4> QED
        BY <4>1, ProgressBelowHundred
    <3>2. Told' = "progress"
      BY <2>2, <3>1 DEF Told, BistReport
    <3>3. View!Tell("progress", {"testing"})
      BY <1>6, <3>2 DEF TelCalibrate, View!Tell, Mode, Chosen
    <3> QED
      BY <3>3
  <2> QED
    BY <1>6, <2>1, <2>2 DEF TelCalibrate
<1>7. CASE sysState = "BIST_AND_CALIBRATION" /\ TelEndCalibration
  <2>1. CASE sent' = sent /\ telPc' = "bist_report"
    BY <1>7, <2>1 DEF TelEndCalibration, Mode, Chosen, Told
  <2>2. CASE sent' = BistReport("IMU_NOISE_EXCESSIVE", 0) /\ telPc' = "bist_fault"
    <3>1. View!Conclude
      BY <1>7, <2>2
      DEF TelEndCalibration, BistReport, View!Conclude, View!Announce, Mode, Chosen, Told
    <3> QED
      BY <3>1
  <2> QED
    BY <1>7, <2>1, <2>2 DEF TelEndCalibration
<1>8. CASE sysState = "BIST_AND_CALIBRATION" /\ TelReportPass
  <2>1. View!Conclude
    BY <1>8
    DEF TelReportPass, BistReport, View!Conclude, View!Announce, Mode, Chosen, Told
  <2> QED
    BY <2>1
<1>9. CASE sysState = "BIST_AND_CALIBRATION" /\ (TelPass \/ TelRun)
  <2>1. sent' = sent /\ Chosen' = Chosen
    BY <1>9 DEF TelPass, TelRun, ground, Chosen
  <2>2. Mode' = Mode
    BY <1>9 DEF TelPass, TelRun, ground, Mode
  <2> QED
    BY <2>1, <2>2, Unseen
<1>10. CASE sysState = "BIST_AND_CALIBRATION" /\ (TelFault \/ TelLock)
  <2>1. telPc = "bist_lock" => "BIST_PASSED" \notin flags
    BY <1>10 DEF CoreInv, FlagsInv
  <2>2. sent' = sent /\ Chosen' = Chosen
    BY <1>10, <2>1 DEF TelFault, FaultFlags, TelLock, ground, Chosen
  <2>3. Mode' = Mode
    BY <1>10, <2>1 DEF TelFault, FaultFlags, TelLock, ground, Mode
  <2> QED
    BY <2>2, <2>3, Unseen
<1> QED
  BY <1>1, <1>2, <1>3, <1>4, <1>5, <1>6, <1>7, <1>8, <1>9, <1>10

\* The GNC task is seen through its payloads, and when it loses the sensor.
LEMMA GncSeen == CoreInv /\ GncTask => [View!Next]_(View!modeVars)
<1> SUFFICES ASSUME CoreInv, GncTask PROVE [View!Next]_(View!modeVars)
  OBVIOUS
<1> USE DEF View!Next, View!modeVars, shared, ground, telVars
<1>1. UNCHANGED <<telPc, profile, sent>>
  BY DEF GncTask, GncWake, GncCompare, GncConfigure, GncReadFails, GncLock, GncReadOk,
         GncRecover, GncLoadFlags, GncLoadState, GncLoadProfile, GncOverwrite
<1>2. Chosen' = Chosen /\ Told' = Told
  BY <1>1 DEF Chosen, Told
<1>3. CASE GncLock
  <2>1. /\ sysState = "RUNNING_ESTIMATOR" /\ "BIST_PASSED" \in flags /\ flags' = flags
        /\ sysState' = "HARD_FAULT_LOCK"
    BY <1>3 DEF GncLock, StateAfterLoss, CoreInv, OwnerInv, FlagsInv, ActiveGnc, Loading
  <2>2. telPc \notin {"advance", "bist_pass", "bist_run", "bist_fault", "bist_lock"}
    BY <2>1 DEF CoreInv, OwnerInv, BistPcs
  <2>3. (Mode = "running" /\ Mode' = "lost") \/ Mode' = Mode
    BY <1>1, <2>1, <2>2 DEF Mode
  <2> QED
    BY <1>2, <2>3 DEF View!Lose
<1>4. CASE ~ GncLock
  <2>1. sysState' = sysState /\ ("BIST_PASSED" \in flags' <=> "BIST_PASSED" \in flags)
    BY <1>4
    DEF GncTask, GncWake, GncCompare, GncConfigure, GncReadFails, FlagsAfterError,
        GncReadOk, FlagsAfterSuccess, GncRecover, GncLoadFlags, GncLoadState,
        GncLoadProfile, GncOverwrite
  <2>2. Mode' = Mode
    BY <1>1, <2>1 DEF Mode
  <2> QED
    BY <1>2, <2>2
<1> QED
  BY <1>3, <1>4

\* Every step of the code is a step the operator is promised, or none at all.
LEMMA VehicleStep == CoreInv /\ [Next]_vars => [View!Next]_(View!modeVars)
<1> SUFFICES ASSUME CoreInv, [Next]_vars PROVE [View!Next]_(View!modeVars)
  OBVIOUS
<1>1. CASE MainSetState
  <2>1. sent = NoFrame /\ telPc = "off" /\ sysState = "UNINITIALIZED"
    BY <1>1 DEF MainSetState, CoreInv, BootInv, SentInv
  <2>2. View!Boot
    BY <1>1, <2>1
    DEF MainSetState, ground, telVars, View!Boot, Mode, Chosen, Told, NoFrame
  <2> QED
    BY <2>2 DEF View!Next
<1>2. CASE MainStartTelemetry \/ MainStartGnc
  <2>1. (telPc = "off" /\ telPc' = "receive") \/ telPc' = telPc
    BY <1>2 DEF MainStartTelemetry, MainStartGnc, CoreInv, BootInv, telVars
  <2>2. UNCHANGED <<sysState, profile, flags, sent>>
    BY <1>2 DEF MainStartTelemetry, MainStartGnc, shared, ground
  <2>3. sysState \in SystemStates
    BY DEF CoreInv, TypeOK
  <2>4. Mode' = Mode
    BY <2>1, <2>2, <2>3 DEF Mode, SystemStates
  <2>5. Chosen' = Chosen
    BY <2>1, <2>2 DEF Chosen
  <2> QED
    BY <2>2, <2>4, <2>5, Unseen
<1>3. CASE GroundSend \/ UNCHANGED vars
  BY <1>3 DEF GroundSend, vars, shared, ground, telVars, View!modeVars, Mode, Chosen, Told
<1>4. CASE Restart
  BY <1>4, RestartSeen DEF View!Next
<1> QED
  BY <1>1, <1>2, <1>3, <1>4, CommandSeen, TestSeen, GncSeen
  DEF Next, MainTask, MainAbort, TelemetryTask, PowerCycle

\* What the operator makes of the frames is what the vehicle does: every announced change
\* happens with its announcement, and none happens without, but for two.
THEOREM VehicleAsSeen == Spec => VehicleSpec
<1>1. Init => View!Init
  BY DEF Init, View!Init, Mode, Chosen, Told, NoFrame
<1> QED
  BY <1>1, VehicleStep, CoreInvariance, PTL DEF Spec, VehicleSpec, View!Spec

================================================================================

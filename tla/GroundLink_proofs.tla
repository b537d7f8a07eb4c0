---------------------------- MODULE GroundLink_proofs ----------------------------
(***************************************************************************)
(* Theorems about GroundLink, for every set of profiles and of commands of *)
(* other stations and for queues of any length.  Nothing here needs the    *)
(* fairness of Spec.                                                       *)
(***************************************************************************)
EXTENDS GroundLink, TLAPS

\* A queue of elements of S stays one when some copies of another are put in.
LEMMA EnqueueType ==
    ASSUME NEW S, NEW q \in Seq(S), NEW x \in S, NEW cap \in Nat, Len(q) <= cap,
           NEW r \in Enqueue(q, x, cap)
    PROVE  r \in Seq(S) /\ Len(r) <= cap
<1>1. PICK n \in Copies : r = IF Len(q \o [i \in 1..n |-> x]) <= cap
                              THEN q \o [i \in 1..n |-> x] ELSE q
  BY DEF Enqueue
<1>2. n \in Nat
  BY <1>1 DEF Copies
<1>3. [i \in 1..n |-> x] \in Seq(S)
  BY <1>2
<1>4. q \o [i \in 1..n |-> x] \in Seq(S)
  BY <1>3
<1>. QED
  BY <1>1, <1>4

\* So does a queue from which one is taken.
LEMMA RemoveType ==
    ASSUME NEW S, NEW q \in Seq(S), NEW i \in NextOf(q)
    PROVE  /\ q[i] \in S
           /\ RemoveAt(q, i) \in Seq(S)
           /\ Len(RemoveAt(q, i)) <= Len(q)
<1>1. i \in 1..Len(q)
  BY DEF NextOf
<1>. DEFINE a == SubSeq(q, 1, i - 1)
            b == SubSeq(q, i + 1, Len(q))
<1>2. a \in Seq(S) /\ Len(a) = i - 1
  BY <1>1
<1>3. b \in Seq(S) /\ Len(b) = Len(q) - i
  BY <1>1
<1>4. RemoveAt(q, i) = a \o b
  BY DEF RemoveAt
<1>5. q[i] \in S /\ Len(q) \in Nat /\ i \in Int
  BY <1>1
<1>. HIDE DEF a, b
<1>6. a \o b \in Seq(S) /\ Len(a \o b) = Len(a) + Len(b)
  BY <1>2, <1>3
<1>. QED
  BY <1>2, <1>3, <1>4, <1>5, <1>6

\* What is transmitted arrives in the queue or does not.
LEMMA TransmitType ==
    ASSUME LinkInv, NEW f \in HonestFrames, Transmit(f)
    PROVE  down' \in Seq(HonestFrames) /\ Len(down') <= DownCap
<1>1. DownCap \in Nat /\ Len(down) <= DownCap /\ down \in Seq(HonestFrames)
  BY LinkAssumption DEF LinkInv, TypeOK
<1>. QED
  BY <1>1, EnqueueType DEF Transmit

\* Without a frame sent, the queue may still be typed over more frames than before.
LEMMA QueueKept ==
    ASSUME LinkInv, down' = down, flown \subseteq flown'
    PROVE  down' \in Seq(HonestFrames')
<1>1. HonestFrames \subseteq HonestFrames'
  BY DEF HonestFrames
<1>2. down \in Seq(HonestFrames)
  BY DEF LinkInv
<1>. QED
  BY <1>1, <1>2

\* The plain frames are honest, and so is the telemetry of a running vehicle.
LEMMA HonestSent ==
    ASSUME LinkInv
    PROVE  /\ \A kind \in {"HEARTBEAT", "REPORT", "ACCEPTED", "ANSWER"} :
                Frame(kind) \in HonestFrames
           /\ sysState = "RUNNING_ESTIMATOR" =>
                [kind |-> "TELEMETRY", profile |-> profile] \in HonestFrames
BY DEF HonestFrames, Frames, Frame, LinkInv, TypeOK

LEMMA InitInv == Init => LinkInv
<1> SUFFICES ASSUME Init
             PROVE  LinkInv
  OBVIOUS
<1>1. up \in Seq(Commands) /\ Len(up) = 0
  BY DEF Init
<1>2. down \in Seq(Frames) /\ down \in Seq(HonestFrames) /\ Len(down) = 0
  BY DEF Init
<1>3. UpCap >= 0 /\ DownCap >= 0
  BY LinkAssumption
<1>4. shown \in Profiles
  BY LinkAssumption DEF Init
<1>. QED
  BY <1>1, <1>2, <1>3, <1>4 DEF Init, LinkInv, TypeOK, RunningShowsFlown, SystemStates

LEMMA CommandInv ==
    ASSUME LinkInv, NEW c \in Commands, NEW rest \in Seq(Commands), Len(rest) <= UpCap,
           HandleIncomingCommand(c, rest), target' \in {"broadcast", "this", "other"},
           othersLast' \in BOOLEAN, UNCHANGED <<stationVars, quiet, flown, cut>>
    PROVE  LinkInv'
<1>1. down' \in Seq(HonestFrames) /\ Len(down') <= DownCap
  <2>1. Frame("ACCEPTED") \in HonestFrames /\ Frame("ANSWER") \in HonestFrames
    BY HonestSent
  <2>. QED
    BY <2>1, TransmitType DEF HandleIncomingCommand
<1>2. HonestFrames' = HonestFrames
  BY DEF HonestFrames
<1>3. /\ up' \in Seq(Commands) /\ Len(up') <= UpCap
      /\ sysState' \in SystemStates
      /\ profile' \in Profiles \union {NoProfile}
      /\ sysState' = "BIST_AND_CALIBRATION" => profile' \in Profiles
      /\ sysState' = "RUNNING_ESTIMATOR" => profile' \in flown
  <2>1. CASE c.kind = "SYSTEM_RESET"
    <3>1. /\ up' = <<>> /\ sysState' = "UNINITIALIZED" /\ profile' = NoProfile
      BY <2>1 DEF HandleIncomingCommand, Restart
    <3>2. up' \in Seq(Commands) /\ Len(up') = 0
      BY <3>1
    <3>. QED
      BY <3>1, <3>2, LinkAssumption DEF SystemStates
  <2>2. CASE c.kind # "SYSTEM_RESET" /\ Accepts(c)
    <3>1. up' = rest /\ profile' = c.profile /\ sysState' = "BIST_AND_CALIBRATION"
      BY <2>2 DEF HandleIncomingCommand
    <3>. QED
      BY <2>2, <3>1 DEF Accepts, SystemStates
  <2>3. CASE c.kind # "SYSTEM_RESET" /\ ~ Accepts(c)
    <3>1. up' = rest /\ profile' = profile /\ sysState' = sysState
      BY <2>3 DEF HandleIncomingCommand
    <3>. QED
      BY <3>1 DEF LinkInv, TypeOK
  <2>. QED
    BY <2>1, <2>2, <2>3
<1>4. down' \in Seq(Frames)
  BY <1>1 DEF HonestFrames
<1>. QED
  BY <1>1, <1>2, <1>3, <1>4 DEF LinkInv, TypeOK, RunningShowsFlown, stationVars

LEMMA VehicleInv ==
    ASSUME LinkInv,
           Boot \/ PowerCycle \/ VehicleReceive \/ (\E c \in OthersCommands : OthersCommand(c))
             \/ Heartbeat \/ Report \/ BistEnds \/ Telemetry \/ Lock
    PROVE  LinkInv'
<1>1. CASE Boot \/ Lock
  <2>1. down' \in Seq(HonestFrames')
    BY <1>1, QueueKept DEF Boot, Lock
  <2>2. CASE Boot
    BY <2>1, <2>2 DEF Boot, LinkInv, TypeOK, RunningShowsFlown, stationVars, SystemStates
  <2>3. CASE Lock
    BY <2>1, <2>3 DEF Lock, LinkInv, TypeOK, RunningShowsFlown, stationVars, SystemStates
  <2>. QED
    BY <1>1, <2>2, <2>3
<1>2. CASE PowerCycle
  <2>1. down' \in Seq(HonestFrames')
    BY <1>2, QueueKept DEF PowerCycle
  <2>. QED
    BY <1>2, <2>1, LinkAssumption
       DEF PowerCycle, Restart, LinkInv, TypeOK, RunningShowsFlown, stationVars, SystemStates
<1>3. CASE VehicleReceive
  <2>1. PICK i \in NextOf(up) : HandleIncomingCommand(up[i], RemoveAt(up, i))
    BY <1>3 DEF VehicleReceive
  <2>2. up \in Seq(Commands) /\ Len(up) <= UpCap /\ UpCap \in Nat
    BY LinkAssumption DEF LinkInv, TypeOK
  <2>3. /\ up[i] \in Commands
        /\ RemoveAt(up, i) \in Seq(Commands)
        /\ Len(RemoveAt(up, i)) <= Len(up)
    BY <2>2, RemoveType
  <2>4. Len(RemoveAt(up, i)) <= UpCap
    BY <2>2, <2>3
  <2>5. target' \in {"broadcast", "this", "other"} /\ othersLast' \in BOOLEAN
    BY <1>3 DEF VehicleReceive, Link, LinkInv, TypeOK
  <2>. QED
    BY <1>3, <2>1, <2>3, <2>4, <2>5, CommandInv DEF VehicleReceive
<1>4. CASE \E c \in OthersCommands : OthersCommand(c)
  <2>1. PICK c \in OthersCommands : OthersCommand(c)
    BY <1>4
  <2>2. c \in Commands
    BY LinkAssumption
  <2>3. up \in Seq(Commands) /\ Len(up) <= UpCap
    BY DEF LinkInv, TypeOK
  <2>4. target' \in {"broadcast", "this", "other"} /\ othersLast' \in BOOLEAN
    BY <2>1 DEF OthersCommand, Link, LinkInv, TypeOK
  <2>. QED
    BY <2>1, <2>2, <2>3, <2>4, CommandInv DEF OthersCommand
<1>5. CASE Heartbeat \/ Report \/ Telemetry
  <2>1. down' \in Seq(HonestFrames) /\ Len(down') <= DownCap
    BY <1>5, TransmitType, HonestSent DEF Heartbeat, Report, Telemetry
  <2>2. HonestFrames' = HonestFrames
    BY <1>5 DEF Heartbeat, Report, Telemetry, HonestFrames
  <2>3. down' \in Seq(Frames)
    BY <2>1 DEF HonestFrames
  <2>. QED
    BY <1>5, <2>1, <2>2, <2>3
       DEF Heartbeat, Report, Telemetry, LinkInv, TypeOK, RunningShowsFlown, stationVars
<1>6. CASE BistEnds
  <2>1. down' \in Seq(HonestFrames) /\ Len(down') <= DownCap
    BY <1>6, TransmitType, HonestSent DEF BistEnds
  <2>2. profile \in Profiles /\ flown \subseteq flown' /\ flown' \subseteq Profiles
    BY <1>6 DEF BistEnds, LinkInv, TypeOK
  <2>3. HonestFrames \subseteq HonestFrames' /\ HonestFrames' \subseteq Frames
    BY <2>2 DEF HonestFrames
  <2>4. down' \in Seq(HonestFrames') /\ down' \in Seq(Frames)
    BY <2>1, <2>3
  <2>. QED
    BY <1>6, <2>1, <2>2, <2>4
       DEF BistEnds, LinkInv, TypeOK, RunningShowsFlown, stationVars, SystemStates
<1>. QED
  BY <1>1, <1>2, <1>3, <1>4, <1>5, <1>6

LEMMA StationInv ==
    ASSUME LinkInv,
           StationReceive \/ DemoRuns \/ KeyPressed \/ GoQuiet
    PROVE  LinkInv'
<1>1. CASE StationReceive
  <2>1. PICK i \in NextOf(down) :
          /\ down' = RemoveAt(down, i)
          /\ ui' = ScreenAfter(down[i])
          /\ shown' = ShownAfter(down[i])
          /\ cut' = (down[i].kind = "ANSWER" /\ (demo \/ cut))
    BY <1>1 DEF StationReceive
  <2>2. down \in Seq(HonestFrames) /\ Len(down) <= DownCap /\ DownCap \in Nat
    BY LinkAssumption DEF LinkInv, TypeOK
  <2>3. /\ down[i] \in HonestFrames
        /\ down' \in Seq(HonestFrames)
        /\ Len(down') <= Len(down)
    BY <2>1, <2>2, RemoveType
  <2>4. HonestFrames' = HonestFrames /\ down' \in Seq(Frames) /\ Len(down') <= DownCap
    BY <1>1, <2>2, <2>3 DEF StationReceive, HonestFrames
  <2>. DEFINE f == down[i]
  <2>5. /\ f \in Frames
        /\ f.kind = "TELEMETRY" => f.profile \in flown /\ f.profile \in Profiles
    BY <2>3 DEF HonestFrames, LinkInv, TypeOK
  <2>6. shown' \in Profiles /\ cut' \in BOOLEAN
    BY <2>1, <2>5 DEF ShownAfter, LinkInv, TypeOK
  <2>7. ui' \in {"PORT_SELECT", "AWAITING_PROFILE", "BIST_CALIBRATION", "RUNNING_ESTIMATOR"}
    BY <2>1 DEF ScreenAfter, LinkInv, TypeOK
  <2>8. flown' = flown /\ demo' = FALSE
    BY <1>1 DEF StationReceive
  <2>9. RunningShowsFlown'
    <3>1. CASE f.kind = "TELEMETRY"
      BY <3>1, <2>1, <2>5, <2>8 DEF RunningShowsFlown, ShownAfter
    <3>2. CASE f.kind \in {"REPORT", "ACCEPTED"}
      BY <3>2, <2>1 DEF RunningShowsFlown, ScreenAfter
    <3>3. CASE f.kind = "HEARTBEAT"
      BY <3>3, <2>1 DEF RunningShowsFlown, ScreenAfter
    <3>4. CASE f.kind = "ANSWER"
      <4>1. ui' = ui /\ shown' = shown /\ (cut' <=> demo \/ cut)
        BY <3>4, <2>1 DEF ScreenAfter, ShownAfter
      <4>. QED
        BY <4>1, <2>8 DEF RunningShowsFlown, LinkInv
    <3>. QED
      BY <2>5, <3>1, <3>2, <3>3, <3>4 DEF Frames
  <2>. QED
    BY <1>1, <2>3, <2>4, <2>6, <2>7, <2>9 DEF StationReceive, LinkInv, TypeOK, vehicleVars
<1>2. CASE DemoRuns \/ GoQuiet
  <2>1. down' \in Seq(HonestFrames')
    BY <1>2, QueueKept DEF DemoRuns, GoQuiet
  <2>2. CASE DemoRuns
    BY <2>1, <2>2 DEF DemoRuns, LinkInv, TypeOK, RunningShowsFlown, vehicleVars
  <2>3. CASE GoQuiet
    BY <2>1, <2>3 DEF GoQuiet, LinkInv, TypeOK, RunningShowsFlown, vehicleVars, stationVars
  <2>. QED
    BY <1>2, <2>2, <2>3
<1>3. CASE \E mode \in {"WIFI", "SERIAL"} : Connect(mode)
  <2>1. down' \in Seq(HonestFrames')
    BY <1>3, QueueKept DEF Connect
  <2>2. conn' \in {"NONE", "WIFI", "SERIAL"} /\ ui' = "AWAITING_PROFILE"
    BY <1>3 DEF Connect
  <2>. QED
    BY <1>3, <2>1, <2>2 DEF Connect, LinkInv, TypeOK, RunningShowsFlown, vehicleVars
<1>4. CASE PressDemo \/ (\E p \in Profiles : ChooseOffline(p))
  <2>1. PICK p \in Profiles : StartDemoMode(p)
    BY <1>4, LinkAssumption DEF PressDemo, ChooseOffline
  <2>2. down' \in Seq(HonestFrames')
    BY <2>1, QueueKept DEF StartDemoMode
  <2>3. UNCHANGED quiet
    BY <2>1 DEF StartDemoMode
  <2>. QED
    BY <2>1, <2>2, <2>3 DEF StartDemoMode, LinkInv, TypeOK, RunningShowsFlown, vehicleVars
<1>5. CASE PressReset \/ (\E p \in Profiles : ChooseProfile(p))
  <2>1. down' \in Seq(HonestFrames')
    BY <1>5, QueueKept DEF PressReset, ChooseProfile
  <2>2. up \in Seq(Commands) /\ Len(up) <= UpCap /\ UpCap \in Nat
    BY LinkAssumption DEF LinkInv, TypeOK
  <2>3. up' \in Seq(Commands) /\ Len(up') <= UpCap
    <3>1. SystemReset \in Commands /\ \A p \in Profiles : SetProfile(p) \in Commands
      BY DEF Commands
    <3>2. \A c \in Commands : Send(c) => up' \in Seq(Commands) /\ Len(up') <= UpCap
      BY <2>2, EnqueueType DEF Send
    <3>3. up' = up \/ \E c \in Commands : Send(c)
      BY <1>5, <3>1 DEF PressReset, ChooseProfile
    <3>. QED
      BY <2>2, <3>2, <3>3
  <2>4. CASE PressReset
    BY <2>1, <2>3, <2>4 DEF PressReset, LinkInv, TypeOK, RunningShowsFlown, vehicleVars
  <2>5. CASE \E p \in Profiles : ChooseProfile(p)
    BY <2>1, <2>3, <2>5
       DEF ChooseProfile, LinkInv, TypeOK, RunningShowsFlown, vehicleVars, stationVars
  <2>. QED
    BY <1>5, <2>4, <2>5
<1>. QED
  BY <1>1, <1>2, <1>3, <1>4, <1>5 DEF KeyPressed

\* LinkInv holds in every reachable state, over any link and with any other stations.
THEOREM Invariance == Spec => []LinkInv
<1>1. LinkInv /\ [Next]_vars => LinkInv'
  <2> SUFFICES ASSUME LinkInv, [Next]_vars
               PROVE  LinkInv'
    OBVIOUS
  <2>1. CASE UNCHANGED vars
    <3>1. down' \in Seq(HonestFrames')
      BY <2>1, QueueKept DEF vars
    <3>. QED
      BY <2>1, <3>1
         DEF vars, LinkInv, TypeOK, RunningShowsFlown, vehicleVars, stationVars
  <2>2. CASE Next
    BY <2>2, VehicleInv, StationInv DEF Next
  <2>. QED
    BY <2>1, <2>2
<1>. QED
  BY InitInv, <1>1, PTL DEF Spec

\* Every variable keeps its type: a bad id that another station sends never becomes the
\* vehicle's profile or the station's.
THEOREM TypeCorrect == Spec => []TypeOK
<1>1. LinkInv => TypeOK
  BY DEF LinkInv
<1>. QED
  BY Invariance, <1>1, PTL

\* A dashboard not marked as a simulation, nor left over from one, shows a profile the
\* vehicle has flown.
THEOREM DashboardIsReal == Spec => []RunningShowsFlown
<1>1. LinkInv => RunningShowsFlown
  BY DEF LinkInv
<1>. QED
  BY Invariance, <1>1, PTL

(***************************************************************************)
(* The closure half of ScreenCatchesUp: what is settled stays so.          *)
(***************************************************************************)

\* A true frame confirms the screen and the profile on it.
LEMMA TrueFrameConfirms ==
    ASSUME Settled, NEW f \in TrueFrames
    PROVE  /\ ScreenAfter(f) = ui
           /\ sysState = "RUNNING_ESTIMATOR" => ShownAfter(f) = profile
<1>1. CASE f.kind = "ANSWER"
  BY <1>1 DEF ScreenAfter, ShownAfter, Settled
<1>2. CASE f.kind = "HEARTBEAT" /\ sysState = "AWAITING_PROFILE"
  BY <1>2 DEF ScreenAfter, ShownAfter, Settled
<1>3. CASE f.kind = "TELEMETRY" /\ sysState = "RUNNING_ESTIMATOR" /\ f.profile = profile
  BY <1>3 DEF ScreenAfter, ShownAfter, Settled
<1>. QED
  BY <1>1, <1>2, <1>3 DEF TrueFrames

\* The frames that are true now are so after a step that keeps the state and the profile.
LEMMA TrueFramesKept ==
    ASSUME LinkInv, UNCHANGED <<sysState, profile, stationVars, quiet>>, Settled,
           down' \in Seq(TrueFrames)
    PROVE  Settled'
<1>1. TrueFrames' = TrueFrames
  BY DEF TrueFrames
<1>. QED
  BY <1>1 DEF Settled, stationVars

\* A true frame that is sent joins true ones.
LEMMA TrueFrameSent ==
    ASSUME LinkInv, Settled, NEW f \in TrueFrames, Transmit(f)
    PROVE  down' \in Seq(TrueFrames)
<1>1. DownCap \in Nat /\ Len(down) <= DownCap /\ down \in Seq(TrueFrames)
  BY LinkAssumption DEF LinkInv, TypeOK, Settled
<1>. QED
  BY <1>1, EnqueueType DEF Transmit

\* A command that changes no state is answered, and nothing else of it is seen.
LEMMA SettledCommand ==
    ASSUME LinkInv, Settled, NEW c, NEW rest, HandleIncomingCommand(c, rest),
           sysState' = sysState, UNCHANGED <<stationVars, quiet>>
    PROVE  Settled'
<1>1. c.kind # "SYSTEM_RESET" /\ ~ Accepts(c)
  BY DEF HandleIncomingCommand, Restart, Accepts, Settled
<1>2. profile' = profile /\ Transmit(Frame("ANSWER"))
  BY <1>1 DEF HandleIncomingCommand
<1>3. Frame("ANSWER") \in TrueFrames
  BY DEF Frame, Frames, TrueFrames
<1>4. down' \in Seq(TrueFrames)
  BY <1>2, <1>3, TrueFrameSent
<1>. QED
  BY <1>2, <1>4, TrueFramesKept

LEMMA SettledStep ==
    ASSUME LinkInv, Settled, Next, sysState' = sysState
    PROVE  Settled'
<1>1. /\ quiet /\ ~ demo
      /\ down \in Seq(TrueFrames)
      /\ sysState \in {"AWAITING_PROFILE", "RUNNING_ESTIMATOR"}
  BY DEF Settled
<1>2. CASE Boot \/ PowerCycle \/ Lock \/ Report \/ BistEnds
  BY <1>1, <1>2 DEF Boot, PowerCycle, Restart, Lock, Report, BistEnds
<1>3. CASE VehicleReceive
  <2>1. PICK i \in NextOf(up) : HandleIncomingCommand(up[i], RemoveAt(up, i))
    BY <1>3 DEF VehicleReceive
  <2>. QED
    BY <1>3, <2>1, SettledCommand DEF VehicleReceive
<1>4. CASE Heartbeat
  <2>1. Frame("HEARTBEAT") \in TrueFrames
    BY <1>4 DEF Heartbeat, Frame, Frames, TrueFrames
  <2>2. down' \in Seq(TrueFrames)
    BY <1>4, <2>1, TrueFrameSent DEF Heartbeat
  <2>. QED
    BY <1>4, <2>2, TrueFramesKept DEF Heartbeat
<1>5. CASE Telemetry
  <2>1. profile \in Profiles
    BY <1>5 DEF Telemetry, LinkInv, TypeOK
  <2>2. [kind |-> "TELEMETRY", profile |-> profile] \in TrueFrames
    BY <1>5, <2>1 DEF Telemetry, Frames, TrueFrames
  <2>3. down' \in Seq(TrueFrames)
    BY <1>5, <2>2, TrueFrameSent DEF Telemetry
  <2>. QED
    BY <1>5, <2>3, TrueFramesKept DEF Telemetry
<1>6. CASE \E c \in OthersCommands : OthersCommand(c)
  BY <1>1, <1>6 DEF OthersCommand
<1>7. CASE StationReceive
  <2>1. PICK i \in NextOf(down) :
          /\ down' = RemoveAt(down, i)
          /\ ui' = ScreenAfter(down[i])
          /\ shown' = ShownAfter(down[i])
    BY <1>7 DEF StationReceive
  <2>2. down[i] \in TrueFrames /\ down' \in Seq(TrueFrames)
    BY <1>1, <2>1, RemoveType
  <2>3. ui' = ui /\ (sysState = "RUNNING_ESTIMATOR" => shown' = profile)
    BY <2>1, <2>2, TrueFrameConfirms
  <2>4. /\ sysState' = sysState /\ profile' = profile
        /\ quiet' = quiet /\ demo' = FALSE
    BY <1>7 DEF StationReceive, vehicleVars
  <2>5. TrueFrames' = TrueFrames
    BY <2>4 DEF TrueFrames
  <2>. QED
    BY <2>2, <2>3, <2>4, <2>5 DEF Settled
<1>8. CASE DemoRuns \/ KeyPressed \/ GoQuiet
  BY <1>1, <1>8 DEF DemoRuns, KeyPressed, GoQuiet
<1>. QED
  BY <1>2, <1>3, <1>4, <1>5, <1>6, <1>7, <1>8 DEF Next

\* Once a quiet station shows the vehicle's state and no frame of an earlier one is under
\* way, nothing but the vehicle moves the screen: the safety half of ScreenCatchesUp.
THEOREM SettledForGood == Spec => SettledStays
<1>1. LinkInv /\ [Next]_vars => [Settled /\ sysState' = sysState => Settled']_vars
  BY SettledStep
<1>. QED
  BY Invariance, <1>1, PTL DEF Spec, SettledStays

================================================================================

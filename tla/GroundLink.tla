------------------------------- MODULE GroundLink -------------------------------
(***************************************************************************)
(* The handshake between a ground station and the vehicle, over Wi-Fi or   *)
(* the serial cable: the station's screens, handleReceivedPacket and its   *)
(* buttons on one side, transport_send_raw and the destination of the UDP  *)
(* telemetry on the other.                                                 *)
(*                                                                         *)
(* One station is modelled whole.  Other stations exist as far as it       *)
(* matters to it: their commands reach the vehicle at any time.  The       *)
(* vehicle is FlightCore's, each command and each state of it in one step. *)
(***************************************************************************)
EXTENDS Integers, Sequences, SequencesExt, FlightTypes

CONSTANTS
    FirstProfile,    \* the profile with id 1, activeProfileId before anything is known
    BadProfile,      \* an id that no profile has
    OthersCommands,  \* what the other stations send
    UpCap,           \* bound: commands under way
    DownCap          \* bound: frames the station has not read

\* The vehicle.
VARIABLES
    sysState,      \* g_system_state
    profile,       \* g_active_profile
    target         \* m_target_addr: "broadcast", "this" station or an "other" one

\* The link.
VARIABLES
    up,            \* the station's commands that the vehicle has not read
    down           \* the vehicle's frames that the station has not read

\* The station.
VARIABLES
    conn,          \* activeConnMode, with the port or socket open unless it is "NONE"
    ui,            \* currentUiState
    demo,          \* isDemoMode
    shown          \* activeProfileId

\* The operators, and history.
VARIABLES
    quiet,         \* the operators of all stations have stopped for good
    othersLast,    \* the last datagram since boot came from another station
    flown,         \* the profiles the vehicle has run the estimator for
    cut            \* an answer to a command has ended a simulation and left it on the screen

vehicleVars == <<sysState, profile, target>>
stationVars == <<conn, ui, demo, shown>>
vars == <<vehicleVars, up, down, stationVars, quiet, othersLast, flown, cut>>

Command(kind, p) == [kind |-> kind, profile |-> p]

SetProfile(p) == Command("SET_PROFILE", p)
SystemReset   == Command("SYSTEM_RESET", NoProfile)

\* What any station may send; this one has neither the bad id nor the unknown message.
Commands ==
    {SetProfile(p) : p \in Profiles \union {BadProfile}}
        \union {SystemReset, Command("UNKNOWN", NoProfile)}

ASSUME LinkAssumption ==
    /\ FirstProfile \in Profiles
    /\ BadProfile \notin Profiles \union {NoProfile}
    /\ OthersCommands \subseteq Commands
    /\ UpCap \in Nat \ {0} /\ DownCap \in Nat \ {0}

\* ACCEPTED is the ACK of a CMD_SET_PROFILE, ANSWER any other ACK or NACK.
Frames ==
    [kind : {"HEARTBEAT", "REPORT", "ACCEPTED", "ANSWER"}, profile : {NoProfile}]
        \union [kind : {"TELEMETRY"}, profile : Profiles]

Frame(kind) == [kind |-> kind, profile |-> NoProfile]

Init ==
    /\ sysState = "UNINITIALIZED"
    /\ profile = NoProfile
    /\ target = "broadcast"
    /\ up = <<>> /\ down = <<>>
    /\ conn = "NONE"
    /\ ui = "PORT_SELECT"
    /\ demo = FALSE
    /\ shown = FirstProfile
    /\ quiet = FALSE /\ othersLast = FALSE /\ flown = {} /\ cut = FALSE

(***************************************************************************)
(* The link                                                                *)
(***************************************************************************)

\* A datagram gets lost, or arrives once or twice; a frame on the cable may be garbled.
Copies == IF conn = "WIFI" THEN 0..2 ELSE 0..1

\* The queue with some copies of x at its end, as many as it has room for.
Enqueue(q, x, cap) ==
    LET Longer(n) == q \o [i \in 1..n |-> x]
    IN  {IF Len(Longer(n)) <= cap THEN Longer(n) ELSE q : n \in Copies}

\* Datagrams may overtake each other.
NextOf(q) == IF conn = "WIFI" THEN DOMAIN q ELSE DOMAIN q \intersect {1}

\* transport_send_raw: every frame goes out on the cable and to the one destination of
\* the Wi-Fi channel.
Transmit(f) ==
    down' \in IF conn = "SERIAL" \/ (conn = "WIFI" /\ target' \in {"broadcast", "this"})
              THEN Enqueue(down, f, DownCap)
              ELSE {down}

(***************************************************************************)
(* The vehicle                                                             *)
(***************************************************************************)

\* Both transports are set up, the destination of the Wi-Fi channel is the subnet's
\* broadcast address, and the vehicle awaits a profile.
Boot ==
    /\ sysState = "UNINITIALIZED"
    /\ sysState' = "AWAITING_PROFILE"
    /\ target' = "broadcast"
    /\ othersLast' = FALSE
    /\ UNCHANGED <<profile, up, down, stationVars, quiet, flown, cut>>

\* What has not been read is lost with the vehicle's memory.
Restart ==
    /\ sysState' = "UNINITIALIZED"
    /\ profile' = NoProfile
    /\ up' = <<>>

PowerCycle ==
    /\ Restart
    /\ UNCHANGED <<target, down, stationVars, quiet, othersLast, flown, cut>>

\* Mutant of Link: the first station to send keeps the channel.
LinkOnce(from) == target' = IF target = "broadcast" THEN from ELSE target

\* WifiUdpTransport::receive: the sender of the last datagram is the destination.
Link(from) == target' = from

\* Mutant of Accepts: the lowest id is left out.
AcceptsButFirst(c) ==
    /\ c.kind = "SET_PROFILE" /\ sysState = "AWAITING_PROFILE"
    /\ c.profile \in Profiles \ {FirstProfile}

Accepts(c) ==
    /\ c.kind = "SET_PROFILE" /\ sysState = "AWAITING_PROFILE"
    /\ c.profile \in Profiles

\* handle_incoming_command; rest is what is left to read.
HandleIncomingCommand(c, rest) ==
    /\ Transmit(Frame(IF Accepts(c) THEN "ACCEPTED" ELSE "ANSWER"))
    /\ IF c.kind = "SYSTEM_RESET"
       THEN Restart
       ELSE /\ up' = rest
            /\ IF Accepts(c)
               THEN profile' = c.profile /\ sysState' = "BIST_AND_CALIBRATION"
               ELSE UNCHANGED <<sysState, profile>>

\* The telemetry task reads its channels once per turn, and not during the self test.
Reading == sysState \notin {"UNINITIALIZED", "BIST_AND_CALIBRATION"}

VehicleReceive ==
    /\ Reading
    /\ IF conn = "WIFI" THEN Link("this") /\ othersLast' = FALSE
                        ELSE UNCHANGED <<target, othersLast>>
    /\ \E i \in NextOf(up) : HandleIncomingCommand(up[i], RemoveAt(up, i))
    /\ UNCHANGED <<stationVars, quiet, flown, cut>>

\* Another station's command, over Wi-Fi or over the cable if it is free.
OthersCommand(c) ==
    /\ ~ quiet
    /\ Reading
    /\ \/ Link("other") /\ othersLast' = TRUE
       \/ conn # "SERIAL" /\ UNCHANGED <<target, othersLast>>
    /\ HandleIncomingCommand(c, up)
    /\ UNCHANGED <<stationVars, quiet, flown, cut>>

\* The frames of each state: heartbeat, progress of the self test, telemetry.
Heartbeat ==
    /\ sysState = "AWAITING_PROFILE"
    /\ UNCHANGED target
    /\ Transmit(Frame("HEARTBEAT"))
    /\ UNCHANGED <<sysState, profile, up, stationVars, quiet, othersLast, flown, cut>>

Report ==
    /\ sysState = "BIST_AND_CALIBRATION"
    /\ UNCHANGED target
    /\ Transmit(Frame("REPORT"))
    /\ UNCHANGED <<sysState, profile, up, stationVars, quiet, othersLast, flown, cut>>

\* The self test ends with a report, and the estimator runs or the system locks.
BistEnds ==
    /\ sysState = "BIST_AND_CALIBRATION"
    /\ UNCHANGED target
    /\ Transmit(Frame("REPORT"))
    /\ \/ sysState' = "RUNNING_ESTIMATOR" /\ flown' = flown \union {profile}
       \/ sysState' = "HARD_FAULT_LOCK" /\ UNCHANGED flown
    /\ UNCHANGED <<profile, up, stationVars, quiet, othersLast, cut>>

\* Mutant of Telemetry: a payload is sent in any state that has a profile.
TelemetryEarly ==
    /\ profile # NoProfile
    /\ UNCHANGED target
    /\ Transmit([kind |-> "TELEMETRY", profile |-> profile])
    /\ UNCHANGED <<sysState, profile, up, stationVars, quiet, othersLast, flown, cut>>

Telemetry ==
    /\ sysState = "RUNNING_ESTIMATOR"
    /\ UNCHANGED target
    /\ Transmit([kind |-> "TELEMETRY", profile |-> profile])
    /\ UNCHANGED <<sysState, profile, up, stationVars, quiet, othersLast, flown, cut>>

\* The GNC task gives up; nothing is sent.
Lock ==
    /\ sysState = "RUNNING_ESTIMATOR"
    /\ sysState' = "HARD_FAULT_LOCK"
    /\ UNCHANGED <<profile, target, up, down, stationVars, quiet, othersLast, flown, cut>>

(***************************************************************************)
(* The station                                                             *)
(***************************************************************************)

\* Mutant of ScreenAfter: any answer is taken for that of the vehicle to a profile.
ScreenAfterAnyAnswer(f) ==
    CASE f.kind = "HEARTBEAT" /\ ui # "PORT_SELECT"      -> "AWAITING_PROFILE"
      [] f.kind \in {"REPORT", "ACCEPTED", "ANSWER"}     -> "BIST_CALIBRATION"
      [] f.kind = "TELEMETRY"                            -> "RUNNING_ESTIMATOR"
      [] OTHER                                           -> ui

\* The screen a frame leads to.
ScreenAfter(f) ==
    CASE f.kind = "HEARTBEAT" /\ ui # "PORT_SELECT" -> "AWAITING_PROFILE"
      [] f.kind \in {"REPORT", "ACCEPTED"}          -> "BIST_CALIBRATION"
      [] f.kind = "TELEMETRY"                       -> "RUNNING_ESTIMATOR"
      [] OTHER                                      -> ui

\* Mutant of ShownAfter: the id in the telemetry is not taken over.
ShownKept(f) == shown

ShownAfter(f) == IF f.kind = "TELEMETRY" THEN f.profile ELSE shown

\* processIncomingTraffic and handleReceivedPacket: any frame ends a simulation.
StationReceive ==
    /\ \E i \in NextOf(down) :
         LET f == down[i]
         IN  /\ down' = RemoveAt(down, i)
             /\ ui' = ScreenAfter(f)
             /\ shown' = ShownAfter(f)
             /\ cut' = (f.kind = "ANSWER" /\ (demo \/ cut))
    /\ demo' = FALSE
    /\ UNCHANGED <<vehicleVars, up, conn, quiet, othersLast, flown>>

\* The first screen: connectToWifiUdp and connectToSerial, either of which may fail.  No
\* other screen offers a connection.
Connect(mode) ==
    /\ ui = "PORT_SELECT"
    /\ conn' \in {mode, "NONE"}
    /\ ui' = "AWAITING_PROFILE"
    /\ UNCHANGED <<vehicleVars, up, down, demo, shown, quiet, othersLast, flown, cut>>

\* sendPacketRaw: a vehicle that is not up hears nothing.
Send(c) ==
    up' \in IF conn # "NONE" /\ sysState # "UNINITIALIZED" THEN Enqueue(up, c, UpCap) ELSE {up}

\* selectProfile with a connection: the screen waits for the vehicle's answer.
ChooseProfile(p) ==
    /\ ui = "AWAITING_PROFILE"
    /\ conn # "NONE"
    /\ Send(SetProfile(p))
    /\ UNCHANGED <<vehicleVars, down, stationVars, quiet, othersLast, flown, cut>>

StartDemoMode(p) ==
    /\ demo' = TRUE
    /\ shown' = p
    /\ ui' = "BIST_CALIBRATION"
    /\ cut' = FALSE
    /\ UNCHANGED <<vehicleVars, up, down, conn, quiet, othersLast, flown>>

\* selectProfile without one.
ChooseOffline(p) ==
    /\ ui = "AWAITING_PROFILE"
    /\ conn = "NONE"
    /\ StartDemoMode(p)

\* The key D, on any screen.
PressDemo == StartDemoMode(FirstProfile)

\* updateDemoSimulation, when the simulated self test is complete.
DemoRuns ==
    /\ demo
    /\ ui = "BIST_CALIBRATION"
    /\ ui' = "RUNNING_ESTIMATOR"
    /\ UNCHANGED <<vehicleVars, up, down, conn, demo, shown, quiet, othersLast, flown, cut>>

\* The key R, on any screen, and the button of two of them: a simulation ends, otherwise
\* sendSystemResetCmd does not wait for an answer.
PressReset ==
    /\ IF demo THEN UNCHANGED up ELSE Send(SystemReset)
    /\ demo' = FALSE
    /\ ui' = "AWAITING_PROFILE"
    /\ cut' = FALSE
    /\ UNCHANGED <<vehicleVars, down, conn, shown, quiet, othersLast, flown>>

\* keyPressed; the mouse offers the same on the screens that show a button for it.
KeyPressed ==
    /\ ~ quiet
    /\ \/ PressDemo \/ PressReset
       \/ \E mode \in {"WIFI", "SERIAL"} : Connect(mode)
       \/ \E p \in Profiles : ChooseProfile(p) \/ ChooseOffline(p)

GoQuiet ==
    /\ ~ quiet
    /\ quiet' = TRUE
    /\ UNCHANGED <<vehicleVars, up, down, stationVars, othersLast, flown, cut>>

Next ==
    \/ Boot \/ PowerCycle \/ VehicleReceive \/ Heartbeat \/ Report \/ BistEnds \/ Telemetry \/ Lock
    \/ \E c \in OthersCommands : OthersCommand(c)
    \/ StationReceive \/ DemoRuns \/ KeyPressed \/ GoQuiet

\* The vehicle boots, its telemetry task and the station's draw loop go on, the self test
\* ends, and a link over which the same frame is sent again and again delivers it at times.
Fairness ==
    /\ WF_vars(Boot) /\ WF_vars(BistEnds)
    /\ WF_vars(VehicleReceive) /\ WF_vars(StationReceive)
    /\ SF_vars(Heartbeat /\ down' # down)
    /\ SF_vars(Telemetry /\ down' # down)

Spec == Init /\ [][Next]_vars /\ Fairness

(***************************************************************************)
(* Properties                                                              *)
(***************************************************************************)

\* Every variable has its type.
TypeOK ==
    /\ sysState \in SystemStates
    /\ profile \in Profiles \union {NoProfile}
    /\ target \in {"broadcast", "this", "other"}
    /\ up \in Seq(Commands) /\ Len(up) <= UpCap
    /\ down \in Seq(Frames) /\ Len(down) <= DownCap
    /\ conn \in {"NONE", "WIFI", "SERIAL"}
    /\ ui \in {"PORT_SELECT", "AWAITING_PROFILE", "BIST_CALIBRATION", "RUNNING_ESTIMATOR"}
    /\ shown \in Profiles
    /\ flown \subseteq Profiles
    /\ demo \in BOOLEAN /\ quiet \in BOOLEAN /\ othersLast \in BOOLEAN /\ cut \in BOOLEAN

\* A dashboard that is not marked as a simulation shows a profile the vehicle has really
\* flown, whatever was lost, late or repeated, and whichever screens came before.  The
\* exception is the answer to an earlier command that ends a simulation without replacing
\* what it has left on the screen.
RunningShowsFlown ==
    ui = "RUNNING_ESTIMATOR" /\ ~ demo /\ ~ cut => shown \in flown

\* Frames that tell of no profile the vehicle has not flown.
HonestFrames == {f \in Frames : f.kind = "TELEMETRY" => f.profile \in flown}

\* RunningShowsFlown made inductive: nothing else is under way to the screen either, and
\* the vehicle has a profile when it needs one.
LinkInv ==
    /\ TypeOK
    /\ RunningShowsFlown
    /\ down \in Seq(HonestFrames)
    /\ sysState = "BIST_AND_CALIBRATION" => profile \in Profiles
    /\ sysState = "RUNNING_ESTIMATOR" => profile \in flown

\* The station hears the vehicle: on the cable, or over Wi-Fi unless another station was
\* the last to send a datagram.
Listening == conn = "SERIAL" \/ (conn = "WIFI" /\ ~ othersLast)

\* Once the operators stop and the vehicle stays as it is, the screen comes to show its
\* state for good, after any sequence of commands, restarts, simulations and losses: no
\* stale or missing frame leaves the station with another one.
ScreenCatchesUp ==
    \A st \in {"AWAITING_PROFILE", "RUNNING_ESTIMATOR"} :
        <>[](quiet /\ sysState = st /\ Listening) => <>[](ui = st /\ ~ demo)

\* What the vehicle sends in the state it is in, and in which it hears commands.
TrueFrames ==
    {f \in Frames :
        \/ f.kind = "ANSWER"
        \/ f.kind = "HEARTBEAT" /\ sysState = "AWAITING_PROFILE"
        \/ f.kind = "TELEMETRY" /\ sysState = "RUNNING_ESTIMATOR" /\ f.profile = profile}

\* The station shows the vehicle's state, a running one's profile with it, and no frame
\* of an earlier state is under way.
Settled ==
    /\ quiet /\ ~ demo
    /\ sysState \in {"AWAITING_PROFILE", "RUNNING_ESTIMATOR"}
    /\ ui = sysState
    /\ sysState = "RUNNING_ESTIMATOR" => shown = profile
    /\ down \in Seq(TrueFrames)

\* What is settled stays so while the vehicle keeps its state: no late command of any
\* station, no answer to one, no doubled or overtaking frame moves the screen away from
\* the state or the profile of the vehicle.
SettledStays == [][Settled /\ sysState' = sysState => Settled']_vars

\* An operator who keeps choosing a profile is heard in the end: commands that get lost,
\* doubled or refused do not leave the vehicle waiting for ever.
InsistenceHeard ==
    []<><<\E p \in Profiles : ChooseProfile(p)>>_vars => []<>(sysState # "AWAITING_PROFILE")

\* What the self test's screen says ("Perfil Fijado"): the profile the vehicle has fixed.
BistScreenTellsProfile ==
    ui = "BIST_CALIBRATION" /\ ~ demo /\ sysState = "BIST_AND_CALIBRATION" => shown = profile

================================================================================

-------------------------------- MODULE Estimator --------------------------------
(***************************************************************************)
(* What the estimator makes of the vehicle's motion: the sensor and its    *)
(* driver (Mpu6050), the supervision of samples (FdirManager) and the      *)
(* filter (Ekf) over boots, restarts and losses of power.  One turn of the *)
(* GNC loop is one action, with any motion; who may use the sensor and     *)
(* when is in FlightCore, what paces the loop in SampleSync and Fdir.      *)
(***************************************************************************)
EXTENDS Mpu6050, Ekf

CONSTANTS
    MotionsAtTest,   \* how the vehicle may move during the self test
    MotionsInFlight,
    NoReading, MaxStuck, Nominal,    \* see FdirManager
    NoProfile

ASSUME EstimatorAssumption ==
    /\ MotionsAtTest \subseteq Motions /\ MotionsInFlight \subseteq Motions
    /\ NoProfile \notin Profiles
    /\ MaxStuck \in Nat /\ Nominal \in Nat /\ 2 <= Nominal + 1 /\ Nominal + 1 < MaxStuck

VARIABLES
    phase,      \* how far the boot has come: "await", "init", "run", "locked"
    atTest,     \* history: the motion the calibration took for rest
    ekf,
    stuckSamples, nominalSamples, last, anomaly, highG    \* see FdirManager

fdirVars == <<stuckSamples, nominalSamples, last, anomaly, highG>>
vars == <<mpuVars, phase, atTest, ekf, fdirVars>>

Square(v) == v[1] * v[1] + v[2] * v[2] + v[3] * v[3]

\* gyro_mag_dps > 1.05 full scales.
IsOverrange(p, r) ==
    LET fs == Full * Times(GyroFsSel(p)) IN 400 * Square(r.gyro) > 441 * fs * fs

\* |accel_mag_g - 1| >= the threshold, and accel_mag_g < 0.1, in quanta.
IsHighG(p, r) ==
    LET t == PROFILES[p].highG \div 5
        a == 400 * Square(r.accel)
        Bound(n) == OneG * OneG * n * n
    IN a >= Bound(20 + t) \/ (t <= 20 /\ a <= Bound(20 - t))
IsFreeFall(r) == 100 * Square(r.accel) < OneG * OneG

\* Mutant of IsStationary: the accelerometer is not asked.
IsStationaryByGyro(r) == Square(r.gyro) <= (9 * Full * Full - 1) \div 25000000

\* gnc_task_run's detection of rest: less than 0.15 dps, which is
\* 25000000 * Square(r.gyro) < 9 * Full * Full, and an acceleration within 0.035 g of 1 g.
IsStationary(r) ==
    /\ Square(r.gyro) <= (9 * Full * Full - 1) \div 25000000
    /\ 931 * OneG * OneG < 1000 * Square(r.accel)
    /\ 1000 * Square(r.accel) < 1072 * OneG * OneG

\* FDIR with the limits of profile p.
Fdir(p) == INSTANCE FdirManager WITH
    Readings  <- Motions,
    Overrange <- {r \in Motions : IsOverrange(p, r)},
    HighG     <- {r \in Motions : IsHighG(p, r)},
    FreeFall  <- {r \in Motions : IsFreeFall(r)}

\* What a restart of the ESP32 leaves of the RAM.
Ram0 ==
    /\ phase' = "await" /\ profile' = NoProfile /\ step' = 1 /\ lost' = {} /\ drv' = DrvInit
    /\ atTest' = AtRest /\ ekf' = EkfInit
    /\ stuckSamples' = 0 /\ nominalSamples' = 0 /\ last' = NoReading
    /\ anomaly' = FALSE /\ highG' = FALSE

Init ==
    /\ phase = "await" /\ profile = NoProfile /\ step = 1 /\ lost = {} /\ drv = DrvInit
    /\ dev = PowerUp
    /\ atTest = AtRest /\ ekf = EkfInit
    /\ stuckSamples = 0 /\ nominalSamples = 0 /\ last = NoReading
    /\ anomaly = FALSE /\ highG = FALSE

\* CMD_SET_PROFILE is accepted.
SetProfile ==
    /\ phase = "await"
    /\ profile' \in Profiles
    /\ phase' = "init"
    /\ UNCHANGED <<step, dev, drv, lost, atTest, ekf, fdirVars>>

InitDriver ==
    /\ phase = "init"
    /\ \/ WriteReg /\ UNCHANGED phase
       \/ InitFails /\ phase' = "locked" /\ UNCHANGED mpuVars
    /\ UNCHANGED <<atTest, ekf, fdirVars>>

\* The calibration ends with enough samples and the GNC task takes over, its filter and
\* its counters fresh, or it does not.
Calibrate ==
    /\ phase = "init" /\ step > Steps
    /\ \/ /\ atTest' \in MotionsAtTest
          /\ CalibrateBiases(atTest')
          /\ phase' = "run"
       \/ phase' = "locked" /\ UNCHANGED <<mpuVars, atTest>>
    /\ UNCHANGED <<ekf, fdirVars>>

\* predict for an accepted sample, which takes rates at rest for zero, and update if the
\* G-gate lets it pass.
Filter(p, r) ==
    LET rotating  == ~ IsStationary(r) /\ r.gyro # Nothing.gyro
        predicted == Predicted(ekf, IsStationary(r), rotating)
    IN IF ~ Fdir(p)!SampleOk(r) THEN UNCHANGED ekf
       ELSE IF Fdir(p)!Fuse(r)
       THEN \E e \in predicted : ekf' \in Updated(e)
       ELSE ekf' \in predicted

\* A turn of gnc_task_run with a successful transfer.
Turn ==
    /\ phase = "run" /\ phase' = "run"
    /\ \E r \in {Reading(m) : m \in MotionsInFlight}, p \in {profile} :
          /\ Fdir(p)!ProcessSample(r, "nominal")
          /\ Filter(p, r)
    /\ UNCHANGED <<mpuVars, atTest>>

\* Too many failed transfers.
Lock ==
    /\ phase = "run"
    /\ phase' = "locked"
    /\ UNCHANGED <<mpuVars, atTest, ekf, fdirVars>>

\* esp_restart or a panic, in the middle of init as well: the sensor keeps its registers.
Restart ==
    /\ Ram0
    /\ UNCHANGED dev

\* A loss of power resets the sensor as well.
PowerCycle ==
    /\ Ram0
    /\ dev' = PowerUp

Next == SetProfile \/ InitDriver \/ Calibrate \/ Turn \/ Lock \/ Restart \/ PowerCycle

\* In a running system the loop goes on (NoSilentRunning and SamplingContinues say why).
Spec == Init /\ [][Next]_vars /\ WF_vars(Turn)

(***************************************************************************)
(* Properties                                                              *)
(***************************************************************************)

Registers == DOMAIN PowerUp

TypeOK ==
    /\ phase \in {"await", "init", "run", "locked"}
    /\ profile \in Profiles \cup {NoProfile} /\ (profile = NoProfile <=> phase = "await")
    /\ step \in 1..(Steps + 1) /\ (phase = "await" => step = 1) /\ (phase = "run" => step > Steps)
    /\ dev \in [awake : BOOLEAN, dlpf : 0..6, div : 0..255, gyro : 0..3, accel : 0..3,
                drdy : BOOLEAN]
    /\ drv \in [gyro : 0..3, accel : 0..3, bias : Motions]
    /\ lost \subseteq Registers \cup {"reset"}
    /\ atTest \in MotionsAtTest \cup {AtRest}
    /\ ekf \in Ekfs
    /\ stuckSamples \in 0..(MaxStuck - 1) /\ nominalSamples \in 0..Nominal
    /\ last \in Motions \cup {NoReading}
    /\ anomaly \in BOOLEAN /\ highG \in BOOLEAN

\* When init has returned, every register of the sensor holds what the profile asks for
\* unless that very write was missed: no other missed write, no order of the writes and
\* nothing an earlier boot left behind does any harm.
OnlyLostWritesHarm ==
    phase \in {"init", "run"} /\ step > Steps =>
        \A reg \in Registers \ lost : dev[reg] = Configured(profile)[reg]

\* The axis is within what the sensor can return with the selection sel.
InRange(v, sel) == v < Full * Times(sel) /\ v >= -Full * Times(sel)

\* A sensor that missed none of the writes that matter gives the loop the vehicle's
\* motion relative to that of the self test, offset and scales gone, to less than one
\* count, on every axis that was within the sensor's range both times.
ReadingFaithful ==
    phase = "run" /\ lost \cap {"awake", "gyro", "accel"} = {} =>
        \A m \in MotionsInFlight, kind \in {"gyro", "accel"}, i \in 1..3 :
            (\A x \in {m, atTest} : InRange(x[kind][i] + Offset[kind][i], dev[kind])) =>
                \E error \in (1 - Times(dev[kind]))..(Times(dev[kind]) - 1) :
                    Reading(m)[kind][i] = m[kind][i] - atTest[kind][i] + AtRest[kind][i] + error

\* A vehicle that moves as in the self test reads exactly 0 dps and 1 g upwards, with
\* the wrong scales, asleep or saturated as well: nothing the self test could compute
\* from the calibrated samples, and no limit of FDIR at rest, can tell a sensor that
\* missed its configuration.
TestLooksPerfect == phase = "run" => Reading(atTest) = AtRest

\* But a sensor that is still asleep, which passes the self test, is reported as an
\* anomaly, by the stuck-data watchdog.
SleepNoticed == (phase = "run" /\ ~ dev.awake) ~> (anomaly \/ phase # "run")

\* Until then every sample of a sensor asleep is one more to the watchdog's count, which
\* nothing the vehicle does and no limit of the profile resets.
SleepCounted ==
    [][phase = "run" /\ phase' = "run" /\ ~ dev.awake =>
           anomaly' \/ stuckSamples' = stuckSamples + 1]_vars

\* Between turns the yaw bias is zero: whenever predict lets it follow the gyroscope,
\* the sample is accepted and fused and update takes it back, under every profile.
YawBiasLocked == ekf.yawBias = "zero"

\* The quaternion the telemetry takes is one of numbers, whatever P and the biases are.
AttitudeFinite == ekf.att = "finite"

(***************************************************************************)
(* The inductive invariant                                                 *)
(***************************************************************************)

\* The writes done so far that were not missed stand in the registers.  The first is the
\* reset, which none of the others relies on.
WritesInv ==
    phase \in {"init", "run"} =>
        \A i \in 2..(step - 1) :
            LET w == InitWrites(profile)[i]
            IN w.reg \in Registers \ lost => dev[w.reg] = w.val

\* The biases are those of the sensor as it is.
BiasInv == phase = "run" => drv.bias = Bias(ReadBurstRaw(atTest))

\* The driver converts with the scales the profile asks for, whether the sensor has them
\* or not.
ScalesInv ==
    phase \in {"init", "run"} =>
        /\ step > 5 => drv.gyro = GyroFsSel(profile)
        /\ step > 6 => drv.accel = AccelFsSel(profile)

\* The supervision of samples starts afresh with every boot, and a sensor asleep gives it
\* one reading only.
AsleepInv ==
    /\ phase \in {"await", "init"} => last = NoReading /\ stuckSamples = 0
    /\ phase = "run" /\ ~ dev.awake =>
          last = AtRest \/ (last = NoReading /\ stuckSamples = 0)

BootInv == TypeOK /\ WritesInv /\ BiasInv /\ YawBiasLocked /\ AttitudeFinite

EstimatorInv == BootInv /\ ScalesInv /\ AsleepInv

(***************************************************************************)
(* What the documentation says and the code does not do                    *)
(***************************************************************************)

\* If NaN appears in the covariance it is given its initial value again, so that none is
\* left when the turn is over.
CovarianceRepaired == ekf.cov # "nan"

================================================================================

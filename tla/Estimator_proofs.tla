----------------------------- MODULE Estimator_proofs -----------------------------
(***************************************************************************)
(* For all profiles, motions, offsets and numbers of missed writes: what   *)
(* the sensor's registers hold after any number of boots, what the self    *)
(* test can see of them, and which of the filter's numbers stay numbers.   *)
(***************************************************************************)
EXTENDS Estimator, TLAPS

\* What the profiles' table holds, as far as it is used.
LEMMA ProfileFacts ==
    ASSUME NEW p \in FlightProfileIds
    PROVE  /\ GyroFsSel(p) \in 0..3 /\ AccelFsSel(p) \in 0..3
           /\ SmplrtDiv(p) \in 0..255 /\ PROFILES[p].dlpf \in 0..6
           /\ PROFILES[p].highG \in {35, 150, 300, 500}
<1>1. FlightProfileIds = {"DRONE_HOVER", "DRONE_ACRO", "ROCKET_LAUNCH", "MISSILE_HIGH_G"}
  BY DEF FlightProfileIds, PROFILES
<1>2. /\ PROFILES[p].gyro \in {250, 1000, 2000} /\ PROFILES[p].accel \in {2, 8, 16}
      /\ PROFILES[p].rate \in {200, 500, 1000} /\ PROFILES[p].dlpf \in 0..6
      /\ PROFILES[p].highG \in {35, 150, 300, 500}
  BY <1>1 DEF PROFILES, Config
<1>3. \E s \in 0..3 : 250 * Times(s) = PROFILES[p].gyro
  <2>1. 250 * Times(0) = 250 /\ 250 * Times(2) = 1000 /\ 250 * Times(3) = 2000
    BY DEF Times
  <2> QED
    BY <1>2, <2>1
<1>4. \E s \in 0..3 : 2 * Times(s) = PROFILES[p].accel
  <2>1. 2 * Times(0) = 2 /\ 2 * Times(2) = 8 /\ 2 * Times(3) = 16
    BY DEF Times
  <2> QED
    BY <1>2, <2>1
<1>5. SmplrtDiv(p) \in 0..255
  BY <1>2 DEF SmplrtDiv
<1> QED
  BY <1>2, <1>3, <1>4, <1>5 DEF GyroFsSel, AccelFsSel

\* What a register is written is what it can hold.
WellRanged(w) ==
    /\ w.reg \in {"awake", "drdy"} => w.val = TRUE
    /\ w.reg = "dlpf" => w.val \in 0..6
    /\ w.reg = "div" => w.val \in 0..255
    /\ w.reg \in {"gyro", "accel"} => w.val \in 0..3

\* The registers and values of init's writes.
LEMMA WriteFacts ==
    ASSUME NEW p \in FlightProfileIds, NEW i \in 1..Steps
    PROVE  /\ InitWrites(p)[i].reg \in Registers \cup {"reset"}
           /\ i # 1 => InitWrites(p)[i].reg # "reset"
           /\ \A j \in 1..Steps : InitWrites(p)[j].reg = InitWrites(p)[i].reg => j = i
           /\ WellRanged(InitWrites(p)[i])
<1>. DEFINE w == InitWrites(p)[i]
<1>1. Registers \cup {"reset"} = {"awake", "dlpf", "div", "gyro", "accel", "drdy", "reset"}
  BY DEF Registers, PowerUp
<1>2. /\ InitWrites(p)[1] = Write("reset", TRUE)
      /\ InitWrites(p)[2] = Write("awake", TRUE)
      /\ InitWrites(p)[3] = Write("dlpf", PROFILES[p].dlpf)
      /\ InitWrites(p)[4] = Write("div", SmplrtDiv(p))
      /\ InitWrites(p)[5] = Write("gyro", GyroFsSel(p))
      /\ InitWrites(p)[6] = Write("accel", AccelFsSel(p))
      /\ InitWrites(p)[7] = Write("drdy", TRUE)
  BY DEF InitWrites
<1>3. \A j \in 1..Steps : InitWrites(p)[j].reg =
          CASE j = 1 -> "reset" [] j = 2 -> "awake" [] j = 3 -> "dlpf" [] j = 4 -> "div"
            [] j = 5 -> "gyro" [] j = 6 -> "accel" [] j = 7 -> "drdy"
  BY <1>2 DEF Write, Steps
<1>4. \A j \in 1..Steps : InitWrites(p)[j].reg = InitWrites(p)[i].reg => j = i
  BY <1>3 DEF Steps
<1>5. /\ w.reg \in {"awake", "drdy"} => w.val = TRUE
      /\ w.reg = "dlpf" => w.val \in 0..6
      /\ w.reg = "div" => w.val \in 0..255
      /\ w.reg \in {"gyro", "accel"} => w.val \in 0..3
  BY <1>2, ProfileFacts DEF Write, Steps
<1>6. WellRanged(w)
  BY <1>5 DEF WellRanged
<1> QED
  BY <1>1, <1>3, <1>4, <1>6 DEF Steps

LEMMA ConstantFacts ==
    /\ OneG \in Nat
    /\ AtRest \in Motions /\ Nothing \in Motions
    /\ \A s \in 0..3 : Times(s) \in {1, 2, 4, 8}
<1>1. OneG \in Nat
  BY Mpu6050Assumption DEF OneG
<1>2. AtRest \in Motions /\ Nothing \in Motions
  BY <1>1 DEF AtRest, Nothing, Motions
<1> QED
  BY <1>1, <1>2 DEF Times

\* Readings and biases are whole numbers, whatever the motion.
LEMMA ReadingFacts ==
    ASSUME TypeOK, NEW m \in Motions
    PROVE  /\ ReadBurstRaw(m) \in Motions
           /\ Bias(ReadBurstRaw(m)) \in Motions
           /\ Reading(m) \in Motions
<1>1. ReadBurstRaw(m) \in Motions
  <2>1. \A v \in Int, s \in 0..3 : Counts(v, s) \in Int
    BY ConstantFacts, Mpu6050Assumption DEF Counts
  <2>2. \A kind \in Kinds, i \in 1..3 :
            m[kind][i] + Offset[kind][i] \in Int /\ dev[kind] \in 0..3
    BY Mpu6050Assumption DEF Motions, Kinds, TypeOK
  <2> QED
    BY <2>1, <2>2 DEF ReadBurstRaw, Motions
<1>2. \A raw \in Motions : Bias(raw) \in Motions /\ ScaleData(raw) \in Motions
  <2>1. \A kind \in Kinds : Times(drv[kind]) \in Int
    BY ConstantFacts DEF Kinds, TypeOK
  <2>2. drv.bias \in Motions /\ AtRest \in Motions
    BY ConstantFacts DEF TypeOK
  <2> QED
    BY <2>1, <2>2 DEF Bias, ScaleData, Motions
<1> QED
  BY <1>1, <1>2 DEF Reading

\* The filter's operations keep the shape of its state, and leave a quaternion of numbers.
LEMMA PredictedFacts ==
    ASSUME NEW e \in Ekfs, NEW stationary \in BOOLEAN, NEW rotating \in BOOLEAN,
           NEW f \in Predicted(e, stationary, rotating)
    PROVE  f \in Ekfs /\ f.att = "finite" /\ (~ stationary => f.yawBias = e.yawBias)
<1>1. PICK cov \in Propagated(e, rotating) :
          f = [NormalizeQuaternion(Integrated(e, stationary)) EXCEPT
                  !.cov = cov, !.blind = IF rotating /\ @ < BlindLimit THEN @ + 1 ELSE @]
  BY DEF Predicted
<1>2. cov \in {"sound", "unsound", "nan"}
  BY DEF Propagated
<1> DEFINE n == NormalizeQuaternion(Integrated(e, stationary))
           blind == IF rotating /\ n.blind < BlindLimit THEN n.blind + 1 ELSE n.blind
<1>3. /\ n \in Ekfs /\ n.att = "finite"
      /\ ~ stationary => n.yawBias = e.yawBias
  <2>1. Integrated(e, stationary) \in Ekfs
    BY DEF Integrated, Ekfs
  <2>2. ~ stationary => Integrated(e, stationary).yawBias = e.yawBias
    BY DEF Integrated, Ekfs
  <2> QED
    BY <2>1, <2>2 DEF NormalizeQuaternion, Ekfs
<1>4. blind \in 0..BlindLimit
  BY <1>3, EkfAssumption DEF Ekfs
<1>5. f = [n EXCEPT !.cov = cov, !.blind = blind]
  BY <1>1
<1> HIDE DEF n, blind
<1> QED
  BY <1>2, <1>3, <1>4, <1>5 DEF Ekfs

LEMMA UpdatedFacts ==
    ASSUME NEW e \in Ekfs, NEW f \in Updated(e)
    PROVE  f \in Ekfs /\ f.att = "finite" /\ f.yawBias = "zero"
<1>1. PICK k \in Joseph(e.cov) :
          f = [NormalizeQuaternion(Corrected(e, k[1])) EXCEPT !.cov = k[2], !.blind = 0]
  BY DEF Updated
<1>2. k[2] \in {"sound", "unsound", "nan"} /\ 0 \in 0..BlindLimit
  BY EkfAssumption DEF Joseph, Ekfs
<1>3. Corrected(e, k[1]) \in Ekfs /\ Corrected(e, k[1]).yawBias = "zero"
  BY DEF Corrected, Ekfs
<1> QED
  BY <1>1, <1>2, <1>3 DEF NormalizeQuaternion, Ekfs

\* The detection of rest is stricter than the gate of any profile.
LEMMA RestIsFused ==
    ASSUME NEW p \in FlightProfileIds, NEW r \in Motions, IsStationary(r)
    PROVE  Fdir(p)!Fuse(r)
<1>1. Square(r.accel) \in Int /\ OneG * OneG \in Nat
  BY ConstantFacts DEF Motions, Kinds, Square
<1>2. PROFILES[p].highG \in {35, 150, 300, 500}
  BY ProfileFacts
<1>3. PICK t \in {7, 30, 60, 100} : t = PROFILES[p].highG \div 5
  BY <1>2
<1> DEFINE a == Square(r.accel)
           g == OneG * OneG
<1>4. 931 * g < 1000 * a /\ 1000 * a < 1072 * g
  BY ConstantFacts, <1>1 DEF IsStationary
<1>5. OneG * OneG * (20 + t) * (20 + t) >= 729 * g
  BY <1>3, <1>1, ConstantFacts
<1>6. t <= 20 => OneG * OneG * (20 - t) * (20 - t) = 169 * g
  BY <1>3, <1>1, ConstantFacts
<1>7. ~ IsHighG(p, r)
  <2> HIDE DEF a, g
  <2>1. a \in Int /\ g \in Nat
    BY <1>1 DEF a, g
  <2>2. ~ (400 * a >= OneG * OneG * (20 + t) * (20 + t))
    BY <1>4, <1>5, <2>1, <1>3, ConstantFacts
  <2>3. ~ (t <= 20 /\ 400 * a <= OneG * OneG * (20 - t) * (20 - t))
    BY <1>4, <1>6, <2>1, <1>3, ConstantFacts
  <2> QED
    BY <1>3, <2>2, <2>3 DEF IsHighG, a
<1>8. ~ IsFreeFall(r)
  BY <1>1, <1>4 DEF IsFreeFall
<1> QED
  BY <1>7, <1>8 DEF Fdir!Fuse

LEMMA FilterStep ==
    ASSUME TypeOK, YawBiasLocked, AttitudeFinite,
           NEW p \in FlightProfileIds, NEW r \in Motions, Filter(p, r)
    PROVE  ekf' \in Ekfs /\ YawBiasLocked' /\ AttitudeFinite'
<1> DEFINE stationary == IsStationary(r)
           rotating == ~ stationary /\ r.gyro # Nothing.gyro
<1>0. stationary \in BOOLEAN /\ rotating \in BOOLEAN /\ ekf \in Ekfs
  BY DEF IsStationary, TypeOK
<1>1. CASE ~ Fdir(p)!SampleOk(r)
  BY <1>0, <1>1 DEF Filter, YawBiasLocked, AttitudeFinite
<1>2. CASE Fdir(p)!SampleOk(r) /\ Fdir(p)!Fuse(r)
  <2>1. PICK e \in Predicted(ekf, stationary, rotating) : ekf' \in Updated(e)
    BY <1>2 DEF Filter
  <2>2. e \in Ekfs
    BY <1>0, <2>1, PredictedFacts
  <2> QED
    BY <2>1, <2>2, UpdatedFacts DEF YawBiasLocked, AttitudeFinite
<1>3. CASE Fdir(p)!SampleOk(r) /\ ~ Fdir(p)!Fuse(r)
  <2>1. ekf' \in Predicted(ekf, stationary, rotating)
    BY <1>3 DEF Filter
  <2>2. ~ stationary
    BY <1>3, RestIsFused
  <2> QED
    BY <1>0, <2>1, <2>2, PredictedFacts DEF YawBiasLocked, AttitudeFinite
<1> QED
  BY <1>1, <1>2, <1>3

\* FDIR's counters keep their limits.
LEMMA FdirStep ==
    ASSUME TypeOK, NEW p \in FlightProfileIds, NEW r \in Motions,
           Fdir(p)!ProcessSample(r, "nominal")
    PROVE  /\ stuckSamples' \in 0..(MaxStuck - 1) /\ nominalSamples' \in 0..Nominal
           /\ last' \in Motions \cup {NoReading}
           /\ anomaly' \in BOOLEAN /\ highG' \in BOOLEAN
<1>1. stuckSamples' \in 0..(MaxStuck - 1) /\ last' \in Motions \cup {NoReading}
  <2>1. CASE Fdir(p)!Stuck(r)
    BY <2>1, EstimatorAssumption DEF Fdir!ProcessSample, Fdir!Recover
  <2>2. CASE ~ Fdir(p)!Stuck(r)
    <3>1. Fdir(p)!StuckCount(r) \in 0..(MaxStuck - 1)
      BY <2>2, EstimatorAssumption DEF Fdir!Stuck, Fdir!StuckCount, TypeOK
    <3> QED
      BY <2>2, <3>1 DEF Fdir!ProcessSample
  <2> QED
    BY <2>1, <2>2
<1>2. nominalSamples' \in 0..Nominal
  BY EstimatorAssumption DEF Fdir!ProcessSample, Fdir!CountNominal, TypeOK
<1>3. anomaly' \in BOOLEAN
  BY Zenon DEF Fdir!ProcessSample, Fdir!CountNominal
<1>4. highG' \in BOOLEAN
  BY DEF Fdir!ProcessSample, Fdir!Gate, TypeOK
<1> QED
  BY <1>1, <1>2, <1>3, <1>4

LEMMA InitInv == Init => BootInv
<1> SUFFICES ASSUME Init PROVE BootInv
  OBVIOUS
<1>1. /\ DrvInit \in [gyro : 0..3, accel : 0..3, bias : Motions]
      /\ PowerUp \in [awake : BOOLEAN, dlpf : 0..6, div : 0..255, gyro : 0..3,
                      accel : 0..3, drdy : BOOLEAN]
  BY ConstantFacts DEF DrvInit, PowerUp
<1>2. EkfInit \in Ekfs
  BY EkfAssumption DEF EkfInit, Ekfs
<1>3. TypeOK
  <2>1. 0 \in 0..(MaxStuck - 1) /\ 0 \in 0..Nominal /\ 1 \in 1..(Steps + 1)
    BY EstimatorAssumption DEF Steps
  <2> QED
    BY <1>1, <1>2, <2>1 DEF Init, TypeOK
<1> QED
  BY <1>3 DEF Init, BootInv, WritesInv, BiasInv, YawBiasLocked, AttitudeFinite, EkfInit

\* What a restart leaves satisfies the invariant whatever the sensor's registers hold.
LEMMA RamInv ==
    ASSUME BootInv, Ram0, dev' = dev \/ dev' = PowerUp
    PROVE  BootInv'
<1>1. /\ DrvInit \in [gyro : 0..3, accel : 0..3, bias : Motions]
      /\ PowerUp \in [awake : BOOLEAN, dlpf : 0..6, div : 0..255, gyro : 0..3,
                      accel : 0..3, drdy : BOOLEAN]
  BY ConstantFacts DEF DrvInit, PowerUp
<1>2. EkfInit \in Ekfs
  BY EkfAssumption DEF EkfInit, Ekfs
<1>3. TypeOK'
  <2>1. 0 \in 0..(MaxStuck - 1) /\ 0 \in 0..Nominal /\ 1 \in 1..(Steps + 1)
    BY EstimatorAssumption DEF Steps
  <2>2. dev' \in [awake : BOOLEAN, dlpf : 0..6, div : 0..255, gyro : 0..3,
                  accel : 0..3, drdy : BOOLEAN]
    BY <1>1 DEF BootInv, TypeOK
  <2> QED
    BY <1>1, <1>2, <2>1, <2>2 DEF Ram0, TypeOK
<1> QED
  BY <1>3 DEF Ram0, BootInv, WritesInv, BiasInv, YawBiasLocked, AttitudeFinite, EkfInit

LEMMA WriteRegStep ==
    ASSUME BootInv, phase = "init", WriteReg,
           UNCHANGED <<phase, atTest, ekf, fdirVars>>
    PROVE  BootInv'
<1> DEFINE w == InitWrites(profile)[step]
<1>0. profile \in FlightProfileIds /\ step \in 1..Steps /\ profile' = profile
  BY Mpu6050Assumption DEF BootInv, TypeOK, WriteReg, Steps
<1>1. /\ w.reg \in Registers \cup {"reset"}
      /\ step # 1 => w.reg # "reset"
      /\ \A j \in 1..Steps : InitWrites(profile)[j].reg = w.reg => j = step
      /\ w.reg \in {"awake", "drdy"} => w.val = TRUE
      /\ w.reg = "dlpf" => w.val \in 0..6
      /\ w.reg = "div" => w.val \in 0..255
      /\ w.reg \in {"gyro", "accel"} => w.val \in 0..3
  <2>1. /\ w.reg \in Registers \cup {"reset"}
        /\ step # 1 => w.reg # "reset"
        /\ \A j \in 1..Steps : InitWrites(profile)[j].reg = w.reg => j = step
        /\ WellRanged(w)
    BY <1>0, WriteFacts, Zenon
  <2> HIDE DEF w
  <2> QED
    BY <2>1 DEF WellRanged
<1>2. /\ step' = step + 1 /\ drv' = ScaleFor(w)
      /\ \/ dev' = Written(dev, w) /\ lost' = lost
         \/ lost' = lost \cup {w.reg} /\ dev' = dev
  BY DEF WriteReg
<1> HIDE DEF w
<1>3. TypeOK'
  <2>1. dev' \in [awake : BOOLEAN, dlpf : 0..6, div : 0..255, gyro : 0..3,
                  accel : 0..3, drdy : BOOLEAN]
    <3> DEFINE D == [awake : BOOLEAN, dlpf : 0..6, div : 0..255, gyro : 0..3,
                     accel : 0..3, drdy : BOOLEAN]
    <3>1. dev \in D /\ PowerUp \in D
      BY DEF PowerUp, BootInv, TypeOK
    <3>2. CASE w.reg = "reset" \/ dev' = dev
      BY <1>2, <3>1, <3>2 DEF Written
    <3>3. CASE w.reg # "reset" /\ dev' = [dev EXCEPT ![w.reg] = w.val]
      <4>1. w.reg \in {"awake", "dlpf", "div", "gyro", "accel", "drdy"}
        BY <1>1, <3>3 DEF Registers, PowerUp
      <4>2. CASE w.reg \in {"awake", "drdy"}
        <5>1. CASE dev' = [dev EXCEPT !.awake = TRUE]
          BY <3>1, <5>1, ZenonT(30)
        <5>2. CASE dev' = [dev EXCEPT !.drdy = TRUE]
          BY <3>1, <5>2, ZenonT(30)
        <5> QED
          BY <1>1, <3>3, <4>2, <5>1, <5>2
      <4>3. CASE w.reg \in {"dlpf", "div"}
        BY <1>1, <3>1, <3>3, <4>3
      <4>4. CASE w.reg \in {"gyro", "accel"}
        BY <1>1, <3>1, <3>3, <4>4
      <4> QED
        BY <4>1, <4>2, <4>3, <4>4
    <3> QED
      BY <1>2, <3>2, <3>3 DEF Written
  <2>2. drv' \in [gyro : 0..3, accel : 0..3, bias : Motions]
    BY <1>1, <1>2 DEF ScaleFor, BootInv, TypeOK
  <2>3. lost' \subseteq Registers \cup {"reset"}
    BY <1>1, <1>2 DEF BootInv, TypeOK
  <2>4. step' \in 1..(Steps + 1)
    BY <1>0, <1>2 DEF Steps
  <2> QED
    BY <1>0, <2>1, <2>2, <2>3, <2>4 DEF BootInv, TypeOK, fdirVars
<1>4. WritesInv'
  <2> SUFFICES ASSUME NEW i \in 2..step, InitWrites(profile)[i].reg \in Registers \ lost'
               PROVE  dev'[InitWrites(profile)[i].reg] = InitWrites(profile)[i].val
    BY <1>0, <1>2 DEF WritesInv
  <2> DEFINE v == InitWrites(profile)[i]
  <2>0. i \in 1..Steps /\ i # 1 /\ step # 1
    BY <1>0 DEF Steps
  <2>1. i \in 1..Steps /\ v.reg \in Registers \cup {"reset"} /\ v.reg # "reset" /\ step # 1
    BY <1>0, <2>0, WriteFacts
  <2>2. v.reg \in Registers /\ DOMAIN dev = Registers
    BY <2>1 DEF Registers, PowerUp, BootInv, TypeOK
  <2>3. CASE i = step
    BY <1>1, <1>2, <2>1, <2>2, <2>3 DEF Written, w
  <2>4. CASE i # step
    <3>1. v.reg # w.reg
      BY <1>1, <2>1, <2>4
    <3>2. dev[v.reg] = v.val
      <4>1. i \in 2..(step - 1) /\ v.reg \in Registers \ lost
        BY <1>0, <1>2, <2>2, <2>4 DEF Steps
      <4> QED
        BY <4>1 DEF WritesInv, BootInv
    <3>3. dev'[v.reg] = dev[v.reg]
      <4> DEFINE r == v.reg
      <4>1. dev = [x \in Registers |-> dev[x]] /\ r \in Registers /\ r # w.reg
        BY <2>2, <3>1 DEF Registers, PowerUp, BootInv, TypeOK
      <4>2. w.reg # "reset"
        BY <1>1, <2>1
      <4> HIDE DEF r
      <4>3. Written(dev, w)[r] = dev[r]
        BY <4>1, <4>2 DEF Written
      <4> QED
        BY <1>2, <4>3 DEF r
    <3> QED
      BY <3>2, <3>3
  <2> QED
    BY <2>3, <2>4
<1> QED
  BY <1>3, <1>4 DEF BootInv, BiasInv, YawBiasLocked, AttitudeFinite

\* A turn of the loop: the sensor is left alone, FDIR and the filter keep their limits.
LEMMA TurnStep == ASSUME BootInv, Turn PROVE BootInv'
<1>1. PICK m \in MotionsInFlight, p \in {profile} :
          Fdir(p)!ProcessSample(Reading(m), "nominal") /\ Filter(p, Reading(m))
  BY DEF Turn
<1>2. p \in FlightProfileIds /\ Reading(m) \in Motions
  <2>1. p \in Profiles /\ m \in Motions
    BY EstimatorAssumption DEF Turn, BootInv, TypeOK
  <2> QED
    BY <2>1, ReadingFacts, Mpu6050Assumption DEF BootInv
<1>3. ekf' \in Ekfs /\ YawBiasLocked' /\ AttitudeFinite'
  BY <1>1, <1>2, FilterStep DEF BootInv
<1>4. /\ stuckSamples' \in 0..(MaxStuck - 1) /\ nominalSamples' \in 0..Nominal
      /\ last' \in Motions \cup {NoReading}
      /\ anomaly' \in BOOLEAN /\ highG' \in BOOLEAN
  BY <1>1, <1>2, FdirStep DEF BootInv
<1>5. UNCHANGED <<mpuVars, atTest, phase>>
  BY DEF Turn
<1>6. TypeOK'
  BY <1>3, <1>4, <1>5 DEF BootInv, TypeOK, mpuVars
<1>7. WritesInv' /\ BiasInv'
  BY <1>5 DEF BootInv, WritesInv, BiasInv, mpuVars, ReadBurstRaw, Bias
<1> QED
  BY <1>3, <1>6, <1>7 DEF BootInv

LEMMA CalibrateStep == ASSUME BootInv, Calibrate PROVE BootInv'
<1>1. CASE phase' = "locked" /\ UNCHANGED <<mpuVars, atTest, ekf, fdirVars>>
  BY <1>1 DEF Calibrate, BootInv, TypeOK, WritesInv, BiasInv, YawBiasLocked,
              AttitudeFinite, mpuVars, fdirVars
<1>2. CASE /\ atTest' \in MotionsAtTest /\ CalibrateBiases(atTest') /\ phase' = "run"
           /\ UNCHANGED <<ekf, fdirVars>>
  <2>1. phase = "init" /\ step > Steps
    BY DEF Calibrate
  <2>2. UNCHANGED <<profile, step, dev, lost>> /\ drv' = [drv EXCEPT !.bias = Bias(ReadBurstRaw(atTest'))]
    BY <1>2 DEF CalibrateBiases
  <2>3. Bias(ReadBurstRaw(atTest')) \in Motions
    BY <1>2, ReadingFacts, EstimatorAssumption DEF BootInv
  <2>4. drv' \in [gyro : 0..3, accel : 0..3, bias : Motions] /\ drv'.bias = Bias(ReadBurstRaw(atTest'))
        /\ drv'.gyro = drv.gyro /\ drv'.accel = drv.accel
    BY <2>2, <2>3 DEF BootInv, TypeOK
  <2>5. TypeOK'
    BY <1>2, <2>1, <2>2, <2>4 DEF BootInv, TypeOK, fdirVars, Steps
  <2>6. BiasInv'
    <3>1. PICK a : a = atTest'
      OBVIOUS
    <3>2. ReadBurstRaw(a)' = ReadBurstRaw(a)
      BY <2>2 DEF ReadBurstRaw
    <3>3. drv'["gyro"] = drv["gyro"] /\ drv'["accel"] = drv["accel"]
      BY <2>4
    <3>4. \A raw : Bias(raw)' = Bias(raw)
      BY <3>3 DEF Bias, Kinds
    <3> QED
      BY <2>4, <3>1, <3>2, <3>4 DEF BiasInv
  <2>7. WritesInv'
    BY <1>2, <2>1, <2>2 DEF BootInv, WritesInv
  <2> QED
    BY <1>2, <2>5, <2>6, <2>7 DEF BootInv, YawBiasLocked, AttitudeFinite
<1> QED
  BY <1>1, <1>2 DEF Calibrate

LEMMA StepInv == BootInv /\ [Next]_vars => BootInv'
<1> SUFFICES ASSUME BootInv, [Next]_vars PROVE BootInv'
  OBVIOUS
<1>1. CASE SetProfile
  <2>1. WritesInv'
    BY <1>1 DEF SetProfile, WritesInv, BootInv, TypeOK
  <2> QED
    BY <1>1, <2>1, EstimatorAssumption
    DEF SetProfile, BootInv, TypeOK, BiasInv, YawBiasLocked, AttitudeFinite, fdirVars
<1>2. CASE InitDriver
  <2>1. CASE WriteReg /\ UNCHANGED phase
    BY <1>2, <2>1, WriteRegStep DEF InitDriver
  <2>2. CASE phase' = "locked" /\ UNCHANGED mpuVars
    BY <1>2, <2>2 DEF InitDriver, BootInv, TypeOK, WritesInv, BiasInv, YawBiasLocked,
                      AttitudeFinite, mpuVars, fdirVars
  <2> QED
    BY <1>2, <2>1, <2>2 DEF InitDriver
<1>3. CASE Calibrate
  BY <1>3, CalibrateStep
<1>4. CASE Turn
  BY <1>4, TurnStep
<1>5. CASE Lock
  BY <1>5 DEF Lock, BootInv, TypeOK, WritesInv, BiasInv, YawBiasLocked,
              AttitudeFinite, mpuVars, fdirVars
<1>6. CASE Restart
  BY <1>6, RamInv DEF Restart
<1>7. CASE PowerCycle
  BY <1>7, RamInv DEF PowerCycle
<1>8. CASE UNCHANGED vars
  BY <1>8, SMTT(30) DEF vars, BootInv, TypeOK, WritesInv, BiasInv, YawBiasLocked,
              AttitudeFinite, mpuVars, fdirVars, ReadBurstRaw, Bias
<1> QED
  BY <1>1, <1>2, <1>3, <1>4, <1>5, <1>6, <1>7, <1>8 DEF Next

\* The driver's scales change next to two of the writes and with nothing else.
LEMMA ScalesStep == BootInv /\ ScalesInv /\ [Next]_vars => ScalesInv'
<1> SUFFICES ASSUME BootInv, ScalesInv, [Next]_vars PROVE ScalesInv'
  OBVIOUS
<1>1. CASE phase = "init" /\ WriteReg /\ UNCHANGED phase
  <2>1. profile \in FlightProfileIds /\ step \in 1..Steps /\ profile' = profile /\ step' = step + 1
    BY <1>1, Mpu6050Assumption DEF BootInv, TypeOK, WriteReg, Steps
  <2>2. PICK w : w = InitWrites(profile)[step]
    OBVIOUS
  <2>3. drv' = ScaleFor(w)
    BY <1>1, <2>2 DEF WriteReg
  <2>4. drv \in [gyro : 0..3, accel : 0..3, bias : Motions]
    BY DEF BootInv, TypeOK
  <2>5. CASE step = 5
    <3>1. w.reg = "gyro" /\ w.val = GyroFsSel(profile)
      BY <2>2, <2>5 DEF InitWrites, Write
    <3>2. drv' = [drv EXCEPT !.gyro = GyroFsSel(profile)]
      BY <2>3, <3>1 DEF ScaleFor
    <3> QED
      BY <2>1, <2>4, <2>5, <3>2 DEF ScalesInv
  <2>6. CASE step = 6
    <3>1. w.reg = "accel" /\ w.val = AccelFsSel(profile)
      BY <2>2, <2>6 DEF InitWrites, Write
    <3>2. drv' = [drv EXCEPT !.accel = AccelFsSel(profile)]
      BY <2>3, <3>1 DEF ScaleFor
    <3> QED
      BY <1>1, <2>1, <2>4, <2>6, <3>2 DEF ScalesInv
  <2>7. CASE step \notin {5, 6}
    <3>1. step \in {1, 2, 3, 4, 7}
      BY <2>1, <2>7 DEF Steps
    <3>2. w.reg \notin {"gyro", "accel"}
      BY <2>2, <3>1 DEF InitWrites, Write
    <3>3. drv' = drv
      BY <2>3, <3>2 DEF ScaleFor
    <3> QED
      BY <1>1, <2>1, <3>1, <3>3 DEF ScalesInv
  <2> QED
    BY <2>5, <2>6, <2>7
<1>2. CASE SetProfile
  BY <1>2 DEF SetProfile, ScalesInv, BootInv, TypeOK
<1>3. CASE Calibrate
  <2>1. CASE phase' = "locked"
    BY <2>1 DEF ScalesInv
  <2>2. CASE CalibrateBiases(atTest')
    <3>1. drv'.gyro = drv.gyro /\ drv'.accel = drv.accel /\ UNCHANGED <<profile, step>>
      BY <2>2 DEF CalibrateBiases, BootInv, TypeOK
    <3>2. phase = "init"
      BY <1>3 DEF Calibrate
    <3> QED
      BY <3>1, <3>2 DEF ScalesInv
  <2> QED
    BY <1>3, <2>1, <2>2 DEF Calibrate
<1>4. CASE UNCHANGED mpuVars /\ (phase' = phase \/ phase' = "locked")
  BY <1>4 DEF mpuVars, ScalesInv
<1>5. CASE phase' = "await"
  BY <1>5 DEF ScalesInv
<1>6. CASE InitDriver
  BY <1>1, <1>4, <1>6 DEF InitDriver
<1> QED
  BY <1>2, <1>3, <1>4, <1>5, <1>6 DEF Next, Turn, Lock, Restart, PowerCycle, Ram0, vars

\* A sensor asleep reads 0 dps and 1 g, however the vehicle moves: its offsets are those
\* of data registers that hold zeros.
LEMMA AsleepReading ==
    ASSUME BootInv, phase = "run", ~ dev.awake, NEW m \in Motions
    PROVE  Reading(m) = AtRest
<1>1. /\ ReadBurstRaw(m) = Nothing
      /\ drv.bias = Bias(Nothing)
  <2>1. \A x : ReadBurstRaw(x) = Nothing
    BY DEF ReadBurstRaw, Nothing
  <2> QED
    BY <2>1 DEF BootInv, BiasInv
<1>2. \A kind \in Kinds : Times(drv[kind]) \in Int
  BY ConstantFacts DEF BootInv, TypeOK, Kinds
<1>3. AtRest \in Motions /\ Nothing \in Motions
  BY ConstantFacts
<1>4. \A kind \in Kinds, i \in 1..3 :
          Nothing[kind][i] * Times(drv[kind]) - drv.bias[kind][i] = AtRest[kind][i]
  BY <1>1, <1>2, <1>3 DEF Bias, Motions
<1>5. ScaleData(Nothing) = [kind \in Kinds |-> [i \in 1..3 |-> AtRest[kind][i]]]
  BY <1>4 DEF ScaleData
<1> QED
  BY <1>1, <1>3, <1>5 DEF Reading, Motions

\* A turn of the loop with a sensor asleep: the reading is not out of range and is one
\* more to the count.
LEMMA AsleepTurn ==
    ASSUME BootInv, AsleepInv, Turn, ~ dev.awake
    PROVE  AsleepInv' /\ (anomaly' \/ stuckSamples' = stuckSamples + 1)
<1>1. PICK m \in MotionsInFlight, p \in {profile} :
          Fdir(p)!ProcessSample(Reading(m), "nominal")
  BY DEF Turn
<1>2. phase = "run" /\ phase' = "run" /\ dev' = dev
  BY DEF Turn, mpuVars
<1>3. Reading(m) = AtRest
  BY <1>2, AsleepReading, EstimatorAssumption
<1>4. stuckSamples \in Nat
  BY EstimatorAssumption DEF BootInv, TypeOK
<1>5. CASE Fdir(p)!Stuck(AtRest)
  <2>1. anomaly'
    BY <1>1, <1>3, <1>5, Zenon DEF Fdir!ProcessSample, Fdir!CountNominal, Fdir!Anomalous
  <2>2. stuckSamples' = 0 /\ last' = NoReading
    BY <1>1, <1>3, <1>5, Zenon DEF Fdir!ProcessSample, Fdir!Recover
  <2> QED
    BY <1>2, <2>1, <2>2 DEF AsleepInv
<1>6. CASE ~ Fdir(p)!Stuck(AtRest)
  <2>1. stuckSamples' = Fdir(p)!StuckCount(AtRest) /\ last' = AtRest
    BY <1>1, <1>3, <1>6, Zenon DEF Fdir!ProcessSample
  <2>2. stuckSamples' = stuckSamples + 1
    BY <1>2, <1>4, <2>1 DEF AsleepInv, Fdir!StuckCount
  <2> QED
    BY <1>2, <2>1, <2>2 DEF AsleepInv
<1> QED
  BY <1>5, <1>6

LEMMA AsleepStep == BootInv /\ AsleepInv /\ [Next]_vars => AsleepInv'
<1> SUFFICES ASSUME BootInv, AsleepInv, [Next]_vars PROVE AsleepInv'
  OBVIOUS
<1>1. CASE Turn
  <2>1. CASE ~ dev.awake
    BY <1>1, <2>1, AsleepTurn
  <2>2. CASE dev.awake
    BY <1>1, <2>2 DEF Turn, mpuVars, AsleepInv
  <2> QED
    BY <2>1, <2>2
<1>2. CASE UNCHANGED <<stuckSamples, last>> /\ phase \in {"await", "init"}
           /\ (phase' \in {"init", "locked", "run"})
  BY <1>2 DEF AsleepInv
<1>3. CASE phase' = "locked"
  BY <1>3 DEF AsleepInv
<1>4. CASE Ram0
  BY <1>4 DEF Ram0, AsleepInv
<1>5. CASE UNCHANGED vars
  BY <1>5 DEF vars, mpuVars, fdirVars, AsleepInv
<1> QED
  BY <1>1, <1>2, <1>3, <1>4, <1>5 DEF Next, SetProfile, InitDriver, InitFails, Calibrate, Lock,
                                     Restart, PowerCycle, fdirVars

\* The inductive invariant of boots, turns, restarts and losses of power.
THEOREM EstimatorSound == Spec => []EstimatorInv
<1>1. Init => ScalesInv /\ AsleepInv
  BY DEF Init, ScalesInv, AsleepInv
<1>2. EstimatorInv /\ [Next]_vars => EstimatorInv'
  BY StepInv, ScalesStep, AsleepStep DEF EstimatorInv
<1>3. Init => EstimatorInv
  BY <1>1, InitInv DEF EstimatorInv
<1> QED
  BY <1>2, <1>3, PTL DEF Spec

\* SleepCounted of Estimator: whatever the vehicle does, every sample of a sensor that has
\* missed its wake-up is either an anomaly or brings the watchdog of stuck data one closer.
THEOREM SleepIsCounted == Spec => SleepCounted
<1>1. EstimatorInv /\ [Next]_vars =>
          [phase = "run" /\ phase' = "run" /\ ~ dev.awake =>
               anomaly' \/ stuckSamples' = stuckSamples + 1]_vars
  <2> SUFFICES ASSUME EstimatorInv, Next, phase = "run", phase' = "run", ~ dev.awake
               PROVE  anomaly' \/ stuckSamples' = stuckSamples + 1
    OBVIOUS
  <2>1. Turn
    BY DEF Next, SetProfile, InitDriver, Calibrate, Lock, Restart, PowerCycle, Ram0
  <2> QED
    BY <2>1, AsleepTurn DEF EstimatorInv
<1> QED
  BY <1>1, EstimatorSound, PTL DEF Spec, SleepCounted

\* A register that holds anything else than what init logs is one whose own write was
\* missed: the order of the writes is right and a restart of the ESP32, which leaves the
\* registers as they were, needs no more care than the reset at the head of the list.
THEOREM OnlyLostWrites == Spec => []OnlyLostWritesHarm
<1>1. EstimatorInv => OnlyLostWritesHarm
  <2> SUFFICES ASSUME EstimatorInv, phase \in {"init", "run"}, step > Steps,
                      NEW reg \in Registers \ lost
               PROVE  dev[reg] = Configured(profile)[reg]
    BY DEF OnlyLostWritesHarm
  <2>1. \A i \in 2..7 : LET w == InitWrites(profile)[i]
                         IN w.reg \in Registers \ lost => dev[w.reg] = w.val
    BY DEF EstimatorInv, BootInv, WritesInv, TypeOK, Steps
  <2>2. \A i \in 2..7 : Configured(profile)[InitWrites(profile)[i].reg] = InitWrites(profile)[i].val
    <3> DEFINE c == Configured(profile)
               w == InitWrites(profile)
    <3>1. /\ w[2] = Write("awake", c.awake) /\ w[3] = Write("dlpf", c.dlpf)
          /\ w[4] = Write("div", c.div)     /\ w[5] = Write("gyro", c.gyro)
          /\ w[6] = Write("accel", c.accel) /\ w[7] = Write("drdy", c.drdy)
      BY DEF InitWrites, Configured
    <3> HIDE DEF c, w
    <3>2. \A i \in {2, 3, 4, 5, 6, 7} : c[w[i].reg] = w[i].val
      BY <3>1 DEF Write
    <3> QED
      BY <3>2 DEF c, w
  <2>3. \E i \in 2..7 : InitWrites(profile)[i].reg = reg
    BY DEF InitWrites, Write, Registers, PowerUp
  <2> QED
    BY <2>1, <2>2, <2>3
<1> QED
  BY <1>1, EstimatorSound, PTL

\* No sensor fails the self test by what its registers hold: with any scales, asleep or
\* saturated, a vehicle that moves as it did then reads 0 dps and 1 g.
THEOREM TestIsBlind == Spec => []TestLooksPerfect
<1>1. EstimatorInv => TestLooksPerfect
  <2> SUFFICES ASSUME EstimatorInv, phase = "run" PROVE Reading(atTest) = AtRest
    BY DEF TestLooksPerfect
  <2> DEFINE raw == ReadBurstRaw(atTest)
  <2>1. atTest \in Motions /\ drv.bias = Bias(raw)
    BY ConstantFacts, EstimatorAssumption DEF EstimatorInv, BootInv, TypeOK, BiasInv
  <2>2. raw \in Motions /\ AtRest \in Motions
    BY <2>1, ReadingFacts, ConstantFacts DEF EstimatorInv, BootInv
  <2>3. \A kind \in Kinds : Times(drv[kind]) \in Int
    BY ConstantFacts DEF EstimatorInv, BootInv, TypeOK, Kinds
  <2> HIDE DEF raw
  <2>4. \A kind \in Kinds, i \in 1..3 :
            raw[kind][i] * Times(drv[kind]) - drv.bias[kind][i] = AtRest[kind][i]
    BY <2>1, <2>2, <2>3 DEF Bias, Motions
  <2>5. ScaleData(raw) = [kind \in Kinds |-> [i \in 1..3 |-> AtRest[kind][i]]]
    BY <2>4 DEF ScaleData
  <2> QED
    BY <2>2, <2>5 DEF Reading, Motions, raw
<1> QED
  BY <1>1, EstimatorSound, PTL

\* Within its range the sensor rounds down, by less than a count.
LEMMA CountsInRange ==
    ASSUME NEW sel \in 0..3, NEW v \in Int, InRange(v, sel)
    PROVE  /\ Counts(v, sel) \in Int
           /\ \E cut \in 0..(Times(sel) - 1) : Counts(v, sel) * Times(sel) = v - cut
<1> DEFINE c == v \div Times(sel)
<1>1. Full \in Nat \ {0}
  BY Mpu6050Assumption
<1>2. ASSUME NEW n \in {1, 2, 4, 8}, Times(sel) = n
      PROVE  /\ c \in Int /\ c < Full /\ c >= - Full
             /\ v - c * n \in 0..(n - 1)
  <2>1. v < Full * n /\ v >= - Full * n
    BY <1>2 DEF InRange
  <2>2. CASE n = 1
    BY <1>1, <1>2, <2>1, <2>2
  <2>3. CASE n = 2
    BY <1>1, <1>2, <2>1, <2>3
  <2>4. CASE n = 4
    BY <1>1, <1>2, <2>1, <2>4
  <2>5. CASE n = 8
    BY <1>1, <1>2, <2>1, <2>5
  <2> QED
    BY <2>2, <2>3, <2>4, <2>5
<1>3. PICK n \in {1, 2, 4, 8} : Times(sel) = n
  BY ConstantFacts
<1>4. c \in Int /\ c < Full /\ c >= - Full /\ v - c * n \in 0..(n - 1)
  BY <1>2, <1>3
<1>5. Counts(v, sel) = c
  BY <1>1, <1>4 DEF Counts
<1> HIDE DEF c
<1>6. PICK cut \in 0..(n - 1) : cut = v - c * n
  BY <1>4
<1>7. c * n = v - cut
  <2>1. c * n \in Int
    BY <1>4
  <2> QED
    BY <1>6, <2>1
<1> QED
  BY <1>3, <1>4, <1>5, <1>7

\* What reaches the loop of a rate or an acceleration, of which the sensor has cut off
\* one part and, during the self test, another.
LEMMA CutsCancel ==
    ASSUME NEW n \in {1, 2, 4, 8}, NEW a \in Int, NEW b \in Int, NEW o \in Int, NEW rest \in Int,
           NEW cutA \in 0..(n - 1), NEW cutB \in 0..(n - 1)
    PROVE  \E error \in (1 - n)..(n - 1) :
               ((a + o) - cutA) - (((b + o) - cutB) - rest) = a - b + rest + error
<1>1. cutB - cutA \in (1 - n)..(n - 1)
  OBVIOUS
<1>2. ((a + o) - cutA) - (((b + o) - cutB) - rest) = a - b + rest + (cutB - cutA)
  OBVIOUS
<1> QED
  BY <1>1, <1>2

\* ReadingFaithful of Estimator: for every profile, offset and motion, a sensor that has
\* got the writes that matter gives the vehicle's motion relative to that of the self test
\* to less than one count of the selected scale.
THEOREM FaithfulReadings == Spec => []ReadingFaithful
<1>1. EstimatorInv => ReadingFaithful
  <2> SUFFICES ASSUME EstimatorInv, phase = "run", lost \cap {"awake", "gyro", "accel"} = {},
                      NEW m \in MotionsInFlight, NEW kind \in {"gyro", "accel"}, NEW i \in 1..3,
                      \A x \in {m, atTest} : InRange(x[kind][i] + Offset[kind][i], dev[kind])
               PROVE  \E error \in (1 - Times(dev[kind]))..(Times(dev[kind]) - 1) :
                          Reading(m)[kind][i]
                              = m[kind][i] - atTest[kind][i] + AtRest[kind][i] + error
    BY DEF ReadingFaithful
  <2>1. profile \in FlightProfileIds /\ step > Steps
    BY Mpu6050Assumption DEF EstimatorInv, BootInv, TypeOK
  <2>2. dev.awake /\ dev.gyro = GyroFsSel(profile) /\ dev.accel = AccelFsSel(profile)
    <3>1. \A j \in {2, 5, 6} : LET w == InitWrites(profile)[j]
                               IN w.reg \in Registers \ lost => dev[w.reg] = w.val
      BY <2>1 DEF EstimatorInv, BootInv, WritesInv, TypeOK, Steps
    <3>2. /\ InitWrites(profile)[2] = Write("awake", TRUE)
          /\ InitWrites(profile)[5] = Write("gyro", GyroFsSel(profile))
          /\ InitWrites(profile)[6] = Write("accel", AccelFsSel(profile))
      BY DEF InitWrites
    <3>3. /\ "awake" \in Registers \ lost /\ "gyro" \in Registers \ lost
          /\ "accel" \in Registers \ lost
      BY DEF Registers, PowerUp
    <3> QED
      BY <3>1, <3>2, <3>3 DEF Write
  <2>3. drv[kind] = dev[kind] /\ dev[kind] \in 0..3
    <3>1. drv.gyro = dev.gyro /\ drv.accel = dev.accel
      BY <2>1, <2>2 DEF EstimatorInv, BootInv, TypeOK, ScalesInv, Steps
    <3>2. dev.gyro \in 0..3 /\ dev.accel \in 0..3
      BY <2>1, <2>2, ProfileFacts
    <3>3. kind = "gyro" \/ kind = "accel"
      OBVIOUS
    <3> QED
      BY <3>1, <3>2, <3>3
  <2>4. m \in Motions /\ atTest \in Motions /\ Offset \in Motions /\ AtRest \in Motions
    BY EstimatorAssumption, Mpu6050Assumption, ConstantFacts DEF EstimatorInv, BootInv, TypeOK
  <2>5. PICK a, b, o, rest \in Int :
            a = m[kind][i] /\ b = atTest[kind][i] /\ o = Offset[kind][i] /\ rest = AtRest[kind][i]
    BY <2>4 DEF Motions, Kinds
  <2>6. PICK n \in {1, 2, 4, 8} : n = Times(dev[kind])
    BY <2>3, ConstantFacts
  <2>7. PICK cutA \in 0..(n - 1) : Counts(a + o, dev[kind]) * n = (a + o) - cutA
    <3>1. InRange(a + o, dev[kind]) /\ a + o \in Int
      BY <2>5
    <3> QED
      BY <2>3, <2>6, <3>1, CountsInRange
  <2>8. PICK cutB \in 0..(n - 1) : Counts(b + o, dev[kind]) * n = (b + o) - cutB
    <3>1. InRange(b + o, dev[kind]) /\ b + o \in Int
      BY <2>5
    <3> QED
      BY <2>3, <2>6, <3>1, CountsInRange
  <2>9. Reading(m)[kind][i] = Counts(a + o, dev[kind]) * n - (Counts(b + o, dev[kind]) * n - rest)
    <3>1. \A x : ReadBurstRaw(x)[kind][i] = Counts(x[kind][i] + Offset[kind][i], dev[kind])
      BY <2>2 DEF ReadBurstRaw, Kinds
    <3>2. drv.bias[kind][i] = ReadBurstRaw(atTest)[kind][i] * Times(drv[kind]) - AtRest[kind][i]
      BY DEF EstimatorInv, BootInv, BiasInv, Bias, Kinds
    <3>3. Reading(m)[kind][i] = ReadBurstRaw(m)[kind][i] * Times(drv[kind]) - drv.bias[kind][i]
      BY DEF Reading, ScaleData, Kinds
    <3> QED
      BY <2>3, <2>5, <2>6, <3>1, <3>2, <3>3, Zenon
  <2>10. Reading(m)[kind][i] = ((a + o) - cutA) - (((b + o) - cutB) - rest)
    BY <2>7, <2>8, <2>9, Zenon
  <2>11. \E error \in (1 - n)..(n - 1) :
             ((a + o) - cutA) - (((b + o) - cutB) - rest) = a - b + rest + error
    BY CutsCancel
  <2> QED
    BY <2>5, <2>6, <2>10, <2>11, Zenon
<1> QED
  BY <1>1, EstimatorSound, PTL

\* The filter's two protections, which no covariance, no bias and no motion gets past.
THEOREM YawLocked == Spec => []YawBiasLocked
<1>1. EstimatorInv => YawBiasLocked
  BY DEF EstimatorInv, BootInv
<1> QED
  BY <1>1, EstimatorSound, PTL

THEOREM AttitudeOfNumbers == Spec => []AttitudeFinite
<1>1. EstimatorInv => AttitudeFinite
  BY DEF EstimatorInv, BootInv
<1> QED
  BY <1>1, EstimatorSound, PTL

================================================================================

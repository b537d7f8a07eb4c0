--------------------------------- MODULE Mpu6050 ---------------------------------
(*****************************************************************************)
(* The MPU6050 and its driver: init writes one register after the other and  *)
(* looks at none of the results, the calibration takes what the sensor then  *)
(* returns for its offset, and scale_data converts with what init meant to   *)
(* configure.                                                                *)
(*                                                                           *)
(* The registers are the sensor's: a restart of the ESP32 leaves them as     *)
(* they are.  Rates and accelerations are counted in quanta, one count of    *)
(* the finest full scale; a count of the scale with selection s is Times(s). *)
(* (The driver's 131, 65.5, 32.8 and 16.4 counts per dps are within 0.3 %    *)
(* of that.)                                                                 *)
(*****************************************************************************)
EXTENDS FlightProfiles, Sequences, FiniteSets

CONSTANTS
    Profiles,      \* the profiles that may be chosen
    Full,          \* the counts at full scale, 2^15 in the sensor
    Offset,        \* what the sensor returns at rest beyond gravity
    MaxLost        \* bound: writes the sensor may miss in one initialisation

Kinds == {"gyro", "accel"}
Motions == [Kinds -> [1..3 -> Int]]

ASSUME Mpu6050Assumption ==
    /\ Profiles \subseteq FlightProfileIds
    /\ Full \in Nat \ {0}
    /\ Offset \in Motions
    /\ MaxLost \in Nat

\* 250 dps are Full quanta of the gyroscope, 2 g are Full quanta of the accelerometer.
OneG == Full \div 2

\* No rotation, and gravity along the third axis.
AtRest == [kind \in Kinds |-> [i \in 1..3 |-> IF kind = "accel" /\ i = 3 THEN OneG ELSE 0]]
Nothing == [kind \in Kinds |-> [i \in 1..3 |-> 0]]

VARIABLES
    profile,       \* init's argument
    step,          \* init's next write, beyond the last one when it has returned
    dev,           \* the sensor's registers
    drv,           \* s_gyro_scale_to_dps, s_accel_scale_to_g, s_calibration
    lost           \* history: the writes of this initialisation the sensor missed

mpuVars == <<profile, step, dev, drv, lost>>

\* The registers after power-up or a reset by 0x80: asleep, finest scales, no interrupt.
PowerUp == [awake |-> FALSE, dlpf |-> 0, div |-> 0, gyro |-> 0, accel |-> 0, drdy |-> FALSE]

\* The driver's statics after the ESP32 starts.
DrvInit == [gyro |-> 0, accel |-> 0, bias |-> Nothing]

Write(reg, val) == [reg |-> reg, val |-> val]

\* Mutant of InitWrites: the sensor is woken before it is reset.
InitWritesSwapped(p) ==
    << Write("awake", TRUE),         Write("reset", TRUE),
       Write("dlpf", PROFILES[p].dlpf), Write("div", SmplrtDiv(p)),
       Write("gyro", GyroFsSel(p)),  Write("accel", AccelFsSel(p)),
       Write("drdy", TRUE) >>

\* The writes of MPU6050Driver::init, in its order.  (That of INT_PIN_CFG is left out: it
\* writes 0, which the register holds since power-up, and nobody writes anything else.)
InitWrites(p) ==
    << Write("reset", TRUE),         Write("awake", TRUE),
       Write("dlpf", PROFILES[p].dlpf), Write("div", SmplrtDiv(p)),
       Write("gyro", GyroFsSel(p)),  Write("accel", AccelFsSel(p)),
       Write("drdy", TRUE) >>

Steps == 7

Written(d, w) == IF w.reg = "reset" THEN PowerUp ELSE [d EXCEPT ![w.reg] = w.val]

\* Mutant of ScaleFor: the driver keeps its default for the accelerometer.
ScaleForGyroOnly(w) == IF w.reg = "gyro" THEN [drv EXCEPT ![w.reg] = w.val] ELSE drv

\* Next to two of the writes init changes the driver's own scales.
ScaleFor(w) == IF w.reg \in {"gyro", "accel"} THEN [drv EXCEPT ![w.reg] = w.val] ELSE drv

\* A statement write_reg(...): the sensor acts on it or not, and the driver goes on.
WriteReg ==
    LET w == InitWrites(profile)[step] IN
    /\ step <= Steps
    /\ step' = step + 1
    /\ \/ dev' = Written(dev, w) /\ lost' = lost
       \/ Cardinality(lost) < MaxLost /\ lost' = lost \cup {w.reg} /\ dev' = dev
    /\ drv' = ScaleFor(w)
    /\ UNCHANGED profile

\* init gives up: before the first write the bus or the device on it cannot be created,
\* after the second verify_who_am_i finds no sensor or cannot read it.
InitFails == step \in {1, 3}

\* The sensor's conversion: 16 bits, which saturate.
Counts(v, sel) ==
    LET c == v \div Times(sel) IN IF c >= Full THEN Full - 1 ELSE IF c < -Full THEN -Full ELSE c

\* read_burst_raw.  An MPU6050 asleep does not convert: its data registers hold zeros.
ReadBurstRaw(m) == [kind \in Kinds |-> [i \in 1..3 |->
    IF dev.awake THEN Counts(m[kind][i] + Offset[kind][i], dev[kind]) ELSE 0]]

\* Mutant of Bias: gravity is taken for an offset.
BiasWithGravity(raw) == [kind \in Kinds |-> [i \in 1..3 |-> raw[kind][i] * Times(drv[kind])]]

\* The means of calibrate_biases, for a vehicle that moves steadily or not at all.
Bias(raw) == [kind \in Kinds |-> [i \in 1..3 |->
    raw[kind][i] * Times(drv[kind]) - AtRest[kind][i]]]

CalibrateBiases(m) ==
    /\ step > Steps
    /\ drv' = [drv EXCEPT !.bias = Bias(ReadBurstRaw(m))]
    /\ UNCHANGED <<profile, step, dev, lost>>

ScaleData(raw) == [kind \in Kinds |-> [i \in 1..3 |->
    raw[kind][i] * Times(drv[kind]) - drv.bias[kind][i]]]

Reading(m) == ScaleData(ReadBurstRaw(m))

\* The configuration init logs.
Configured(p) == [awake |-> TRUE, dlpf |-> PROFILES[p].dlpf, div |-> SmplrtDiv(p),
                  gyro |-> GyroFsSel(p), accel |-> AccelFsSel(p), drdy |-> TRUE]

================================================================================

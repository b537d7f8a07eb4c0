------------------------------ MODULE FdirManager ------------------------------
(****************************************************************************)
(* FDIR's signal supervisors as gnc_task_run drives them: for each sample   *)
(* read from the MPU6050 the loop clamps dt, calls process_sample, resets   *)
(* the sensor's signal path when it is declared stuck, and fuses the        *)
(* accelerometer unless the G-gate objects.  Fdir and Estimator say where   *)
(* the samples come from.                                                   *)
(*                                                                          *)
(* Nothing but the GNC task touches these counters, and the two flags have  *)
(* no other writer.  (Failed transfers skip all of it; they are in          *)
(* FlightCore.)  A reading stands for the six scaled components, which FDIR *)
(* compares for equality and otherwise only tests against thresholds.  They *)
(* are never NaN: the raw data are 16-bit integers and the biases finite.   *)
(****************************************************************************)
EXTENDS Integers

CONSTANTS
    Readings,      \* what the sensor may return
    NoReading,     \* the -9999 in s_last_gyro_dps and s_last_accel_g
    Overrange,     \* readings beyond 1.05 of the gyroscope's full scale
    HighG,         \* readings whose acceleration is off 1 g by the threshold or more
    FreeFall,      \* readings below 0.1 g
    MaxStuck,      \* MAX_STUCK_SAMPLES
    Nominal        \* NOMINAL_STABILITY_SAMPLES

\* The time since the previous sample, relative to the nominal period: below a fifth
\* of it, up to twice, up to three times, or more (a clock that stood still is a gap too).
Intervals == {"short", "nominal", "long", "gap"}

VARIABLES
    stuckSamples,     \* s_stuck_samples_count
    nominalSamples,   \* s_nominal_samples_count, which matters up to Nominal only
    last,             \* s_last_gyro_dps, s_last_accel_g
    anomaly,          \* HEALTH_FLAG_ANOMALY_DETECTED
    highG             \* HEALTH_FLAG_HIGH_G_REJECTION

fdirVars == <<stuckSamples, nominalSamples, last, anomaly, highG>>

\* FDIRManager::init, and the two flags as the boot leaves them.
FdirInit ==
    /\ stuckSamples = 0
    /\ nominalSamples = 0
    /\ last = NoReading
    /\ anomaly = FALSE
    /\ highG = FALSE

\* gnc_task_run replaces an interval beyond three periods by the nominal one (114).
ClampDt(interval) == IF interval = "gap" THEN "nominal" ELSE interval

OutOfRange(r)    == r \in Overrange
Jitter(interval) == ClampDt(interval) \in {"short", "long"}

\* Mutant of StuckCount: a changed reading does not restart the count.
StuckCountNeverReset(r) == IF r = last THEN stuckSamples + 1 ELSE stuckSamples

\* s_stuck_samples_count after a reading.
StuckCount(r) == IF r = last THEN stuckSamples + 1 ELSE 1

\* Mutant of Stuck: one sample too many is let through.
StuckOneLate(r) == r = last /\ StuckCount(r) > MaxStuck

Stuck(r) == r = last /\ StuckCount(r) >= MaxStuck

\* Mutant of Anomalous: a stuck sensor is rejected but not taken for an anomaly.
AnomalousUnlessStuck(r, interval) == OutOfRange(r) \/ Jitter(interval)

Anomalous(r, interval) == OutOfRange(r) \/ Jitter(interval) \/ Stuck(r)

\* process_sample's result; jitter alone does not reject a sample.
SampleOk(r) == ~ OutOfRange(r) /\ ~ Stuck(r)

\* should_fuse_accelerometer, called for an accepted sample only.
Fuse(r) == r \notin FreeFall /\ r \notin HighG

\* Mutant of Gate: the flag outlives the manoeuvre.
GateLatched(r) == highG' = (highG \/ ~ Fuse(r))

\* should_fuse_accelerometer's effect on the flag.
Gate(r) == highG' = ~ Fuse(r)

\* reset_signal_path and notify_recovery_performed: the next reading is news.
Recover(r) ==
    /\ stuckSamples' = 0
    /\ last' = NoReading

CountNominal(r, interval) ==
    IF Anomalous(r, interval)
    THEN /\ nominalSamples' = 0
         /\ anomaly' = TRUE
    ELSE /\ nominalSamples' = IF nominalSamples < Nominal THEN nominalSamples + 1
                                                          ELSE Nominal
         /\ anomaly' = (anomaly /\ nominalSamples + 1 < Nominal)

ProcessSample(r, interval) ==
    /\ IF Stuck(r) THEN Recover(r)
       ELSE stuckSamples' = StuckCount(r) /\ last' = r
    /\ CountNominal(r, interval)
    /\ IF SampleOk(r) THEN Gate(r) ELSE UNCHANGED highG

================================================================================

----------------------------- MODULE FlightProfiles -----------------------------
(***************************************************************************)
(* The numbers of the four flight profiles that the driver, FDIR and the   *)
(* filter look up: rate in Hz, full scales in dps and g, the low-pass      *)
(* filter's setting, and the G-gate's threshold in hundredths of a g.      *)
(***************************************************************************)
EXTENDS Integers

Config(rate, gyro, accel, dlpf, highG) ==
    [rate |-> rate, gyro |-> gyro, accel |-> accel, dlpf |-> dlpf, highG |-> highG]

PROFILES == [DRONE_HOVER    |-> Config( 200,  250,  2, 2,  35),
             DRONE_ACRO     |-> Config( 500, 1000,  8, 1, 150),
             ROCKET_LAUNCH  |-> Config( 500, 1000, 16, 1, 300),
             MISSILE_HIGH_G |-> Config(1000, 2000, 16, 0, 500)]

FlightProfileIds == DOMAIN PROFILES

\* The sensor's full scales are 1, 2, 4 or 8 times the finest, by the selection 0 to 3.
Times(sel) == <<1, 2, 4, 8>>[sel + 1]

\* MPU6050Driver::init: the register values a profile asks for.
SmplrtDiv(p)  == CASE PROFILES[p].rate = 200 -> 4
                   [] PROFILES[p].rate = 500 -> 1
                   [] PROFILES[p].rate = 1000 -> 0
GyroFsSel(p)  == CHOOSE s \in 0..3 : 250 * Times(s) = PROFILES[p].gyro
AccelFsSel(p) == CHOOSE s \in 0..3 : 2 * Times(s) = PROFILES[p].accel

================================================================================

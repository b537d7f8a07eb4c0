SPECIFICATION Spec
CONSTANTS
    still = still
    turning = turning
    spinning = spinning
    thrust = thrust
    falling = falling
    NoReading = NoReading
    Readings <- MCReadings
    Overrange <- MCOverrange
    HighG <- MCHighG
    FreeFall <- MCFreeFall
    MaxStuck = 4
    Nominal = 3
INVARIANTS
    RecoversWhenFrozen
    AnomalyIsRecent
    HighGIsLastVerdict
    FdirInv

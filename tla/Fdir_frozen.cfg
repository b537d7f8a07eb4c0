SPECIFICATION Spec
CONSTANTS
    still = still
    turning = turning
    spinning = spinning
    thrust = thrust
    falling = falling
    NoReading = NoReading
    Readings <- TwoReadings
    Overrange = {}
    HighG = {}
    FreeFall = {}
    MaxStuck = 5
    Nominal = 4
INVARIANT FrozenSampleRejected

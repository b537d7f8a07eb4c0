SPECIFICATION Spec
CONSTANTS
    Profiles = {"MISSILE_HIGH_G"}
    Full = 64
    Offset <- MCOffset
    MaxLost = 0
    BlindLimit = 2
    MotionsAtTest <- MCAtTest
    MotionsInFlight <- MCInFlight
    NoReading = NoReading
    MaxStuck = 3
    Nominal = 1
    NoProfile = NoProfile
INVARIANT
    CovarianceRepaired

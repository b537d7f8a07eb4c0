SPECIFICATION Spec
CONSTANTS
    Profiles = {"DRONE_HOVER", "MISSILE_HIGH_G"}
    Full = 64
    Offset <- MCOffset
    MaxLost = 2
    BlindLimit = 1
    MotionsAtTest <- MCAtTest
    MotionsInFlight <- MCInFlight
    NoReading = NoReading
    MaxStuck = 3
    Nominal = 1
    NoProfile = NoProfile
INVARIANTS
    EstimatorInv
    OnlyLostWritesHarm
    ReadingFaithful
    TestLooksPerfect
    YawBiasLocked
    AttitudeFinite
PROPERTIES
    SleepNoticed

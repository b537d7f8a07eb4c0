SPECIFICATION Spec
CONSTANTS
    hover = hover
    racing = racing
    NoProfile = NoProfile
    Profiles <- MCProfiles
    MaxI2cErrors = 2
    CalSamples = 4
    ReportInterval = 2
    InboxCap = 1
    GroundCommands <- AllCommands
INVARIANTS
    I2CExclusive
    CalibrationBeforeUse
    AckIsBinding
    HealthMatchesState
    PayloadCoherent
    DownlinkTruthful
    IInv
PROPERTIES
    FsmSpec
    VehicleSpec

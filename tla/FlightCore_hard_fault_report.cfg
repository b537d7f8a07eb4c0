SPECIFICATION LiveSpec
CONSTANTS
    hover = hover
    racing = racing
    NoProfile = NoProfile
    Profiles <- MCProfiles
    MaxI2cErrors = 2
    CalSamples = 2
    ReportInterval = 1
    InboxCap = 1
    GroundCommands <- OneProfile
PROPERTY HardFaultReported

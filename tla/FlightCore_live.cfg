SPECIFICATION LiveSpec
CONSTANTS
    hover = hover
    racing = racing
    NoProfile = NoProfile
    Profiles <- MCProfiles
    MaxI2cErrors = 2
    CalSamples = 3
    ReportInterval = 2
    InboxCap = 2
    GroundCommands <- FewCommands
PROPERTIES
    BistConcludes
    ResetHonoured
    NoSilentRunning
    CommandsAnswered

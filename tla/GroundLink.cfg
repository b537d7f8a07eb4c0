SPECIFICATION Spec
CONSTANTS
    hover = hover
    racing = racing
    NoProfile = NoProfile
    Profiles <- MCProfiles
    FirstProfile = hover
    BadProfile = BadProfile
    OthersCommands <- MCOthersCommands
    UpCap = 1
    DownCap = 2
INVARIANTS
    RunningShowsFlown
    LinkInv
PROPERTIES
    ScreenCatchesUp
    InsistenceHeard
    SettledStays

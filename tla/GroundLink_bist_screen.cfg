SPECIFICATION Spec
CONSTANTS
    hover = hover
    racing = racing
    NoProfile = NoProfile
    Profiles <- MCProfiles
    FirstProfile = hover
    BadProfile = BadProfile
    OthersCommands = {}
    UpCap = 1
    DownCap = 2
INVARIANT BistScreenTellsProfile

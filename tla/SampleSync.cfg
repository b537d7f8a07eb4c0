SPECIFICATION Spec
CONSTANTS
    Period <- HoverPeriod
    Timeout <- HoverTimeout
    MaxRead = 1
    MaxFail = 4
    MaxErrors = 3
    MayLose = TRUE
    MayFail = TRUE
INVARIANTS
    SyncInv
    LossFlagged
    SamplingContinues
    NoLostWakeup
PROPERTIES
    NoFalseAlarm
    TimeKept

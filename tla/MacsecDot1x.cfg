\* A tick is 2 s; the buffer of 15 s counts as 14, and EAP and MKA fit in it.
SPECIFICATION FairSpec
CHECK_DEADLOCK FALSE
CONSTANTS
    ReauthPeriod = 30
    ReauthBuffer = 7
    PollInterval = 1
    PollAttempts = 15
    CallTicks = 1
    EapTicks = 2
    MkaTicks = 3
    MaxOutages = 1
INVARIANTS
    TypeOK
    AlarmsAreReal
    RotationObserved
PROPERTIES
    CheckEnds

\* The script never reaches its watch loop while an instance lives.
SPECIFICATION FairSpec
CHECK_DEADLOCK FALSE
CONSTANTS
    MaxAttempts = 3
    ReadyStreak = 3
    Slots = {1, 2}
    MaxWedges = 2
PROPERTIES
    WatchdogRestarts

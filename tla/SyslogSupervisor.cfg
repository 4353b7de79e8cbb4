\* syslog-ng keeps the substitution's pipe open, or does not.
SPECIFICATION FairSpec
CHECK_DEADLOCK FALSE
CONSTANTS
    MaxAttempts = 3
    ReadyStreak = 3
    Slots = {1, 2}
    MaxWedges = 2
INVARIANTS
    TypeOK
    OthersAreLeaving
    ReadyAfterStreak
PROPERTIES
    DeathHandled
    WatchLoopRestarts

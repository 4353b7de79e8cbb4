\* Two families of one switch, two invocations, a CLI call that fails.
SPECIFICATION FairSpec
CHECK_DEADLOCK FALSE
CONSTANTS
    Families <- Dual
    MaxInvocations = 2
    MaxCliFailures = 1
INVARIANTS
    TypeOK
    NoFalseAlarm
    ProbesSeeBothHosts
PROPERTIES
    InvocationEnds

\* A second invocation finds the needle of the first.
SPECIFICATION Spec
CHECK_DEADLOCK FALSE
CONSTANTS
    Families <- Dual
    MaxInvocations = 2
    MaxCliFailures = 0
INVARIANTS
    DeliveredIsInLog

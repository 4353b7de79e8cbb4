\* The watcher's packet arrives between the test of the event and grep.
SPECIFICATION Spec
CHECK_DEADLOCK FALSE
CONSTANTS
    Families <- Dual
    MaxInvocations = 1
    MaxCliFailures = 0
PROPERTIES
    NoPassOverCapture

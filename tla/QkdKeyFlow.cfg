\* A tick is 2.5 s: every interval of the code is a whole number of ticks.
SPECIFICATION FairSpec
CHECK_DEADLOCK FALSE
CONSTANTS
    GenTicks = 12
    StaggerTicks = 4
    ContainerTicks = 24
    MinWaitTicks = 6
    PoolTicks = 36
    RetryTicks = 14
    PollTicks = 2
    CallTicks = 1
    MaxPool = 2
    MaxJobs = 2
    MaxRotations = 2
    MaxLost = 1
INVARIANTS
    TypeOK
    DeployWaitSucceeds
    RetryOutlastsGeneration
    OneKeyPerScript
    KeyAlarmIsReal
    MismatchDetected
PROPERTIES
    ScriptsEnd

\* Three targets in any order; one dies anywhere, files and templates change.
SPECIFICATION Spec
CHECK_DEADLOCK FALSE
SYMMETRY Exchange
CONSTANTS
    Quadra <- LabQuadra
    Nil = Nil
    a = a
    b = b
    prefix = prefix
    MaxFaults = 1
    Kmes = {"kme"}
    Settings <- LabSettings
    Overrides = {"unset", "own"}
    Flaws <- LabFlaws
    Vias = {"shell"}
    MaxSwix = 2
    MaxRuns = 3
    MaxDeaths = 1
    MaxEdits = 1
INVARIANTS
    TypeOK
    DeployedAsAsked
    MarkVouchesForAll
    RedeployRecovers
    InstallLeavesAgents
    InstallFailsForAReason
PROPERTIES
    LabKeptUntilAccepted
    GenTopoAccepted

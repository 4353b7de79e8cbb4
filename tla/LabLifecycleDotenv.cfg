\* QUADRA_SWIX set in .env only, naming a file outside download/quadra.
SPECIFICATION Spec
CHECK_DEADLOCK FALSE
SYMMETRY Exchange
CONSTANTS
    Quadra <- LabQuadra
    Nil = Nil
    a = a
    b = b
    prefix = prefix
    MaxFaults = 1
    Kmes = {"kme"}
    Settings <- LabSettings
    Overrides = {"unset", "own"}
    Flaws <- LabFlaws
    Vias = {"dotenv"}
    MaxSwix = 2
    MaxRuns = 2
    MaxDeaths = 1
    MaxEdits = 1
PROPERTIES
    GenTopoAccepted

\* A run for another address plan dies, the next one goes back.
SPECIFICATION Spec
CHECK_DEADLOCK FALSE
CONSTANTS
    Stores = {"radsec"}
    Kind <- LabKind
    Plan <- LabPlan
    StrictCas = {}
    Sites = {s1, s2}
    None = None
    MaxRuns = 3
    MaxCrashes = 1
INVARIANTS
    Coherent

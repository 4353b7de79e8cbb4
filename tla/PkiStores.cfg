\* Both stores under changing address plans, with runs that die anywhere.
SPECIFICATION Spec
CHECK_DEADLOCK FALSE
CONSTANTS
    Stores = {"radsec", "kme"}
    Kind <- LabKind
    Plan <- LabPlan
    StrictCas = {"kme"}
    Sites = {s1, s2}
    None = None
    MaxRuns = 4
    MaxCrashes = 2
INVARIANTS
    CoherentUnlessReplanned
    PublishedCaStrict
    LeavesChainToCa
    CaSignsWithItsKey

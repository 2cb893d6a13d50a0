SPECIFICATION FairSpec
CONSTANTS
    Runs = {r1, r2}
    None = None
    Lanes = {base}
    SyncMark = FALSE
    MaxCrashes = 1
    Suspensions = {"gated"}
    Disturbances = {"patch", "status"}
CHECK_DEADLOCK FALSE
INVARIANTS
    MarkerExplained
PROPERTIES
    DoneLeavesPool

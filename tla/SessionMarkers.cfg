SPECIFICATION Spec
CONSTANTS
    Runs = {r1, r2, r3}
    None = None
    Lanes = {base}
    SyncMark = FALSE
    MaxCrashes = 0
    Suspensions = {"asked"}
    Disturbances = {"interrupt", "cancel", "dismiss"}
CHECK_DEADLOCK FALSE
SYMMETRY RunSymmetry
INVARIANTS
    TypeOK
    OneRunningTurn
PROPERTIES
    NeverClearsLive
    LiveAskKept

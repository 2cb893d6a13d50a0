SPECIFICATION Spec
CONSTANTS
    MaxEvents = 5
    MaxInFlight = 3
    MaxConnects = 2
    MaxCrashes = 1
    Policies = {"append", "snapshot"}
    Outcomes = {"done"}
    Disturbances = {"interrupt", "replace"}
    CanReplace = TRUE
    CanSize = TRUE
    TrustReplay = FALSE
    Clients = {c1}
CHECK_DEADLOCK FALSE
INVARIANTS
    GapFree
    CursorSound
    Lockstep

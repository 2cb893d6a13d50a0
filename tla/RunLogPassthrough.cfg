SPECIFICATION FairSpec
CONSTANTS
    MaxEvents = 2
    MaxInFlight = 2
    MaxConnects = 2
    MaxCrashes = 0
    Policies = {"append"}
    Outcomes = {"done"}
    Disturbances = {"append", "interrupt"}
    CanReplace = TRUE
    CanSize = TRUE
    TrustReplay = TRUE
    Clients = {c1, c2}
CHECK_DEADLOCK FALSE
INVARIANTS
    TypeOK
    NoDuplicates
PROPERTIES
    OrderedBroadcast
    EveryEventArrives

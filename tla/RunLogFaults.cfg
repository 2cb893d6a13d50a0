SPECIFICATION FairSpec
CONSTANTS
    MaxEvents = 3
    MaxInFlight = 1
    MaxConnects = 1
    MaxCrashes = 1
    Policies = {"append", "snapshot", "hold"}
    Outcomes = {"stopped"}
    Disturbances = {"create", "replace", "read", "mark", "interrupt", "cancel"}
    CanReplace = TRUE
    CanSize = TRUE
    TrustReplay = TRUE
    Clients = {c1}
CHECK_DEADLOCK FALSE
PROPERTIES
    StoreOnlyGrows
    TerminalIsFinal
    StreamsEnd

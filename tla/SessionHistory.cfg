SPECIFICATION Spec
CONSTANTS
    MaxRuns = 3
    MaxMessages = 5
    MaxArrivals = 1
    MaxCrashes = 1
    MaxFailures = 1
    MaxAdrift = 1
    MaxFaults = 1
    BatchSizes = {3}
    Arrivals = {"companion"}
    Suspensions = {"request", "gate"}
CHECK_DEADLOCK FALSE
INVARIANTS
    TypeOK
    PositionsAgree
    RunIsStored
    OneResultPerCall
    ResultsFollowCalls

PROPERTIES
    OnlyEditsTruncate

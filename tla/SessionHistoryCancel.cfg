SPECIFICATION Spec
CONSTANTS
    MaxRuns = 1
    MaxMessages = 2
    MaxArrivals = 0
    MaxCrashes = 0
    MaxFailures = 0
    MaxAdrift = 1
    MaxFaults = 1
    BatchSizes = {1}
    Arrivals = {"user"}
    Suspensions = {"request"}
CHECK_DEADLOCK FALSE
INVARIANTS
    WrittenOnce

SPECIFICATION Spec
CONSTANTS
    c1 = c1
    c2 = c2
    c3 = c3
    Calls = {c1, c2, c3}
    Batches <- TwoSteps
    MaxCrashes = 1
    MaxFailures = 0
    Failing = {}
    Interruptions = {"shutdown"}
CHECK_DEADLOCK FALSE
PROPERTIES
    NeverAsksOver

SPECIFICATION FairSpec
CONSTANTS
    c1 = c1
    c2 = c2
    c3 = c3
    Calls = {c1, c2}
    Batches <- OneStep
    MaxCrashes = 2
    MaxFailures = 1
    Failing = {"persist", "record", "pending", "clear", "send", "seen", "mark", "park", "take", "ack"}
    Interruptions = {"stop", "shutdown"}
CHECK_DEADLOCK FALSE
INVARIANTS
    TypeOK
    AtMostOnce
    OneAnswer
    EvidenceFirst
    NeverBehindParked
PROPERTIES
    OutboxDrains
    RunEnds

SPECIFICATION FairSpec
CONSTANTS
    Runs = {r1, r2}
    None = None
    Messages = {m1}
    MaxText = 1
    MaxCalls = 2
    MaxAttempts = 2
    MaxRescues = 1
    MaxCrashes = 1
CHECK_DEADLOCK FALSE
INVARIANTS
    TypeOK
    StopObeyed
    ShownIsKept
PROPERTIES
    NotSilent
    InboxServed
    StopEnds

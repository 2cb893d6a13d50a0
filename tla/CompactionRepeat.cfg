SPECIFICATION Spec
CONSTANTS
    NoRecord = NoRecord
    Kinds <- MixedKinds
    CharsPerToken = 2
    ImageTokens = 3
    Notice = 2
    LeastKept = 2
    ToolMax = 8
    ToolEnd = 2
    ToolFullMax = 14
    FullCount = 1
    StubAfter = 2
    StubMin = 3
    ImageKeep = 1
    UserMax = 6
    LatestUserMin = 8
    ArgsMax = 4
    HardMaxChars = 40
    SafetyChars = 2
    SummaryTag = 2
    ReinjectCount = 1
    ReinjectBudget = 8
    ReinjectMin = 3
    Label = 2
    MaxMessages = 5
    MaxMade = 5
    MaxRecords = 2
    Windows = {24}
    SummarySizes = {4, 8}
    Overhead = 1
    MaxTokens = 14
    MinTokens = 0
    MinTailTokens = 4
    MinTailMessages = 1
    Reserved = 1
    SmallWindow = 20
    LeastMargin = 2
    MaxTranscript = 16
    LeastSummary = 4
    LeastRecord = 5
CHECK_DEADLOCK FALSE
PROPERTIES
    NoOscillation

SPECIFICATION Spec
CONSTANTS
    MaxCalls = 3
    Answers <- AnswersBound
    MaxInbound = 1
    MaxCrashes = 1
    MaxFollowups = 1
    MaxCheckIns = 1
    MaxNudges = 1
    MaxReleases = 1
    LlmRetries = 1
    HostChecks = TRUE
    Reminds = TRUE
CHECK_DEADLOCK FALSE
INVARIANTS CountsExact OwnTurnsBounded IdsNameOneResult HistoryIsCurrent
PROPERTIES KeepsPromise EachCallAnswered

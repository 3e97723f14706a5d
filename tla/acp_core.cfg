SPECIFICATION FairSpec
CONSTANTS
    Turn = {1, 2}
    Query = {q1}
    Old = {s1}
    NoTurn = NoTurn
    Capability <- OneOrTheOther
    Faults = {"connect", "rpc", "die"}
    MaxUpdates = 1
INVARIANTS
    UpdatesStayApart
    AnswerIsComplete
PROPERTIES
    PermissionFollowsStop
    KeepsContract
    OnlyPromptsKeepWaiting
CHECK_DEADLOCK FALSE

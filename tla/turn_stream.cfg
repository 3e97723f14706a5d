SPECIFICATION FairSpec
CONSTANTS
    Plans <- SomePlans
    Faults = {"start", "publish"}
    MaxSaid = 3
    MaxFinal = 2
INVARIANTS
    ChunksAreShownInOrder
    AnswerIsWhole
    LastPlanIsShown
PROPERTIES
    StoppedTurnEnds
CHECK_DEADLOCK FALSE

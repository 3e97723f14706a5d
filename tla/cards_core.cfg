SPECIFICATION FairSpec
CONSTANTS
    todo = todo
    final = final
    b1 = b1
    b2 = b2
    CoreEvent = CoreEvent
    Slot = {todo, final}
    Streaming = {todo}
    Beat = {b1, b2}
    Faults = {"cards", "messages"}
    MaxVersion = 3
    MaxBeats = 2

INVARIANTS
    OneTimer
    AnsweredIsSeen
    StreamingCardIsArmed
PROPERTIES
    CardNeverGoesBack
    EveryEventIsDelivered
CHECK_DEADLOCK FALSE

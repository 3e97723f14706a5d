SPECIFICATION FairSpec
CONSTANTS
    t1 = t1
    t2 = t2
    t3 = t3
    m1 = m1
    thread = thread
    other = other
    Turn = {t1, t2}
    Message = {m1}
    Thread = {thread, other}
    ThreadOf <- ThreadByName
    NoTurn = NoTurn
    Faults = {"spawn", "die", "rpc", "drop"}
    MaxDeltas = 1
INVARIANTS
    AnswerIsComplete
    OnlyStoppedIsInterrupted
PROPERTIES
    SteeredTurnIsOpen
    KeepsContract
    LiveProcessServes
    DeathIsNoticed
CHECK_DEADLOCK FALSE

SPECIFICATION FairSpec
CONSTANTS
    t1 = t1
    t2 = t2
    t3 = t3
    chat = chat
    codex = codex
    claude = claude
    Turn = {t1, t2}
    Session = {chat}
    Runtime = {claude}
    SessionOf <- OneSession
    Kind <- KindByName
    old = old
    Foreign = {old}
    ImportedAs <- NoneImported
    NoTurn = NoTurn
    NoRuntime = NoRuntime
    NoRef = NoRef
    Faults = {"start", "db", "publish"}
    MaxCrashes = 1
PROPERTIES
    StoppedTurnEnds
    AcceptedTurnEnds

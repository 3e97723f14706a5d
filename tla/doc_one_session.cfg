SPECIFICATION Spec
CONSTANTS
    t1 = t1
    t2 = t2
    t3 = t3
    chat = chat
    codex = codex
    claude = claude
    Turn = {t1, t2}
    Session = {chat}
    Runtime = {claude}
    SessionOf <- OneSession
    Kind <- KindByName
    old = old
    Foreign = {old}
    ImportedAs <- NoneImported
    NoTurn = NoTurn
    NoRuntime = NoRuntime
    NoRef = NoRef
    Faults = {}
    MaxCrashes = 0
PROPERTIES
    RuntimeKeepsItsSession

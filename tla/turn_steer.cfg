SPECIFICATION Spec
CONSTANTS
    t1 = t1
    t2 = t2
    t3 = t3
    chat = chat
    codex = codex
    claude = claude
    Turn = {t1, t2, t3}
    Session = {chat}
    Runtime = {codex}
    SessionOf <- OneSession
    Kind <- KindByName
    old = old
    Foreign = {old}
    ImportedAs <- CodexImported
    NoTurn = NoTurn
    NoRuntime = NoRuntime
    NoRef = NoRef
    Faults = {}
    MaxCrashes = 0
SYMMETRY TurnSymmetry
INVARIANTS
    NoTurnEndsInSilence
PROPERTIES
    AcceptedSteerIsHeard

SPECIFICATION Spec
CONSTANTS
    c1 = c1
    c2 = c2
    r1 = r1
    r2 = r2
    r3 = r3
    s1 = s1
    s2 = s2
    s3 = s3
    Chat = {c1, c2}
    Agent = {"claude", "codex"}
    Cwd = {"/tmp/x", "/private/tmp/x"}
    Canonical <- Link
    Runtime = {r1, r2, r3}
    AgentSession = {s1, s2}
    Native <- OneFromBefore
    ListedAs <- ByTheLink
    NoRuntime = NoRuntime
    NoSession = NoSession
    DefaultScope <- Here
    DefaultUrl = FALSE
    MaxCommands = 3
    MaxTurns = 2
    MaxFaults = 1
SYMMETRY ChatSymmetry
INVARIANTS
    SessionIsAtHome
    ChoiceIsStored
PROPERTIES
    TurnGoesWhereTold
CHECK_DEADLOCK FALSE

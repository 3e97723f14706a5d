SPECIFICATION FairSpec
CONSTANTS
    p1 = p1
    p2 = p2
    p3 = p3
    p4 = p4
    m1 = m1
    m2 = m2
    m3 = m3
    chat = chat
    thread = thread
    Push = {p1, p2, p3}
    Message = {m1, m2}
    Session = {chat}
    MessageOf <- FirstTwiceOf
    SessionOf <- OneChat
    NoPush = NoPush
    Ttl = 1
    Faults = {"response", "feishu"}
    MaxTime = 2
    MaxRestarts = 1
INVARIANTS
    TakenOnce
    InOrder
    QueueIsFreed
    RejectedTurnIsNotShown
PROPERTIES
    NobodyIsStuck
CHECK_DEADLOCK FALSE

SPECIFICATION Spec
CONSTANTS
    p1 = p1
    p2 = p2
    p3 = p3
    p4 = p4
    m1 = m1
    m2 = m2
    m3 = m3
    chat = chat
    thread = thread
    Push = {p1, p3, p4}
    Message = {m1, m2, m3}
    Session = {chat, thread}
    MessageOf <- FirstTwiceOf
    SessionOf <- ThreadOfLast
    NoPush = NoPush
    Ttl = 1
    Faults = {"feishu"}
    MaxTime = 0
    MaxRestarts = 0
INVARIANTS
    FailedEventIsLogged
CHECK_DEADLOCK FALSE

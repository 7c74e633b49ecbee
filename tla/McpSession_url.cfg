SPECIFICATION Spec
CONSTANTS
    a = a  b = b
    k1 = k1
    t1 = t1  t2 = t2
    End = End
    NoSession = NoSession
    SessionIds = {a}
    Streams = {k1}
    Tools = {t1}
    Asks <- UrlOnly
    Creators = {}
    Supports <- MCSupports
    LastIds = {"absent"}
    MaxSessions = 1
    QueueSize = 4
    BufferSize = 1
INVARIANT CompletionResolves
CHECK_DEADLOCK FALSE

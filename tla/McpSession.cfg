SPECIFICATION FairSpec
CONSTANTS
    a = a  b = b
    k1 = k1
    t1 = t1  t2 = t2
    End = End
    NoSession = NoSession
    SessionIds = {a, b}
    Streams = {k1}
    Tools = {t1, t2}
    Asks <- FormAndUrl
    Creators = {t1}
    Supports <- MCSupports
    LastIds = {"absent"}
    MaxSessions = 2
    QueueSize = 4
    BufferSize = 1
INVARIANTS WaiterReachable AnswersAreAsked
PROPERTIES CallsEnd DeleteReleases ExpiredEvicted
CHECK_DEADLOCK FALSE

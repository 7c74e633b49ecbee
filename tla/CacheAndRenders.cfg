\* Deadlock is not checked: the clock stops at MaxTime, requests are made once
\* and tasks run once.
SPECIFICATION MCSpec
CONSTANTS
    Workers = {w1, w2}
    Requests = {r1, r2}
    Tokens = {t}
    TTL = 1
    Delay = 1
    MaxTime = 3
    Tasks = {t1, t2}
    Commits <- MCCommits
    Payloads <- MCPayloads
    Stem <- MCStem
    Image <- MCImage
    Audio <- MCAudio
    Uploaded = {"a"}
    c1 = c1
    c2 = c2
    c3 = c3
INVARIANTS RevokedRefusedInTime RefusedWasRevoked 
PROPERTIES EverythingEnds
CHECK_DEADLOCK FALSE

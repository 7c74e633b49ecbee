\* Deadlock is not checked: tasks and webhook ids are used once.
SPECIFICATION FairSpec
CONSTANTS
    Hooks = {h1, h2}
    Subscribers = {h1, h2}
    Tasks = {t1, t2}
    MaxAttempts = 2
 
PROPERTY EveryoneEnds
CHECK_DEADLOCK FALSE

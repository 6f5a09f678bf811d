SPECIFICATION FairSpec
CONSTANTS
    Nil = Nil
    Keys = {k1, k2}
    Values = {v1}
    Callers = {c1}
    LifeTimes = {1}
    ChanBuffer = 1
    CheckInterval = 2
PROPERTIES ExpiredIsRemoved
CHECK_DEADLOCK FALSE

SPECIFICATION FairSpec
CONSTANTS
    Nil = Nil
    Keys = {k1, k2}
    Values = {v1}
    Callers = {c1, c2}
    LifeTimes = {1}
    ChanBuffer = 1
    CheckInterval = 1
INVARIANTS
    ListMirrorsMap
PROPERTIES
    NoLiveEviction
    Implements
    SendersReturn
    RemovalHappens
    QuietCacheEmpties
CHECK_DEADLOCK FALSE

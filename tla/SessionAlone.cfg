SPECIFICATION FairSpec
CONSTANTS
    Nil = Nil
    Conns = {a}
    Traffic <- AllTraffic
PROPERTIES
    HangUpEndsSession
    TextDisconnects
CHECK_DEADLOCK FALSE

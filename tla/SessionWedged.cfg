SPECIFICATION FairSpec
CONSTANTS
    Nil = Nil
    Conns = {a}
    Traffic <- Messages
PROPERTIES
    CloseCloses
CHECK_DEADLOCK FALSE

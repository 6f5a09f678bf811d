\* Three sockets, two frames after the handshakes, two calls of connect.
SPECIFICATION FairSpec
CONSTANTS
    Null = Null
    Sockets = {s1, s2, s3}
    MaxPosts = 2
    MaxCalls = 2
INVARIANTS
    TypeOK
    Listens
    ReadyIsTrue
PROPERTIES
    SwallowedInARace
    NoSelfClose
    QueueIsFifo
    Reconnects
CHECK_DEADLOCK FALSE

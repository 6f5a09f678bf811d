\* Two clients, one at the console: at most two requests and
\* two texts, three messages in all, one lost pack.
SPECIFICATION FairSpec
CONSTANTS
    None = None
    Clients = {c1, c2}
    Console = {c2}
    MaxRequests = 2
    MaxTexts = 2
    MaxMessages = 3
    MaxLost = 1
INVARIANTS
    TypeOK
    SessionIsAgreed
    TwinNeedsCrossing
PROPERTIES
    Implements
    SentIsAnswered
CHECK_DEADLOCK FALSE

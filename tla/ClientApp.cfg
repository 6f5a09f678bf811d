\* Three peers, of whom one may have sent the invite link; two keys,
\* one click on BACK, two messages, two contact requests of a peer, and three of
\* both together.
SPECIFICATION Spec
CONSTANTS
    None = None
    Peers = {p1, p2, p3}
    Inviter = p1
    MaxKeys = 2
    MaxBacks = 1
    MaxRequests = 2
    MaxMessages = 2
    MaxTraffic = 3
INVARIANTS
    TypeOK
    
    NotTrapped
    ViewIsCurrent
    CardsAreTrue
SYMMETRY Symmetry
CHECK_DEADLOCK FALSE

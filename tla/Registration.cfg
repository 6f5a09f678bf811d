SPECIFICATION Spec
CONSTANTS
    Nil = Nil
    Requests = {r, s}
    Keys = {k1, k2}
    SessionIds = {l1}
    InviteLinkExpire = 1
    Backlog = 2
SYMMETRY Permuted
INVARIANTS
    SessionIsReached
    LinkLeadsToUser
PROPERTIES
    TakeoverNeedsOverlap
CHECK_DEADLOCK FALSE

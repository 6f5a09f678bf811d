SPECIFICATION Spec
CONSTANTS
    Nil = Nil
    Conns = {a, b}
    Traffic <- Posts
SYMMETRY Permuted
INVARIANTS
    CrashNeedsClash
    AbandonedIsNoticed
    ClosersFinish
    GoneIsClosed
    OpenIsServed
    ConnectedIsOpen
CHECK_DEADLOCK FALSE

SPECIFICATION Spec
CONSTANTS
    alice = alice
    bob = bob
    alice1 = alice1
    alice2 = alice2
    bob1 = bob1
    Nil = Nil
    Keys = {alice, bob}
    Users = {alice1, bob1}
    KeyOf <- Both
    Conns = {x, y}
    Capacity = 2
    MaxSent = 2
    Traffic = {}
SYMMETRY Mirrored
INVARIANTS
    Ordered
    CrashNeedsCompany
CHECK_DEADLOCK FALSE

SPECIFICATION Spec
CONSTANTS
    alice = alice
    bob = bob
    alice1 = alice1
    alice2 = alice2
    bob1 = bob1
    Nil = Nil
    Keys = {alice}
    Users = {alice1}
    KeyOf <- AliceOnce
    Conns = {x}
    Capacity = 1
    MaxSent = 1
    Traffic = {"bad"}
PROPERTIES
    DiscardsAreBlacklisted
CHECK_DEADLOCK FALSE

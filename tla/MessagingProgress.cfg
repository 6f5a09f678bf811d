SPECIFICATION FairSpec
CONSTANTS
    alice = alice
    bob = bob
    alice1 = alice1
    alice2 = alice2
    bob1 = bob1
    Nil = Nil
    Keys = {alice, bob}
    Users = {alice1, alice2, bob1}
    KeyOf <- AliceTwice
    Conns = {x}
    Capacity = 1
    MaxSent = 2
    Traffic = {"bad", "guest"}
INVARIANTS
    TypeOK
PROPERTIES
    Implements
    RecvReturns
    MailMoves
CHECK_DEADLOCK FALSE

---------------------------- MODULE MCMessaging -----------------------------
(***************************************************************************)
(* Instances of Messaging for TLC: alice and bob, who may register once or *)
(* alice twice.  Connections are interchangeable, and so are the two users *)
(* where both register once.                                               *)
(***************************************************************************)
EXTENDS Messaging, TLC

CONSTANTS alice, bob, alice1, alice2, bob1

\* KeyOf
Both == alice1 :> alice @@ bob1 :> bob
AliceOnce == alice1 :> alice
AliceTwice == alice2 :> alice @@ Both

\* Symmetries
Permuted == Permutations(Conns)

Swapped == alice :> bob @@ bob :> alice @@ alice1 :> bob1 @@ bob1 :> alice1
Mirrored == Permuted \cup {Swapped} \cup {Swapped @@ p : p \in Permuted}

=============================================================================

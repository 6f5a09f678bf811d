---------------------------- MODULE Conversation ----------------------------
(***************************************************************************)
(* What the client library promises about the texts users send: a text is  *)
(* heard at most once and not before it is said, and it is confirmed to    *)
(* its author only when it has been heard.                                 *)
(***************************************************************************)
EXTENDS Naturals

CONSTANT Texts

VARIABLES
    said,       \* the texts said so far
    heard,      \* [Texts -> Nat]: how often each text has been shown to a receiver
    confirmed   \* the texts whose author sees them as received

vars == <<said, heard, confirmed>>

Init ==
    /\ said = {}
    /\ heard = [t \in Texts |-> 0]
    /\ confirmed = {}

Say(t) ==
    /\ t \notin said
    /\ said' = said \cup {t}
    /\ UNCHANGED <<heard, confirmed>>

Hear(t) ==
    /\ t \in said
    /\ heard[t] = 0
    /\ heard' = [heard EXCEPT ![t] = 1]
    /\ UNCHANGED <<said, confirmed>>

Confirm(t) ==
    /\ heard[t] = 1
    /\ t \notin confirmed
    /\ confirmed' = confirmed \cup {t}
    /\ UNCHANGED <<said, heard>>

Next == \E t \in Texts : Say(t) \/ Hear(t) \/ Confirm(t)

Spec == Init /\ [][Next]_vars

=============================================================================

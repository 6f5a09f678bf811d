------------------------------- MODULE Relay --------------------------------
(***************************************************************************)
(* What the message relay of src/user promises, with none of its           *)
(* machinery: it takes a message from a connection only if the message     *)
(* names the key that connection signed in with, and writes it at most     *)
(* once, and only to a connection of the key it is addressed to.  It may   *)
(* drop a message at any moment, and it promises no order.                 *)
(*                                                                         *)
(* Messaging implements this specification (Messaging!Implements).         *)
(***************************************************************************)
EXTENDS Naturals, Sequences

CONSTANTS Ids, Keys, Conns, Nil

\* id numbers the messages of a behaviour; via is where it was read.
Mail == [id : Ids, from : Keys, to : Keys, via : Conns]

VARIABLES
    owner,    \* [Conns -> Keys \cup {Nil}]: who signed in
    last,     \* the newest id seen
    held,     \* those neither written nor dropped so far
    arrived   \* [Conns -> Seq(Mail)]: what was written to each connection

relayVars == <<owner, last, held, arrived>>

-----------------------------------------------------------------------------

Init ==
    /\ owner = [c \in Conns |-> Nil]
    /\ last = 0
    /\ held = {}
    /\ arrived = [c \in Conns |-> << >>]

SignIn(c, k) ==
    /\ owner[c] = Nil
    /\ owner' = [owner EXCEPT ![c] = k]
    /\ UNCHANGED <<last, held, arrived>>

\* The newest message on a connection is taken, or refused.
Take(m) ==
    /\ m.id = last + 1
    /\ m.from = owner[m.via]
    /\ last' = m.id
    /\ held' = held \cup {m}
    /\ UNCHANGED <<owner, arrived>>

Refuse ==
    /\ last' = last + 1
    /\ UNCHANGED <<owner, held, arrived>>

Write(m, c) ==
    /\ m \in held
    /\ m.to = owner[c]
    /\ held' = held \ {m}
    /\ arrived' = [arrived EXCEPT ![c] = Append(@, m)]
    /\ UNCHANGED <<owner, last>>

Drop(m) ==
    /\ m \in held
    /\ held' = held \ {m}
    /\ UNCHANGED <<owner, last, arrived>>

Next ==
    \/ \E c \in Conns, k \in Keys : SignIn(c, k)
    \/ \E m \in Mail : Take(m)
    \/ Refuse
    \/ \E m \in held : Drop(m) \/ \E c \in Conns : Write(m, c)

Spec == Init /\ [][Next]_relayVars

=============================================================================

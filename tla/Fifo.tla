-------------------------------- MODULE Fifo --------------------------------
(***************************************************************************)
(* What the client's message queue promises whoever receives from it: the  *)
(* frames come in the order in which they were queued, each once, however  *)
(* often the socket they come from is replaced.                            *)
(***************************************************************************)
EXTENDS Naturals, Sequences

CONSTANTS Items, Nothing

VARIABLES items, last   \* what is queued; the item taken last

vars == <<items, last>>

Init == items = << >> /\ last = Nothing

\* Nobody is waiting: the item is kept.
Put(x) == items' = Append(items, x) /\ UNCHANGED last

\* Somebody is: it is handed over, and no older item is waiting.
Pass(x) == items = << >> /\ last' = x /\ UNCHANGED items

\* A receiver takes the n oldest items one after the other.
Take(n) ==
    /\ n <= Len(items)
    /\ items' = SubSeq(items, n + 1, Len(items))
    /\ last' = items[n]

Next ==
    \/ \E x \in Items : Put(x) \/ Pass(x)
    \/ \E n \in 1..Len(items) : Take(n)

Spec == Init /\ [][Next]_vars

=============================================================================

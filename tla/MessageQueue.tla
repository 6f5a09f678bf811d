---------------------------- MODULE MessageQueue ----------------------------
(***************************************************************************)
(* The class Queue of src/www/lib/tmcs-anonymous/src/util.ts: a doubly     *)
(* linked list whose header and tail are assigned piecemeal.  (Who waits   *)
(* for an element, the dequeueResolve of the code, is for the module that  *)
(* uses the queue.)                                                        *)
(*                                                                         *)
(* A node is named after its element: the elements are the frames a socket *)
(* has received, none of which is ever queued twice.  Nodes that can be    *)
(* reached from the header only are kept; tail may go on naming the last   *)
(* node after it has left the list, as it does in the code.                *)
(***************************************************************************)
EXTENDS Naturals, Sequences

CONSTANT Null

EmptyQueue == [nodes |-> << >>, header |-> Null, tail |-> Null, length |-> 0]

\* enqueue: the new node becomes the tail, and the header of an empty list; it
\* has no prior then, whatever tail was.
Prior(q) == IF q.header = Null THEN Null ELSE q.tail

\* A mutant: the old tail is not linked to the new node.
Enqueued_NoLink(q, x) ==
    [nodes |-> [y \in DOMAIN q.nodes \cup {x} |->
                    IF y = x THEN [prior |-> Prior(q), next |-> Null] ELSE q.nodes[y]],
     header |-> IF q.header = Null THEN x ELSE q.header,
     tail |-> x,
     length |-> q.length + 1]

Enqueued(q, x) ==
    [nodes |-> [y \in DOMAIN q.nodes \cup {x} |->
                    CASE y = x -> [prior |-> Prior(q), next |-> Null]
                      [] y # x /\ y = Prior(q) -> [q.nodes[y] EXCEPT !.next = x]
                      [] OTHER -> q.nodes[y]],
     header |-> IF q.header = Null THEN x ELSE q.header,
     tail |-> x,
     length |-> q.length + 1]

\* dequeueInternal: the header's successor, if it has one, becomes the header
\* and has no prior; tail is left as it is.
\* A mutant: the length is not counted down.
Dequeued_NoCount(q) ==
    LET header == q.nodes[q.header].next
    IN  [q EXCEPT !.nodes = [y \in DOMAIN q.nodes \ {q.header} |->
                                IF y = header THEN [q.nodes[y] EXCEPT !.prior = Null]
                                              ELSE q.nodes[y]],
                  !.header = header]

Dequeued(q) ==
    LET header == q.nodes[q.header].next
    IN  [q EXCEPT
            !.nodes = [y \in DOMAIN q.nodes \ {q.header} |->
                          IF y = header THEN [q.nodes[y] EXCEPT !.prior = Null]
                                        ELSE q.nodes[y]],
            !.header = header,
            !.length = @ - 1]

\* The element dequeueInternal returns.
Front(q) == q.header

\* The queue after i calls of dequeueInternal.
After(q) ==
    LET after[i \in Nat] == IF i = 0 THEN q ELSE Dequeued(after[i - 1])
    IN  after

\* Dequeueing until the queue is empty, as a loop does whose dequeue never has
\* to wait.
Drained(q) == After(q)[q.length]

-----------------------------------------------------------------------------
\* What dequeueing will return, element by element.
Contents(q) == [i \in 1..q.length |-> Front(After(q)[i - 1])]

\* The queue q is a well linked list of the elements of the sequence s.
Represents(q, s) ==
    /\ \A i, j \in 1..Len(s) : s[i] = s[j] => i = j
    /\ DOMAIN q.nodes = {s[i] : i \in 1..Len(s)}
    /\ q.length = Len(s)
    /\ q.header = IF s = << >> THEN Null ELSE s[1]
    /\ s # << >> => q.tail = s[Len(s)]
    /\ \A i \in 1..Len(s) :
          q.nodes[s[i]] = [prior |-> IF i = 1 THEN Null ELSE s[i - 1],
                           next  |-> IF i = Len(s) THEN Null ELSE s[i + 1]]

=============================================================================

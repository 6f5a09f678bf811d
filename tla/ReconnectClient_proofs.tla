----------------------- MODULE ReconnectClient_proofs -----------------------
(***************************************************************************)
(* Proofs about ReconnectClient, for any number of sockets, calls and      *)
(* posts: at most one party waits on the queue, a client that says it is   *)
(* ready has been confirmed, the sockets the client gives up are ones that *)
(* were closed, and the queue of nodes is a first-in first-out queue.      *)
(*                                                                         *)
(* The parts of the argument:                                              *)
(*  - After(q) is a recursive function: that it exists, and hence what the *)
(*    queue holds, is proved by taking the least number where it does not. *)
(*  - A queue of nodes that are linked represents a sequence; enqueueing   *)
(*    appends to it and dequeueing takes its tail.                         *)
(*  - The invariant Inv says of each frame that is about how far the       *)
(*    server has come that sent it, that it is in one place, and that the  *)
(*    confirmation comes before any message; of the sockets, that all but  *)
(*    the last are closed.  Without it a frame of an earlier connection    *)
(*    could not be told from one of this connection.                       *)
(*  - Each action of Next has a lemma that it keeps Inv.                   *)
(***************************************************************************)
EXTENDS ReconnectClient, FunctionTheorems, FiniteSetTheorems, SequenceTheorems,
        WellFoundedInduction, TLAPS

-----------------------------------------------------------------------------
(* The recursive function After.                                           *)

\* A set of numbers that is not empty has a least element.
LEMMA LeastExists ==
  ASSUME NEW T \in SUBSET Nat, T # {}
  PROVE  \E x \in T : \A y \in T : x <= y
  <1>1. PICK x \in T : \A y \in T : ~(<<y, x>> \in OpToRel(<, Nat))
    BY NatLessThanWellFounded, WFMin
  <1>2. \A y \in T : ~(y < x)
    BY <1>1 DEF OpToRel
  <1> QED BY <1>2

\* Induction: what holds of 0 and of each successor holds of every number.
LEMMA Induction ==
  ASSUME NEW T \in SUBSET Nat, 0 \in T, \A n \in T : n + 1 \in T
  PROVE  T = Nat
  <1> SUFFICES ASSUME Nat \ T # {} PROVE FALSE
    OBVIOUS
  <1>1. PICK x \in Nat \ T : \A y \in Nat \ T : x <= y
    BY LeastExists
  <1>2. x # 0 /\ x - 1 \in Nat /\ x - 1 \notin Nat \ T
    BY <1>1
  <1>3. (x - 1) + 1 \in T
    BY <1>2
  <1> QED BY <1>1, <1>2, <1>3

\* The first n + 1 values of After(q).
Prefix(f, q, n) ==
    /\ f = [i \in 0..n |-> f[i]]
    /\ f[0] = q
    /\ \A i \in 1..n : f[i] = Dequeued(f[i - 1])

\* There are such functions of every length.
LEMMA PrefixExists ==
  ASSUME NEW q
  PROVE  \A n \in Nat : \E f : Prefix(f, q, n)
  <1> DEFINE T == {n \in Nat : \E f : Prefix(f, q, n)}
  <1>1. 0 \in T
    <2>1. PICK f : f = [i \in 0..0 |-> q]
      OBVIOUS
    <2>2. Prefix(f, q, 0)
      BY <2>1 DEF Prefix
    <2> QED BY <2>2
  <1>2. ASSUME NEW n \in T PROVE n + 1 \in T
    <2>1. PICK f : Prefix(f, q, n)
      OBVIOUS
    <2>2. PICK g : g = [i \in 0..(n + 1) |-> IF i = n + 1 THEN Dequeued(f[n]) ELSE f[i]]
      OBVIOUS
    <2>3. \A i \in 0..n : g[i] = f[i]
      BY <2>2
    <2>4. g[n + 1] = Dequeued(f[n])
      BY <2>2
    <2>5. g[0] = q
      BY <2>1, <2>3 DEF Prefix
    <2>6. \A i \in 1..(n + 1) : g[i] = Dequeued(g[i - 1])
      <3> SUFFICES ASSUME NEW i \in 1..(n + 1) PROVE g[i] = Dequeued(g[i - 1])
        OBVIOUS
      <3>1. CASE i = n + 1
        <4>1. g[i - 1] = f[n]
          BY <2>3, <3>1
        <4> QED BY <2>4, <3>1, <4>1
      <3>2. CASE i \in 1..n
        <4>1. g[i - 1] = f[i - 1] /\ g[i] = f[i]
          BY <2>3, <3>2
        <4>2. f[i] = Dequeued(f[i - 1])
          BY <2>1, <3>2 DEF Prefix
        <4> QED BY <4>1, <4>2
      <3> QED BY <3>1, <3>2
    <2>7. g = [i \in 0..(n + 1) |-> g[i]]
      BY <2>2
    <2>8. Prefix(g, q, n + 1)
      BY <2>5, <2>6, <2>7 DEF Prefix
    <2> QED BY <2>8
  <1> HIDE DEF T
  <1>3. T = Nat
    <2>1. T \in SUBSET Nat
      BY DEF T
    <2> QED BY <1>1, <1>2, <2>1, Induction
  <1> QED BY <1>3 DEF T

\* Two of them agree where both are defined.
LEMMA PrefixUnique ==
  ASSUME NEW q, NEW m \in Nat, NEW n \in Nat, NEW f, NEW g,
         Prefix(f, q, m), Prefix(g, q, n)
  PROVE  \A i \in Nat : i <= m /\ i <= n => f[i] = g[i]
  <1> DEFINE T == {i \in Nat : i <= m /\ i <= n => f[i] = g[i]}
  <1>1. 0 \in T
    BY DEF Prefix
  <1>2. ASSUME NEW i \in T PROVE i + 1 \in T
    <2> SUFFICES ASSUME i + 1 <= m, i + 1 <= n PROVE f[i + 1] = g[i + 1]
      OBVIOUS
    <2>1. f[i] = g[i] /\ i + 1 \in 1..m /\ i + 1 \in 1..n /\ (i + 1) - 1 = i
      OBVIOUS
    <2>2. f[i + 1] = Dequeued(f[i])
      BY <2>1 DEF Prefix
    <2>3. g[i + 1] = Dequeued(g[i])
      BY <2>1 DEF Prefix
    <2> QED BY <2>1, <2>2, <2>3
  <1> HIDE DEF T
  <1>3. T = Nat
    <2>1. T \in SUBSET Nat
      BY DEF T
    <2> QED BY <1>1, <1>2, <2>1, Induction
  <1> QED BY <1>3 DEF T

\* After(q) is the function its definition describes.
LEMMA AfterIs ==
  ASSUME NEW q
  PROVE  /\ After(q)[0] = q
         /\ \A i \in Nat : After(q)[i + 1] = Dequeued(After(q)[i])
  <1>1. \A n \in Nat : \E f : Prefix(f, q, n)
    BY PrefixExists
  <1> DEFINE p(n) == CHOOSE f : Prefix(f, q, n)
  <1>2. \A n \in Nat : Prefix(p(n), q, n)
    BY <1>1
  <1> HIDE DEF p
  <1>3. PICK h : h = [n \in Nat |-> p(n)[n]]
    OBVIOUS
  <1>4. h[0] = q
    BY <1>2, <1>3 DEF Prefix
  <1>5. ASSUME NEW n \in Nat PROVE h[n + 1] = Dequeued(h[n])
    <2>1. Prefix(p(n), q, n) /\ Prefix(p(n + 1), q, n + 1)
      BY <1>2
    <2>2. p(n + 1)[n] = p(n)[n]
      BY <2>1, PrefixUnique
    <2>3. n + 1 \in 1..(n + 1) /\ (n + 1) - 1 = n
      OBVIOUS
    <2>4. p(n + 1)[n + 1] = Dequeued(p(n + 1)[n])
      BY <2>1, <2>3 DEF Prefix
    <2> QED BY <1>3, <2>2, <2>4
  <1>6. h = [i \in Nat |-> IF i = 0 THEN q ELSE Dequeued(h[i - 1])]
    <2>1. \A i \in Nat : h[i] = IF i = 0 THEN q ELSE Dequeued(h[i - 1])
      <3> SUFFICES ASSUME NEW i \in Nat, i # 0 PROVE h[i] = Dequeued(h[i - 1])
        BY <1>4
      <3>1. i - 1 \in Nat /\ (i - 1) + 1 = i
        OBVIOUS
      <3> QED BY <1>5, <3>1
    <2> QED BY <1>3, <2>1
  <1>7. After(q) = [i \in Nat |-> IF i = 0 THEN q ELSE Dequeued(After(q)[i - 1])]
    BY <1>6 DEF After
  <1>8. After(q)[0] = q
    BY <1>7
  <1>9. ASSUME NEW i \in Nat PROVE After(q)[i + 1] = Dequeued(After(q)[i])
    <2>1. i + 1 \in Nat /\ i + 1 # 0 /\ (i + 1) - 1 = i
      OBVIOUS
    <2> QED BY <1>7, <2>1
  <1> QED BY <1>8, <1>9

-----------------------------------------------------------------------------
(* The linked list.                                                        *)

\* q is a record of the four fields, and the list of the elements of s.
Lists(q, s) ==
    /\ q = [nodes |-> q.nodes, header |-> q.header, tail |-> q.tail, length |-> q.length]
    /\ q.nodes = [y \in DOMAIN q.nodes |-> q.nodes[y]]
    /\ Represents(q, s)

\* The empty queue is the list of no elements.
LEMMA EmptyLists == Lists(EmptyQueue, << >>)
  <1>1. DOMAIN EmptyQueue.nodes = {}
    BY DEF EmptyQueue
  <1> QED BY <1>1 DEF Lists, Represents, EmptyQueue

\* enqueue appends the element to the list.
LEMMA EnqueueAppends ==
  ASSUME NEW S, NEW s \in Seq(S), NEW x \in S, NEW q, Lists(q, s), Null \notin S,
         \A i \in 1..Len(s) : s[i] # x
  PROVE  Lists(Enqueued(q, x), Append(s, x))
  <1>0. Represents(q, s)
    BY DEF Lists
  <1>1. PICK r : r = Enqueued(q, x)
    OBVIOUS
  <1>2. PICK t : t = Append(s, x)
    OBVIOUS
  <1>3. /\ t \in Seq(S) /\ Len(t) = Len(s) + 1 /\ t[Len(t)] = x /\ t # << >>
        /\ \A i \in 1..Len(s) : t[i] = s[i] /\ i \in 1..Len(t)
        /\ \A i \in 1..Len(t) : i = Len(t) \/ i \in 1..Len(s)
        /\ Len(t) \in 1..Len(t) /\ Len(s) \in Nat
    BY <1>2
  <1>4. \A i \in 1..Len(s) : s[i] \in S
    OBVIOUS
  <1>5. Prior(q) = IF s = << >> THEN Null ELSE s[Len(s)]
    <2>1. CASE s = << >>
      BY <1>0, <2>1 DEF Represents, Prior
    <2>2. CASE s # << >>
      <3>1. 1 \in 1..Len(s) /\ s[1] \in S /\ s[1] # Null
        BY <1>3, <1>4, <2>2, EmptySeq
      <3> QED BY <1>0, <2>2, <3>1 DEF Represents, Prior
    <2> QED BY <2>1, <2>2
  <1>6. /\ r = [nodes |-> r.nodes, header |-> r.header, tail |-> r.tail, length |-> r.length]
        /\ r.nodes = [y \in DOMAIN r.nodes |-> r.nodes[y]]
        /\ DOMAIN r.nodes = DOMAIN q.nodes \cup {x}
        /\ r.length = Len(t)
        /\ r.tail = t[Len(t)]
    <2>1. r.nodes = [y \in DOMAIN q.nodes \cup {x} |->
                      CASE y = x -> [prior |-> Prior(q), next |-> Null]
                        [] y # x /\ y = Prior(q) -> [q.nodes[y] EXCEPT !.next = x]
                        [] OTHER -> q.nodes[y]]
      BY <1>1 DEF Enqueued
    <2>2. r.tail = x /\ r.length = q.length + 1
      BY <1>1 DEF Enqueued
    <2>3. r = [nodes |-> r.nodes, header |-> r.header, tail |-> r.tail,
               length |-> r.length]
      BY <1>1 DEF Enqueued
    <2>4. q.length = Len(s)
      BY <1>0 DEF Represents
    <2>5. r.nodes = [y \in DOMAIN r.nodes |-> r.nodes[y]]
          /\ DOMAIN r.nodes = DOMAIN q.nodes \cup {x}
      BY <2>1
    <2> QED BY <1>3, <2>2, <2>3, <2>4, <2>5
  <1>7. r.header = t[1]
    <2>1. CASE s = << >>
      BY <1>0, <1>1, <1>3, <2>1 DEF Enqueued, Represents
    <2>2. CASE s # << >>
      <3>1. 1 \in 1..Len(s) /\ s[1] \in S /\ s[1] # Null
        BY <1>3, <1>4, <2>2, EmptySeq
      <3> QED BY <1>0, <1>1, <1>3, <2>2, <3>1 DEF Enqueued, Represents
    <2> QED BY <2>1, <2>2
  <1>8. \A i, j \in 1..Len(t) : t[i] = t[j] => i = j
    <2> SUFFICES ASSUME NEW i \in 1..Len(t), NEW j \in 1..Len(t), t[i] = t[j] PROVE i = j
      OBVIOUS
    <2>1. CASE i \in 1..Len(s) /\ j \in 1..Len(s)
      <3>1. s[i] = s[j]
        BY <1>3, <2>1
      <3> QED BY <1>0, <2>1, <3>1 DEF Represents
    <2>2. CASE i = Len(t)
      BY <1>3, <2>2
    <2>3. CASE j = Len(t)
      BY <1>3, <2>3
    <2> QED BY <1>3, <2>1, <2>2, <2>3
  <1>9. DOMAIN r.nodes = {t[i] : i \in 1..Len(t)}
    <2>1. DOMAIN q.nodes = {s[i] : i \in 1..Len(s)}
      BY <1>0 DEF Represents
    <2> QED BY <1>3, <1>6, <2>1
  <1>10. ASSUME NEW i \in 1..Len(t)
         PROVE  r.nodes[t[i]] = [prior |-> IF i = 1 THEN Null ELSE t[i - 1],
                                 next  |-> IF i = Len(t) THEN Null ELSE t[i + 1]]
    <2>1. \A y \in DOMAIN q.nodes \cup {x} :
             r.nodes[y] = CASE y = x -> [prior |-> Prior(q), next |-> Null]
                            [] y # x /\ y = Prior(q) -> [q.nodes[y] EXCEPT !.next = x]
                            [] OTHER -> q.nodes[y]
      BY <1>1 DEF Enqueued
    <2>2. CASE i = Len(t)
      <3>1. r.nodes[t[i]] = [prior |-> Prior(q), next |-> Null]
        BY <1>3, <2>1, <2>2
      <3>2. CASE s = << >>
        BY <1>3, <1>5, <2>2, <3>1, <3>2
      <3>3. CASE s # << >>
        <4>1. i # 1 /\ i - 1 = Len(s) /\ t[i - 1] = s[Len(s)]
          BY <1>3, <2>2, <3>3
        <4> QED BY <1>5, <2>2, <3>1, <3>3, <4>1
      <3> QED BY <3>2, <3>3
    <2>3. CASE i \in 1..Len(s)
      <3>1. t[i] = s[i] /\ s[i] # x /\ s[i] \in DOMAIN q.nodes /\ i # Len(t)
        <4>1. DOMAIN q.nodes = {s[j] : j \in 1..Len(s)}
          BY <1>0 DEF Represents
        <4> QED BY <1>3, <2>3, <4>1
      <3>2. q.nodes[s[i]] = [prior |-> IF i = 1 THEN Null ELSE s[i - 1],
                             next  |-> IF i = Len(s) THEN Null ELSE s[i + 1]]
        BY <1>0, <2>3 DEF Represents
      <3>3. i # 1 => t[i - 1] = s[i - 1]
        BY <1>3, <2>3
      <3>4. CASE i = Len(s)
        <4>1. s[i] = Prior(q) /\ t[i + 1] = x
          BY <1>3, <1>5, <2>3, <3>4
        <4>2. r.nodes[t[i]] = [q.nodes[s[i]] EXCEPT !.next = x]
          BY <2>1, <3>1, <4>1
        <4>3. r.nodes[t[i]] = [prior |-> IF i = 1 THEN Null ELSE s[i - 1], next |-> x]
          BY <3>2, <4>2
        <4> QED BY <3>1, <3>3, <4>1, <4>3
      <3>5. CASE i # Len(s)
        <4>1. s[i] # Prior(q)
          <5>1. s # << >> /\ Len(s) \in 1..Len(s)
            BY <1>3, <2>3
          <5> QED BY <1>0, <1>5, <2>3, <3>5, <5>1 DEF Represents
        <4>2. r.nodes[t[i]] = q.nodes[s[i]]
          BY <2>1, <3>1, <4>1
        <4>3. t[i + 1] = s[i + 1]
          BY <1>3, <2>3, <3>5
        <4> QED BY <3>1, <3>2, <3>3, <3>5, <4>2, <4>3
      <3> QED BY <3>4, <3>5
    <2> QED BY <1>3, <2>2, <2>3
  <1>11. Represents(r, t)
    BY <1>3, <1>6, <1>7, <1>8, <1>9, <1>10 DEF Represents
  <1> QED BY <1>1, <1>2, <1>6, <1>11 DEF Lists

\* dequeueInternal removes the first element, which it returns, and links the
\* rest as before.
LEMMA DequeueDrops ==
  ASSUME NEW S, NEW s \in Seq(S), s # << >>, NEW q, Lists(q, s), Null \notin S
  PROVE  Front(q) = s[1] /\ Lists(Dequeued(q), Tail(s))
  <1>0. Represents(q, s)
    BY DEF Lists
  <1>1. PICK r : r = Dequeued(q)
    OBVIOUS
  <1>2. PICK t : t = Tail(s)
    OBVIOUS
  <1>3. /\ t \in Seq(S) /\ Len(t) = Len(s) - 1 /\ Len(s) \in Nat /\ Len(t) \in Nat
        /\ 1 \in 1..Len(s) /\ Len(s) \in 1..Len(s)
        /\ \A i \in 1..Len(t) : t[i] = s[i + 1] /\ i + 1 \in 1..Len(s)
        /\ \A i \in 1..Len(s) : i = 1 \/ (i - 1 \in 1..Len(t) /\ (i - 1) + 1 = i)
    BY <1>2
  <1>4. t = << >> <=> Len(s) = 1
    BY <1>3, EmptySeq
  <1>5. Front(q) = s[1] /\ q.header = s[1]
    BY <1>0 DEF Front, Represents
  <1>6. q.nodes[q.header].next = IF Len(s) = 1 THEN Null ELSE s[2]
    <2>1. q.nodes[s[1]] = [prior |-> IF 1 = 1 THEN Null ELSE s[1 - 1],
                           next  |-> IF 1 = Len(s) THEN Null ELSE s[1 + 1]]
      BY <1>0, <1>3 DEF Represents
    <2>2. 1 + 1 = 2
      OBVIOUS
    <2> QED BY <1>5, <2>1, <2>2
  <1>7. /\ r.nodes = [y \in DOMAIN q.nodes \ {s[1]} |->
                        IF y = q.nodes[q.header].next THEN [q.nodes[y] EXCEPT !.prior = Null]
                                                      ELSE q.nodes[y]]
        /\ r.header = q.nodes[q.header].next
        /\ r.length = q.length - 1
        /\ r.tail = q.tail
        /\ r = [nodes |-> r.nodes, header |-> r.header, tail |-> r.tail, length |-> r.length]
    <2>1. PICK a, b, c, d : q = [nodes |-> a, header |-> b, tail |-> c, length |-> d]
      BY DEF Lists
    <2> QED BY <1>1, <1>5, <2>1 DEF Dequeued
  <1>8. DOMAIN r.nodes = {t[i] : i \in 1..Len(t)}
    <2>1. DOMAIN r.nodes = {s[i] : i \in 1..Len(s)} \ {s[1]}
      BY <1>0, <1>7 DEF Represents
    <2>2. \A i \in 1..Len(s) : s[i] = s[1] => i = 1
      BY <1>0, <1>3 DEF Represents
    <2>3. ASSUME NEW y \in DOMAIN r.nodes PROVE \E i \in 1..Len(t) : y = t[i]
      <3>1. PICK i \in 1..Len(s) : y = s[i] /\ i # 1
        BY <2>1
      <3>2. i - 1 \in 1..Len(t) /\ t[i - 1] = s[i]
        BY <1>3, <3>1
      <3> QED BY <3>1, <3>2
    <2>4. ASSUME NEW i \in 1..Len(t) PROVE t[i] \in DOMAIN r.nodes
      <3>1. t[i] = s[i + 1] /\ i + 1 \in 1..Len(s) /\ i + 1 # 1
        BY <1>3
      <3> QED BY <2>1, <2>2, <3>1
    <2> QED BY <2>3, <2>4
  <1>9. \A i, j \in 1..Len(t) : t[i] = t[j] => i = j
    <2> SUFFICES ASSUME NEW i \in 1..Len(t), NEW j \in 1..Len(t), t[i] = t[j] PROVE i = j
      OBVIOUS
    <2>1. s[i + 1] = s[j + 1] /\ i + 1 \in 1..Len(s) /\ j + 1 \in 1..Len(s)
      BY <1>3
    <2>2. i + 1 = j + 1
      BY <1>0, <2>1 DEF Represents
    <2> QED BY <2>2
  <1>10. r.length = Len(t)
    BY <1>0, <1>3, <1>7 DEF Represents
  <1>11. r.header = IF t = << >> THEN Null ELSE t[1]
    <2>1. CASE Len(s) = 1
      BY <1>4, <1>6, <1>7, <2>1
    <2>2. CASE Len(s) # 1
      <3>1. 1 \in 1..Len(t) /\ t[1] = s[1 + 1] /\ 1 + 1 = 2
        BY <1>3, <2>2
      <3> QED BY <1>4, <1>6, <1>7, <2>2, <3>1
    <2> QED BY <2>1, <2>2
  <1>12. t # << >> => r.tail = t[Len(t)]
    <2> SUFFICES ASSUME t # << >> PROVE r.tail = t[Len(t)]
      OBVIOUS
    <2>1. q.tail = s[Len(s)]
      BY <1>0 DEF Represents
    <2>2. Len(t) \in 1..Len(t) /\ Len(t) + 1 = Len(s)
      BY <1>3, <1>4
    <2> QED BY <1>3, <1>7, <2>1, <2>2
  <1>13. ASSUME NEW i \in 1..Len(t)
         PROVE  r.nodes[t[i]] = [prior |-> IF i = 1 THEN Null ELSE t[i - 1],
                                 next  |-> IF i = Len(t) THEN Null ELSE t[i + 1]]
    <2>1. t[i] = s[i + 1] /\ i + 1 \in 1..Len(s) /\ i + 1 # 1 /\ (i + 1) - 1 = i
      BY <1>3
    <2>2. q.nodes[t[i]] = [prior |-> s[i],
                           next  |-> IF i + 1 = Len(s) THEN Null ELSE s[(i + 1) + 1]]
      <3>1. PICK j \in 1..Len(s) : j = i + 1
        BY <2>1
      <3>2. q.nodes[s[j]] = [prior |-> IF j = 1 THEN Null ELSE s[j - 1],
                             next  |-> IF j = Len(s) THEN Null ELSE s[j + 1]]
        BY <1>0 DEF Represents
      <3>3. j # 1 /\ j - 1 = i /\ t[i] = s[j]
        BY <2>1, <3>1
      <3> QED BY <3>1, <3>2, <3>3
    <2>3. i = Len(t) <=> i + 1 = Len(s)
      BY <1>3
    <2>4. i # Len(t) => t[i + 1] = s[(i + 1) + 1]
      BY <1>3
    <2>5. t[i] \in DOMAIN r.nodes
      BY <1>8
    <2>6. CASE i = 1
      <3>1. t[i] = q.nodes[q.header].next
        <4>1. s[i + 1] = s[2] /\ Len(s) # 1
          BY <1>3, <2>6
        <4> QED BY <1>6, <2>1, <4>1
      <3>2. r.nodes[t[i]] = [q.nodes[t[i]] EXCEPT !.prior = Null]
        BY <1>7, <2>5, <3>1
      <3>3. r.nodes[t[i]] = [prior |-> Null,
                             next |-> IF i + 1 = Len(s) THEN Null ELSE s[(i + 1) + 1]]
        BY <2>2, <3>2
      <3> QED BY <2>3, <2>4, <2>6, <3>3
    <2>7. CASE i # 1
      <3>1. t[i] # q.nodes[q.header].next
        <4>1. Len(s) # 1 /\ 2 \in 1..Len(s) /\ i + 1 # 2
          BY <1>3, <2>7
        <4>2. s[i + 1] # s[2]
          BY <1>0, <2>1, <4>1 DEF Represents
        <4> QED BY <1>6, <2>1, <4>1, <4>2
      <3>2. r.nodes[t[i]] = q.nodes[t[i]]
        BY <1>7, <2>5, <3>1
      <3>3. t[i - 1] = s[i]
        <4>1. i - 1 \in 1..Len(t) /\ (i - 1) + 1 = i
          BY <1>3, <2>7
        <4> QED BY <1>3, <4>1
      <3> QED BY <2>2, <2>3, <2>4, <2>7, <3>2, <3>3
    <2> QED BY <2>6, <2>7
  <1>14. Represents(r, t)
    BY <1>8, <1>9, <1>10, <1>11, <1>12, <1>13 DEF Represents
  <1>15. r.nodes = [y \in DOMAIN r.nodes |-> r.nodes[y]]
    BY <1>7
  <1> QED BY <1>1, <1>2, <1>5, <1>7, <1>14, <1>15 DEF Lists

\* The elements of a sequence from the i-th on.
LEMMA SubSeqFromIndex ==
  ASSUME NEW S, NEW s \in Seq(S), NEW i \in 1..Len(s)
  PROVE  LET t == SubSeq(s, i, Len(s))
         IN  t \in Seq(S) /\ t # << >> /\ t[1] = s[i] /\ Tail(t) = SubSeq(s, i + 1, Len(s))
  <1>1. PICK t : t = SubSeq(s, i, Len(s))
    OBVIOUS
  <1>2. Len(s) \in i..Len(s) /\ i \in Int /\ Len(s) \in Int /\ i <= Len(s)
    OBVIOUS
  <1>3. Tail(t) = SubSeq(s, i + 1, Len(s))
    BY <1>1, <1>2, HeadTailOfSubSeq
  <1>4. \A j \in i..Len(s) : s[j] \in S
    OBVIOUS
  <1>5. /\ t \in Seq(S)
        /\ Len(t) = Len(s) - i + 1
        /\ \A j \in 1..Len(s) - i + 1 : t[j] = s[i + j - 1]
    BY <1>1, <1>2, <1>4, SubSeqProperties
  <1>6. 1 \in 1..Len(s) - i + 1 /\ i + 1 - 1 = i /\ t # << >>
    BY <1>2, <1>5, EmptySeq
  <1> QED BY <1>1, <1>3, <1>5, <1>6

\* After i calls the list is that of the elements after the first i.
LEMMA AfterLists ==
  ASSUME NEW S, NEW s \in Seq(S), NEW q, Lists(q, s), Null \notin S
  PROVE  \A i \in 0..Len(s) : Lists(After(q)[i], SubSeq(s, i + 1, Len(s)))
  <1> DEFINE T == {i \in Nat : i <= Len(s) => Lists(After(q)[i], SubSeq(s, i + 1, Len(s)))}
  <1>1. 0 \in T
    <2>1. SubSeq(s, 0 + 1, Len(s)) = s
      BY SubSeqFull
    <2> QED BY <2>1, AfterIs
  <1>2. ASSUME NEW i \in T PROVE i + 1 \in T
    <2> SUFFICES ASSUME i + 1 <= Len(s)
                 PROVE  Lists(After(q)[i + 1], SubSeq(s, (i + 1) + 1, Len(s)))
      OBVIOUS
    <2>1. PICK t : t = SubSeq(s, i + 1, Len(s))
      OBVIOUS
    <2>2. t \in Seq(S) /\ t # << >> /\ Tail(t) = SubSeq(s, (i + 1) + 1, Len(s))
      BY <2>1, SubSeqFromIndex
    <2>3. Lists(After(q)[i], t)
      BY <2>1
    <2>4. Lists(Dequeued(After(q)[i]), Tail(t))
      BY <2>2, <2>3, DequeueDrops
    <2> QED BY <2>2, <2>4, AfterIs
  <1> HIDE DEF T
  <1>3. T = Nat
    <2>1. T \in SUBSET Nat
      BY DEF T
    <2> QED BY <1>1, <1>2, <2>1, Induction
  <1> QED BY <1>3 DEF T

\* What dequeueing returns is the sequence, and it leaves an empty list.
LEMMA ContentsIs ==
  ASSUME NEW S, NEW s \in Seq(S), NEW q, Lists(q, s), Null \notin S
  PROVE  Contents(q) = s /\ Lists(Drained(q), << >>) /\ q.length = Len(s)
  <1>0. Represents(q, s)
    BY DEF Lists
  <1>1. q.length = Len(s) /\ Len(s) \in Nat
    <2>1. q.length = Len(s)
      BY <1>0, Zenon DEF Represents
    <2> QED BY <2>1
  <1>2. ASSUME NEW i \in 1..Len(s) PROVE Front(After(q)[i - 1]) = s[i]
    <2>1. i - 1 \in 0..Len(s) /\ (i - 1) + 1 = i
      OBVIOUS
    <2>2. PICK t : t = SubSeq(s, i, Len(s))
      OBVIOUS
    <2>3. t \in Seq(S) /\ t # << >> /\ t[1] = s[i]
      BY <2>2, SubSeqFromIndex
    <2>4. Lists(After(q)[i - 1], t)
      BY <2>1, <2>2, AfterLists
    <2> QED BY <2>3, <2>4, DequeueDrops
  <1>3. Contents(q) = s
    BY <1>1, <1>2 DEF Contents
  <1>4. Lists(Drained(q), << >>)
    <2>1. SubSeq(s, Len(s) + 1, Len(s)) = << >>
      BY <1>1, SubSeqEmpty
    <2>2. Lists(After(q)[Len(s)], SubSeq(s, Len(s) + 1, Len(s)))
      BY <1>1, AfterLists
    <2> QED BY <1>1, <2>1, <2>2 DEF Drained
  <1> QED BY <1>1, <1>3, <1>4

-----------------------------------------------------------------------------
(* The same for a queue of frames, whose contents are what it lists.       *)

Linked(q) == Contents(q) \in Seq(Frames) /\ Lists(q, Contents(q))

\* A queue that lists a sequence has it for contents.
LEMMA ListsIsLinked ==
  ASSUME NEW c \in Seq(Frames), NEW q, Lists(q, c)
  PROVE  Linked(q) /\ Contents(q) = c
  <1>1. Contents(q) = c
    BY ContentsIs, NullAssumption
  <1> QED BY <1>1 DEF Linked

\* A linked queue has the nodes of its contents, and no header when it is empty.
LEMMA LinkedIs ==
  ASSUME NEW q, Linked(q)
  PROVE  /\ DOMAIN q.nodes = {Contents(q)[i] : i \in 1..Len(Contents(q))}
         /\ DOMAIN q.nodes \subseteq Frames
         /\ q.header = Null <=> Contents(q) = << >>
         /\ q.header = Null <=> DOMAIN q.nodes = {}
         /\ q.length = Len(Contents(q))
         /\ q.length \in Nat
  <1>1. PICK c \in Seq(Frames) : c = Contents(q)
    BY DEF Linked
  <1>2. Represents(q, c)
    BY <1>1 DEF Linked, Lists
  <1>3. DOMAIN q.nodes = {c[i] : i \in 1..Len(c)} /\ q.length = Len(c)
    BY <1>2 DEF Represents
  <1>4. \A i \in 1..Len(c) : c[i] \in Frames
    OBVIOUS
  <1>5. c # << >> => 1 \in 1..Len(c)
    BY EmptySeq
  <1>6. q.header = Null <=> c = << >>
    <2>1. q.header = IF c = << >> THEN Null ELSE c[1]
      BY <1>2 DEF Represents
    <2> QED BY <1>4, <1>5, <2>1, NullAssumption
  <1>7. c = << >> => DOMAIN q.nodes = {}
    BY <1>3
  <1>8. c # << >> => DOMAIN q.nodes # {}
    BY <1>3, <1>5
  <1>9. DOMAIN q.nodes \subseteq Frames
    BY <1>3, <1>4
  <1>10. q.length \in Nat
    BY <1>3
  <1>11. q.header = Null <=> DOMAIN q.nodes = {}
    BY <1>6, <1>7, <1>8
  <1> QED BY <1>1, <1>3, <1>6, <1>9, <1>10, <1>11, Zenon

\* Enqueueing on a linked list appends a frame to what the list holds.
LEMMA LinkedEnqueued ==
  ASSUME NEW q, Linked(q), NEW x \in Frames, x \notin DOMAIN q.nodes
  PROVE  /\ Linked(Enqueued(q, x))
         /\ Contents(Enqueued(q, x)) = Append(Contents(q), x)
         /\ DOMAIN Enqueued(q, x).nodes = DOMAIN q.nodes \cup {x}
  <1>1. PICK c \in Seq(Frames) : c = Contents(q)
    BY DEF Linked
  <1>2. Lists(q, c) /\ \A i \in 1..Len(c) : c[i] # x
    BY <1>1, LinkedIs DEF Linked
  <1>3. Lists(Enqueued(q, x), Append(c, x)) /\ Append(c, x) \in Seq(Frames)
    BY <1>2, EnqueueAppends, NullAssumption
  <1>4. DOMAIN Enqueued(q, x).nodes = DOMAIN q.nodes \cup {x}
    BY DEF Enqueued
  <1> QED BY <1>1, <1>3, <1>4, ListsIsLinked

\* Dequeueing removes the first frame of what the list holds.
LEMMA LinkedDequeued ==
  ASSUME NEW q, Linked(q), q.header # Null
  PROVE  /\ Linked(Dequeued(q))
         /\ Contents(q) # << >>
         /\ Contents(Dequeued(q)) = Tail(Contents(q))
         /\ Front(q) = Contents(q)[1]
         /\ Front(q) \in DOMAIN q.nodes
         /\ Front(q) \in Frames
         /\ DOMAIN Dequeued(q).nodes = DOMAIN q.nodes \ {Front(q)}
  <1>1. PICK c \in Seq(Frames) : c = Contents(q)
    BY DEF Linked
  <1>2. Lists(q, c) /\ c # << >>
    BY <1>1, LinkedIs DEF Linked
  <1>3. Front(q) = c[1] /\ Lists(Dequeued(q), Tail(c)) /\ Tail(c) \in Seq(Frames)
    BY <1>2, DequeueDrops, NullAssumption
  <1>4. Linked(Dequeued(q)) /\ Contents(Dequeued(q)) = Tail(c)
    BY <1>3, ListsIsLinked
  <1>5. 1 \in 1..Len(c)
    BY <1>2, EmptySeq
  <1>6. Front(q) \in DOMAIN q.nodes /\ Front(q) \in Frames
    BY <1>1, <1>3, <1>5, LinkedIs
  <1>7. DOMAIN Dequeued(q).nodes = DOMAIN q.nodes \ {Front(q)}
    <2>1. PICK a, b, d, e : q = [nodes |-> a, header |-> b, tail |-> d, length |-> e]
      BY <1>2 DEF Lists
    <2> QED BY <2>1 DEF Dequeued, Front
  <1> QED BY <1>1, <1>2, <1>3, <1>4, <1>6, <1>7

\* Draining leaves nothing in the list.
LEMMA LinkedDrained ==
  ASSUME NEW q, Linked(q)
  PROVE  /\ Linked(Drained(q))
         /\ Contents(Drained(q)) = << >>
         /\ DOMAIN Drained(q).nodes = {}
         /\ Drained(q).header = Null
  <1>1. Lists(Drained(q), << >>)
    BY ContentsIs, NullAssumption DEF Linked
  <1>2. << >> \in Seq(Frames)
    OBVIOUS
  <1>3. Linked(Drained(q)) /\ Contents(Drained(q)) = << >>
    BY <1>1, <1>2, ListsIsLinked
  <1> QED BY <1>3, LinkedIs

\* An element that is handed on at once leaves the queue empty.
LEMMA LinkedPassed ==
  ASSUME NEW q, Linked(q), q.header = Null, NEW x \in Frames
  PROVE  /\ Linked(Enqueued(q, x))
         /\ Front(Enqueued(q, x)) = x
         /\ Linked(Dequeued(Enqueued(q, x)))
         /\ Contents(Dequeued(Enqueued(q, x))) = << >>
         /\ DOMAIN Dequeued(Enqueued(q, x)).nodes = {}
         /\ Dequeued(Enqueued(q, x)).header = Null
         /\ Dequeued(Enqueued(q, x)).length = 0
  <1>1. PICK r : r = Enqueued(q, x)
    OBVIOUS
  <1>2. Contents(q) = << >> /\ x \notin DOMAIN q.nodes
    BY LinkedIs
  <1>3. Linked(r) /\ Contents(r) = << x >>
    <2>1. Append(<< >>, x) = << x >>
      OBVIOUS
    <2> QED BY <1>1, <1>2, <2>1, LinkedEnqueued
  <1>4. r.header # Null
    BY <1>3, LinkedIs
  <1>5. Front(r) = x /\ Linked(Dequeued(r)) /\ Contents(Dequeued(r)) = << >>
    BY <1>3, <1>4, LinkedDequeued
  <1>6. Dequeued(r).header = Null /\ DOMAIN Dequeued(r).nodes = {} /\ Dequeued(r).length = 0
    BY <1>5, LinkedIs
  <1> QED BY <1>1, <1>3, <1>5, <1>6

-----------------------------------------------------------------------------
(* What connect reads.                                                     *)

\* A field is in the bytes unless it has its default value.
LEMMA Written ==
  ASSUME NEW fields, NEW object, NEW b, b = W!Serialize(fields, object),
         NEW n \in DOMAIN fields
  PROVE  /\ n \in DOMAIN b <=> object[fields[n][1]] # W!Default(fields[n][2])
         /\ n \in DOMAIN b => /\ b[n].wire = W!WireType(fields[n][2])
                              /\ b[n].value = object[fields[n][1]]
  BY DEF W!Serialize

\* Words and receipts cannot be read as a handshake; what can be read has a
\* token that is its socket's or is missing.
LEMMA Readings ==
  ASSUME NEW f \in Frames, ServerHandShake(f) # Null
  PROVE  f.kind \notin {"text", "receipt"} /\ getToken(f) \in Sockets \cup {""}
  <1> DEFINE names == {"serverversion", "token"}
  <1>1. f.from \in Sockets /\ f.kind \in Kinds
    BY DEF Frames
  <1>2. PICK reads : reads = W!ServerHandShake.reads
    OBVIOUS
  <1> DEFINE number(name) == CHOOSE i \in DOMAIN reads : reads[i][1] = name
  <1>3. PICK b : b = Bytes(f)
    OBVIOUS
  <1>4. DOMAIN reads = 1..2 /\ reads[2][1] = "token" /\ reads[2][2] = "string"
        /\ reads[1][1] = "serverversion"
    BY <1>2 DEF W!ServerHandShake
  <1>5. W!Names(reads) = names /\ number("token") = 2
    <2>1. \A i \in 1..2 : i = 1 \/ i = 2
      OBVIOUS
    <2>2. number("token") = 2
      BY <1>4, <2>1
    <2>3. W!Names(reads) = names
      BY <1>4, <2>1 DEF W!Names
    <2> QED BY <2>2, <2>3
  <1> HIDE DEF number
  <1>6. W!Readable(reads, b)
    BY <1>2, <1>3 DEF ServerHandShake, W!Deserialize
  <1>7. getToken(f) = IF 2 \in DOMAIN b THEN b[2].value ELSE ""
    <2>1. ServerHandShake(f) = W!Deserialize(reads, b)
      BY <1>2, <1>3 DEF ServerHandShake
    <2>2. ServerHandShake(f) = [name \in names |->
            IF number(name) \in DOMAIN b THEN b[number(name)].value
            ELSE W!Default(reads[number(name)][2])]
      BY <1>5, <1>6, <2>1 DEF W!Deserialize, number
    <2>3. ServerHandShake(f).token = IF 2 \in DOMAIN b THEN b[2].value
                                     ELSE W!Default(reads[2][2])
      BY <1>5, <2>2
    <2>4. W!Default(reads[2][2]) = ""
      BY <1>4 DEF W!Default
    <2> QED BY <2>3, <2>4 DEF getToken
  <1>8. 2 \in DOMAIN b => b[2].wire = "delimited"
    <2>1. W!WireType(reads[2][2]) = "delimited" /\ 2 \in DOMAIN reads
      BY <1>4 DEF W!WireType
    <2> QED BY <1>6, <2>1 DEF W!Readable
  <1>9. CASE f.kind \in {"handshake", "confirm"}
    <2> DEFINE shake == [serverversion |-> 1, token |-> f.from]
    <2>1. PICK go : go = W!GoServerHandShake
      OBVIOUS
    <2>2. 2 \in DOMAIN go /\ go[2][1] = "token"
      BY <2>1 DEF W!GoServerHandShake
    <2>3. 2 \in DOMAIN b => b[2].value = f.from
      <3>1. b = W!Serialize(go, shake)
        BY <1>3, <1>9, <2>1 DEF Bytes
      <3>2. shake[go[2][1]] = f.from
        BY <2>2
      <3> HIDE DEF shake
      <3> QED BY <2>2, <3>1, <3>2, Written
    <2> QED BY <1>1, <1>7, <1>9, <2>3
  <1>10. ASSUME NEW type, b = W!Serialize(W!GoSignedMsg, Relayed(f, type))
         PROVE  /\ type = 0 => 2 \notin DOMAIN b
                /\ type = 1 => 2 \in DOMAIN b /\ b[2].wire = "varint"
    <2>1. PICK go : go = W!GoSignedMsg
      OBVIOUS
    <2>2. 2 \in DOMAIN go /\ go[2][1] = "type" /\ go[2][2] = "enum"
      BY <2>1 DEF W!GoSignedMsg
    <2>3. Relayed(f, type)[go[2][1]] = type
      BY <2>2 DEF Relayed
    <2>4. W!Default(go[2][2]) = 0 /\ W!WireType(go[2][2]) = "varint"
      BY <2>2 DEF W!Default, W!WireType
    <2>5. b = W!Serialize(go, Relayed(f, type))
      BY <1>10, <2>1
    <2>6. /\ 2 \in DOMAIN b <=> Relayed(f, type)[go[2][1]] # W!Default(go[2][2])
          /\ 2 \in DOMAIN b => b[2].wire = W!WireType(go[2][2])
      BY <2>2, <2>5, Written
    <2> QED BY <2>3, <2>4, <2>6
  <1>11. CASE f.kind = "message"
    <2>1. b = W!Serialize(W!GoSignedMsg, Relayed(f, 0))
      BY <1>3, <1>11 DEF Bytes, W!SignedMsgType
    <2> QED BY <1>7, <1>10, <1>11, <2>1
  <1>12. CASE f.kind = "receipt"
    <2>1. b = W!Serialize(W!GoSignedMsg, Relayed(f, 1))
      BY <1>3, <1>12 DEF Bytes, W!SignedMsgType
    <2> QED BY <1>8, <1>10, <2>1
  <1>13. CASE f.kind = "text"
    <2>1. 2 \in DOMAIN b /\ b[2].wire = "none"
      BY <1>3, <1>13 DEF Bytes, W!Text
    <2> QED BY <1>8, <2>1
  <1> QED BY <1>1, <1>9, <1>11, <1>12, <1>13 DEF Kinds

-----------------------------------------------------------------------------
(* The inductive invariant.                                                *)

\* The frames that have been sent on s and are not yet a message event, those
\* in the queue, and those the running attempt has taken.
OnWire(s) == {arriving[s][i] : i \in 1..Len(arriving[s])}
Queued == DOMAIN queue.nodes
Taken == {took[i] : i \in 1..Len(took)}
Received == reading \cup Queued \cup Taken

\* The queue is a list.
QueueOK == Linked(queue)

TokensSigned == signed \in [Sockets -> Sockets \cup {Null, ""}]

Types ==
    /\ state \in {"registed", "connecting", "ready"}
    /\ websocket \in Sockets \cup {Null}
    /\ at \in {"none", "open", "handshake", "sign", "confirm", "done", "failed"}
    /\ waiter \in {"none", "connect", "loop"}
    /\ reading \subseteq Frames
    /\ onclose \subseteq Sockets
    /\ calls \in 0..MaxCalls
    /\ sock \in [Sockets -> {"unused", "connecting", "open", "closing", "lost", "closed"}]
    /\ arriving \in [Sockets -> Seq(Frames)]
    /\ server \in [Sockets -> {"none", "hello", "signin", "serving", "rejected", "gone"}]
    /\ TokensSigned
    /\ posted \in 0..MaxPosts
    /\ took \in Seq(Frames)
    /\ last \in Frames \cup {Null}
    /\ missed \subseteq Sockets

\* Where connect is, and who waits.
Control ==
    /\ state = "registed" <=> at = "none"
    /\ state = "ready" <=> at = "done"
    /\ calls = 0 <=> at = "none"
    /\ at = "none" => websocket = Null /\ onclose = {}
    /\ at # "none" => websocket \in Sockets
    /\ Listens

\* What connect has received.
Held ==
    /\ at \in {"none", "open", "handshake"} => took = << >>
    /\ at \in {"sign", "confirm"} => Len(took) = 1
    /\ at = "done" => Len(took) = 2 /\ ServerHandShake(took[2]) # Null
    /\ at = "sign" => ServerHandShake(took[1]) # Null
    /\ Len(took) >= 1 /\ took[1].from = websocket => took[1].kind = "handshake"
    /\ \A i, j \in 1..Len(took) : took[i] = took[j] => i = j

\* A socket and the server's session at its other end.  All sockets but the last
\* have been closed, or are about to be.
SocketOK(s) ==
    /\ s # websocket => sock[s] \in {"unused", "closing", "closed"}
    /\ s = websocket => sock[s] \notin {"unused", "closing"}
    /\ sock[s] \in {"unused", "connecting"} =>
          server[s] = "none" /\ signed[s] = Null /\ arriving[s] = << >>
    /\ sock[s] = "connecting" => at = "open"
    /\ sock[s] = "open" => server[s] \in {"hello", "signin", "serving"}
    /\ sock[s] \in {"lost", "closing", "closed"} => server[s] \in {"gone", "rejected"}
    /\ sock[s] \in {"closing", "closed"} => arriving[s] = << >>
    /\ s = websocket /\ at \in {"open", "handshake", "sign"} => signed[s] = Null
    /\ server[s] = "serving" => signed[s] = s
SocketsOK == \A s \in Sockets : SocketOK(s)

\* The sockets whose onclose is set.
Watched ==
    /\ \A s \in onclose : sock[s] # "unused" /\ (s = websocket => state = "ready")
    /\ calls <= 1 => \A s \in onclose : sock[s] = "closed" \/ s = websocket

\* What it means that f is about: the server has come as far as sending it.
Sent(f) ==
    /\ f.kind \in {"handshake", "confirm", "text"} => f.n = 0
    /\ server[f.from] \notin {"none", "hello"}
    /\ f.kind = "text" => server[f.from] \in {"rejected", "gone"}
    /\ f.kind # "handshake" => signed[f.from] # Null
    /\ f.kind \in {"confirm", "message", "receipt"} =>
          server[f.from] \in {"serving", "gone"} /\ signed[f.from] = f.from
    /\ f.kind \in {"message", "receipt"} => f.n <= posted
AllSent ==
    /\ \A s \in Sockets : \A f \in OnWire(s) : Sent(f)
    /\ \A f \in Received : Sent(f)

\* A frame is in one place.
Apart ==
    /\ reading \cap Queued = {}
    /\ Taken \cap (reading \cup Queued) = {}
    /\ \A s \in Sockets :
          /\ \A f \in OnWire(s) : f.from = s /\ f \notin Received
          /\ \A i, j \in 1..Len(arriving[s]) : arriving[s][i] = arriving[s][j] => i = j

Posts == {"message", "receipt"}

\* The confirmation is sent before the messages, and arrives before them.
InOrder ==
    \A s \in Sockets :
        /\ \A i, j \in 1..Len(arriving[s]) :
              arriving[s][i].kind = "confirm" /\ arriving[s][j].kind \in Posts => i < j
        /\ \A f \in reading :
              f.from = s /\ f.kind \in Posts => \A g \in OnWire(s) : g.kind # "confirm"

\* The confirmation of a connection that is in use, or has been, is on its way
\* while connect waits for it.
Confirmed ==
    LET confirm == Frame("confirm", websocket)
    IN  /\ at = "confirm"
        /\ \/ server[websocket] = "serving"
           \/ \E f \in reading \cup OnWire(websocket) : f.from = websocket /\ f.kind \in Posts
        => confirm \in reading \cup OnWire(websocket)

\* An attempt whose socket has closed unnoticed has nothing left to receive.
Alive ==
    /\ state = "ready" => websocket \in onclose
    /\ state = "connecting" /\ sock[websocket] = "closed" /\ websocket \notin missed =>
          reading = {} /\ Queued = {}
    /\ ReadyIsAlive

Inv ==
    /\ Types /\ QueueOK /\ Control /\ Held
    /\ SocketsOK /\ Watched
    /\ AllSent /\ Apart /\ InOrder /\ Confirmed /\ Alive

-----------------------------------------------------------------------------
(* The invariant holds initially.                                          *)

\* The frames about are frames.
LEMMA FramesAbout ==
  ASSUME Types, QueueOK
  PROVE  /\ Received \subseteq Frames /\ Queued \subseteq Frames /\ Taken \subseteq Frames
         /\ \A s \in Sockets : OnWire(s) \subseteq Frames
         /\ \A f \in Frames : f.kind \in Kinds /\ f.from \in Sockets /\ f.n \in 0..MaxPosts
  <1>1. Queued \subseteq Frames
    BY LinkedIs DEF QueueOK, Queued
  <1>2. Taken \subseteq Frames
    <2>1. took \in Seq(Frames)
      BY DEF Types
    <2> QED BY <2>1 DEF Taken
  <1>3. \A s \in Sockets : OnWire(s) \subseteq Frames
    <2> TAKE s \in Sockets
    <2>1. arriving[s] \in Seq(Frames)
      BY DEF Types
    <2> QED BY <2>1 DEF OnWire
  <1>4. reading \subseteq Frames
    BY DEF Types
  <1>5. Received \subseteq Frames
    BY <1>1, <1>2, <1>4 DEF Received
  <1> QED BY <1>1, <1>2, <1>3, <1>5 DEF Frames

\* Before the first call nothing is about and nobody waits.
LEMMA Initially == Init => Inv
  <1> SUFFICES ASSUME Init PROVE Inv
    OBVIOUS
  <1>1. Types
    <2>1. 0 \in 0..MaxCalls /\ 0 \in 0..MaxPosts
      BY BoundsAssumption
    <2> QED BY <2>1 DEF Init, Types, TokensSigned
  <1>2. QueueOK /\ queue.header = Null
    <2>1. << >> \in Seq(Frames)
      OBVIOUS
    <2>2. Linked(EmptyQueue)
      BY <2>1, EmptyLists, ListsIsLinked
    <2> QED BY <2>2 DEF Init, QueueOK, EmptyQueue
  <1>3. Control
    BY <1>2 DEF Init, Control, Listens
  <1>4. Held
    BY DEF Init, Held
  <1>5. SocketsOK
    BY SocketsAssumption DEF Init, SocketsOK, SocketOK
  <1>6. Watched
    BY DEF Init, Watched
  <1>7. Received = {} /\ reading = {} /\ Queued = {} /\ Taken = {}
        /\ \A s \in Sockets : OnWire(s) = {} /\ Len(arriving[s]) = 0
    <2>1. Queued = {}
      BY <1>2, LinkedIs DEF QueueOK, Queued
    <2> QED BY <2>1 DEF Init, Received, Taken, OnWire
  <1>8. AllSent /\ Apart /\ InOrder
    BY <1>7 DEF AllSent, Apart, InOrder
  <1>9. Confirmed /\ Alive
    BY DEF Init, Confirmed, Alive, ReadyIsAlive
  <1> QED BY <1>1, <1>2, <1>3, <1>4, <1>5, <1>6, <1>8, <1>9 DEF Inv

-----------------------------------------------------------------------------
(* The network's and the server's steps.                                   *)

\* The elements of a sequence without its first.
LEMMA TailElements ==
  ASSUME NEW S, NEW s \in Seq(S), s # << >>
  PROVE  /\ Tail(s) \in Seq(S)
         /\ Len(Tail(s)) = Len(s) - 1
         /\ \A i \in 1..Len(Tail(s)) : Tail(s)[i] = s[i + 1] /\ i + 1 \in 1..Len(s)
         /\ Head(s) = s[1]
         /\ 1 \in 1..Len(s)
         /\ s[1] \in S
  BY EmptySeq

\* A message event moves a frame from the socket to reading.
LEMMA MessageEventKeeps ==
  ASSUME Inv, NEW s \in Sockets, MessageEvent(s)
  PROVE  Inv'
  <1> USE DEF Inv
  <1>1. PICK q \in Seq(Frames) : q = arriving[s]
    BY DEF Types
  <1>2. PICK h \in Frames : h = Head(q) /\ h = q[1]
    BY <1>1, TailElements DEF MessageEvent
  <1>3. PICK t \in Seq(Frames) : t = Tail(q)
    BY <1>1, TailElements DEF MessageEvent
  <1>4. /\ \A i \in 1..Len(t) : t[i] = q[i + 1] /\ i + 1 \in 1..Len(q)
        /\ 1 \in 1..Len(q)
        /\ Len(t) \in Nat
    BY <1>1, <1>3, TailElements DEF MessageEvent
  <1>5. reading' = reading \cup {h} /\ arriving' = [arriving EXCEPT ![s] = t]
    BY <1>1, <1>2, <1>3 DEF MessageEvent
  <1>6. arriving'[s] = t /\ \A r \in Sockets : r # s => arriving'[r] = arriving[r]
    BY <1>5 DEF Types
  <1>7. UNCHANGED <<state, websocket, at, waiter, queue, took, last>>
        /\ UNCHANGED <<onclose, calls, missed, sock, server, signed, posted>>
    BY DEF MessageEvent, client
  <1>8. Queued' = Queued /\ Taken' = Taken
    BY <1>7 DEF Queued, Taken
  <1>9. \A r \in Sockets : r # s => OnWire(r)' = OnWire(r)
    BY <1>6 DEF OnWire
  <1>10. OnWire(s) = OnWire(s)' \cup {h} /\ h \notin OnWire(s)'
    <2>1. h \in OnWire(s)
      BY <1>1, <1>2, <1>4 DEF OnWire
    <2>2. OnWire(s)' \subseteq OnWire(s)
      BY <1>1, <1>4, <1>6 DEF OnWire
    <2>3. \A i \in 1..Len(t) : t[i] # h
      BY <1>1, <1>2, <1>4 DEF Apart
    <2>4. OnWire(s) \subseteq OnWire(s)' \cup {h}
      <3> SUFFICES ASSUME NEW i \in 1..Len(q), i # 1 PROVE q[i] \in OnWire(s)'
        BY <1>1, <1>2 DEF OnWire
      <3>1. i - 1 \in 1..Len(t) /\ t[i - 1] = q[i]
        <4>1. i - 1 \in 1..Len(t) /\ (i - 1) + 1 = i
          BY <1>1, <1>3, TailElements DEF MessageEvent
        <4> QED BY <1>4, <4>1
      <3> QED BY <1>6, <3>1 DEF OnWire
    <2> QED BY <1>6, <2>1, <2>2, <2>3, <2>4 DEF OnWire
  <1>11. Types'
    BY <1>5, <1>7 DEF Types, TokensSigned
  <1>12. QueueOK'
    BY <1>7 DEF QueueOK
  <1>13. Control' /\ Held' /\ Watched'
    BY <1>7 DEF Control, Listens, Held, Watched
  <1>14. SocketsOK'
    BY <1>6, <1>7 DEF SocketsOK, SocketOK, MessageEvent
  <1>15. AllSent'
    <2>1. \A r \in Sockets : \A f \in OnWire(r)' : Sent(f)
      BY <1>9, <1>10 DEF AllSent
    <2>2. \A f \in Received' : Sent(f)
      BY <1>5, <1>8, <1>10 DEF AllSent, Received
    <2> QED BY <1>7, <2>1, <2>2 DEF AllSent, Sent
  <1>16. Apart'
    <2>1. h \notin reading \cup Queued \cup Taken /\ h.from = s
      BY <1>10 DEF Apart, Received
    <2>2. \A r \in Sockets : \A f \in OnWire(r)' : f.from = r /\ f \notin Received'
      BY <1>5, <1>8, <1>9, <1>10, <2>1 DEF Apart, Received
    <2>3. \A i, j \in 1..Len(t) : t[i] = t[j] => i = j
      <3> TAKE i, j \in 1..Len(t)
      <3>1. q[i + 1] = q[j + 1] => i + 1 = j + 1
        BY <1>1, <1>4 DEF Apart
      <3> QED BY <1>4, <3>1
    <2>4. \A r \in Sockets :
             \A i, j \in 1..Len(arriving'[r]) : arriving'[r][i] = arriving'[r][j] => i = j
      BY <1>6, <2>3 DEF Apart
    <2> QED BY <1>5, <1>8, <2>1, <2>2, <2>4 DEF Apart
  <1>17. InOrder'
    <2>1. \A i, j \in 1..Len(t) : t[i].kind = "confirm" /\ t[j].kind \in Posts => i < j
      <3> TAKE i, j \in 1..Len(t)
      <3>1. q[i + 1].kind = "confirm" /\ q[j + 1].kind \in Posts => i + 1 < j + 1
        BY <1>1, <1>4 DEF InOrder
      <3> QED BY <1>4, <3>1
    <2>2. ASSUME NEW r \in Sockets, NEW f \in reading', f.from = r, f.kind \in Posts,
                 NEW g \in OnWire(r)'
          PROVE  g.kind # "confirm"
      <3>1. g \in OnWire(r)
        BY <1>9, <1>10
      <3>2. CASE f \in reading
        BY <2>2, <3>1, <3>2 DEF InOrder
      <3>3. CASE f = h
        <4>1. r = s
          BY <1>10, <2>2, <3>3 DEF Apart
        <4>2. PICK i \in 1..Len(t) : g = t[i]
          BY <1>6, <4>1 DEF OnWire
        <4>3. ~(i + 1 < 1)
          OBVIOUS
        <4> QED BY <1>1, <1>2, <1>4, <2>2, <3>3, <4>2, <4>3 DEF InOrder
      <3> QED BY <1>5, <3>2, <3>3
    <2> QED BY <1>6, <2>1, <2>2 DEF InOrder
  <1>18. Confirmed'
    <2>1. ASSUME at = "confirm" PROVE Confirmed'
      <3>1. PICK w \in Sockets : w = websocket /\ w = websocket'
        BY <1>7, <2>1 DEF Control
      <3>2. \A g : g.from = w =>
               (g \in reading' \cup OnWire(w)' <=> g \in reading \cup OnWire(w))
        BY <1>5, <1>9, <1>10 DEF Apart
      <3>3. Frame("confirm", w).from = w /\ Frame("confirm", w)' = Frame("confirm", w)
        BY DEF Frame
      <3>4. OnWire(w)' = OnWire(websocket)' /\ OnWire(w) = OnWire(websocket)
        BY <3>1 DEF OnWire
      <3>5. (\/ server[w] = "serving"
             \/ \E g \in reading \cup OnWire(w) : g.from = w /\ g.kind \in Posts)
            => Frame("confirm", w) \in reading \cup OnWire(w)
        BY <2>1, <3>1 DEF Confirmed
      <3>6. (\/ server[w] = "serving"
             \/ \E g \in reading' \cup OnWire(w)' : g.from = w /\ g.kind \in Posts)
            => Frame("confirm", w) \in reading' \cup OnWire(w)'
        BY <3>2, <3>3, <3>5
      <3> QED BY <1>7, <3>1, <3>3, <3>4, <3>6 DEF Confirmed, Frame
    <2> QED BY <1>7, <2>1 DEF Confirmed
  <1>19. Alive'
    <2>1. sock[s] # "closed" /\ (sock[websocket] = "closed" /\ state = "connecting" => FALSE)
      BY DEF MessageEvent, SocketsOK, SocketOK, Control
    <2> QED BY <1>5, <1>7, <1>8, <2>1 DEF Alive, ReadyIsAlive
  <1> QED BY <1>11, <1>12, <1>13, <1>14, <1>15, <1>16, <1>17, <1>18, <1>19

\* A frame that is sent is the last on its socket.
LEMMA SendKeeps ==
  ASSUME Inv, NEW s \in Sockets, NEW f \in Frames, f.from = s,
         Send(s, f), UNCHANGED <<client, browser, signed>>, Types', SocketsOK',
         f \notin Received \cup OnWire(s),
         \A g \in Frames : Sent(g) => Sent(g)',
         Sent(f)',
         f.kind = "confirm" =>
            /\ f = Frame("confirm", s)
            /\ \A g \in Frames : g.from = s /\ Sent(g) => g.kind \notin Posts,
         \A r \in Sockets : r # s => server'[r] = server[r],
         server'[s] = "serving" => f.kind = "confirm" \/ server[s] = "serving",
         f.kind \in Posts => server[s] = "serving",
         \A r \in Sockets : /\ sock'[r] = "closed" <=> sock[r] = "closed"
                            /\ sock'[r] = "unused" <=> sock[r] = "unused"
  PROVE  Inv'
  <1> USE DEF Inv
  <1>1. PICK q \in Seq(Frames) : q = arriving[s]
    BY DEF Types
  <1>2. PICK t \in Seq(Frames) : t = Append(q, f)
    BY AppendProperties
  <1>3. /\ Len(t) = Len(q) + 1 /\ t[Len(t)] = f /\ Len(q) \in Nat
        /\ \A i \in 1..Len(q) : t[i] = q[i]
        /\ \A i \in 1..Len(t) : i = Len(t) \/ i \in 1..Len(q)
    BY <1>2
  <1>4. arriving'[s] = t /\ \A r \in Sockets : r # s => arriving'[r] = arriving[r]
    BY <1>1, <1>2 DEF Send, Types
  <1>5. UNCHANGED <<state, websocket, at, waiter, queue, took, last>>
        /\ UNCHANGED <<reading, onclose, calls, missed, signed>>
    BY DEF client, browser
  <1>6. Received' = Received /\ Queued' = Queued /\ Taken' = Taken
    BY <1>5 DEF Received, Queued, Taken
  <1>7. OnWire(s)' = OnWire(s) \cup {f} /\ \A r \in Sockets : r # s => OnWire(r)' = OnWire(r)
    <2>1. OnWire(s)' = {t[i] : i \in 1..Len(t)} /\ OnWire(s) = {q[i] : i \in 1..Len(q)}
      BY <1>1, <1>4 DEF OnWire
    <2>2. Len(t) \in 1..Len(t) /\ \A i \in 1..Len(q) : i \in 1..Len(t)
      BY <1>3
    <2>3. OnWire(s)' = OnWire(s) \cup {f}
      BY <1>3, <2>1, <2>2
    <2>4. \A r \in Sockets : r # s => OnWire(r)' = OnWire(r)
      BY <1>4 DEF OnWire
    <2> QED BY <2>3, <2>4
  <1>8. QueueOK' /\ Control' /\ Held'
    BY <1>5 DEF QueueOK, Control, Listens, Held
  <1>9. Watched'
    BY <1>5 DEF Watched, Types
  <1>10. Received \subseteq Frames /\ \A r \in Sockets : OnWire(r) \subseteq Frames
    BY FramesAbout
  <1>11. AllSent'
    <2>1. \A r \in Sockets : \A g \in OnWire(r)' : Sent(g)'
      BY <1>7, <1>10 DEF AllSent
    <2>2. \A g \in Received' : Sent(g)'
      BY <1>6, <1>10 DEF AllSent
    <2> QED BY <2>1, <2>2 DEF AllSent
  <1>12. Apart'
    <2>1. \A r \in Sockets : \A g \in OnWire(r)' : g.from = r /\ g \notin Received'
      BY <1>6, <1>7 DEF Apart
    <2>2. \A i, j \in 1..Len(t) : t[i] = t[j] => i = j
      <3>1. \A i \in 1..Len(q) : t[i] \in OnWire(s) /\ t[i] # f
        BY <1>1, <1>3 DEF OnWire
      <3>2. \A i, j \in 1..Len(q) : q[i] = q[j] => i = j
        BY <1>1 DEF Apart
      <3> QED BY <1>3, <3>1, <3>2
    <2>3. \A r \in Sockets :
             \A i, j \in 1..Len(arriving'[r]) : arriving'[r][i] = arriving'[r][j] => i = j
      BY <1>4, <2>2 DEF Apart
    <2> QED BY <1>5, <1>6, <2>1, <2>3 DEF Apart
  <1>13. InOrder'
    <2>1. ASSUME f.kind = "confirm", NEW g \in reading \cup OnWire(s), g.from = s
          PROVE  g.kind \notin Posts
      <3>1. Sent(g) /\ g \in Frames
        BY <1>10 DEF AllSent, Received
      <3> QED BY <2>1, <3>1
    <2>2. \A i, j \in 1..Len(t) : t[i].kind = "confirm" /\ t[j].kind \in Posts => i < j
      <3> SUFFICES ASSUME NEW i \in 1..Len(t), NEW j \in 1..Len(t),
                          t[i].kind = "confirm", t[j].kind \in Posts
                   PROVE  i < j
        OBVIOUS
      <3>1. CASE i \in 1..Len(q) /\ j \in 1..Len(q)
        <4>1. q[i].kind = "confirm" /\ q[j].kind \in Posts
          BY <1>3, <3>1
        <4> QED BY <1>1, <3>1, <4>1 DEF InOrder
      <3>2. CASE i \in 1..Len(q) /\ j = Len(t)
        BY <1>3, <3>2
      <3>3. CASE i = Len(t)
        <4>1. f.kind = "confirm"
          BY <1>3, <3>3
        <4>2. j \in 1..Len(q)
          BY <1>3, <4>1 DEF Posts
        <4>3. q[j] \in OnWire(s) /\ q[j].from = s /\ q[j].kind \in Posts
          BY <1>1, <1>3, <4>2 DEF OnWire, Apart
        <4> QED BY <2>1, <4>1, <4>3
      <3> QED BY <1>3, <3>1, <3>2, <3>3
    <2>3. ASSUME NEW r \in Sockets, NEW g \in reading, g.from = r, g.kind \in Posts,
                 NEW k \in OnWire(r)'
          PROVE  k.kind # "confirm"
      <3>1. CASE k \in OnWire(r)
        BY <2>3, <3>1 DEF InOrder
      <3>2. CASE r = s /\ k = f
        BY <2>1, <2>3, <3>2
      <3> QED BY <1>7, <3>1, <3>2
    <2>4. \A r \in Sockets : \A i, j \in 1..Len(arriving'[r]) :
             arriving'[r][i].kind = "confirm" /\ arriving'[r][j].kind \in Posts => i < j
      BY <1>4, <2>2 DEF InOrder
    <2> QED BY <1>5, <2>3, <2>4 DEF InOrder
  <1>14. Confirmed'
    <2> SUFFICES ASSUME at = "confirm" PROVE Confirmed'
      BY <1>5 DEF Confirmed
    <2>1. PICK w \in Sockets : w = websocket /\ w = websocket'
      BY <1>5 DEF Control
    <2>2. OnWire(w) \subseteq OnWire(w)'
      BY <1>7
    <2>3. (\/ server[w] = "serving"
           \/ \E g \in reading \cup OnWire(w) : g.from = w /\ g.kind \in Posts)
          => Frame("confirm", w) \in reading \cup OnWire(w)
      BY <2>1 DEF Confirmed
    <2>4. (\/ server'[w] = "serving"
           \/ \E g \in reading \cup OnWire(w)' : g.from = w /\ g.kind \in Posts)
          => Frame("confirm", w) \in reading \cup OnWire(w)'
      <3>1. CASE w # s
        BY <1>7, <2>3, <3>1
      <3>2. CASE w = s /\ f.kind = "confirm"
        BY <1>7, <3>2
      <3>3. CASE w = s /\ f.kind # "confirm"
        BY <1>7, <2>3, <3>3
      <3> QED BY <3>1, <3>2, <3>3
    <2>5. Frame("confirm", w)' = Frame("confirm", w)
      BY DEF Frame
    <2>6. OnWire(w)' = OnWire(websocket)'
      BY <2>1 DEF OnWire
    <2> QED BY <1>5, <2>1, <2>4, <2>5, <2>6 DEF Confirmed, Frame
  <1>15. Alive'
    <2>1. state # "registed" => websocket \in Sockets
      BY DEF Control
    <2>2. state = "registed" => state # "ready" /\ state # "connecting"
      OBVIOUS
    <2> QED BY <1>5, <1>6, <2>1, <2>2 DEF Alive, ReadyIsAlive
  <1> QED BY <1>8, <1>9, <1>11, <1>12, <1>13, <1>14, <1>15

\* What is sent is a frame, and Types and the sent frames are as before.
LEMMA SendIsTyped ==
  ASSUME Types, NEW s \in Sockets, NEW f \in Frames, Send(s, f)
  PROVE  arriving' \in [Sockets -> Seq(Frames)]
         /\ \A r \in Sockets : r # s => arriving'[r] = arriving[r]
  <1>1. arriving[s] \in Seq(Frames)
    BY DEF Types
  <1>2. Append(arriving[s], f) \in Seq(Frames)
    BY <1>1, AppendProperties
  <1> QED BY <1>2 DEF Send, Types

\* A frame that is not a post is told by its kind and its socket.
LEMMA FrameIs ==
  ASSUME NEW k \in Kinds, NEW s \in Sockets
  PROVE  /\ Frame(k, s) \in Frames
         /\ Frame(k, s).kind = k /\ Frame(k, s).from = s /\ Frame(k, s).n = 0
         /\ \A f \in Frames : f.kind = k /\ f.from = s /\ f.n = 0 => f = Frame(k, s)
  <1>1. 0 \in 0..MaxPosts
    BY BoundsAssumption
  <1> QED BY <1>1 DEF Frame, Frames

\* The server sends its handshake.
LEMMA ServerHandshakeKeeps ==
  ASSUME Inv, NEW s \in Sockets, ServerHandshake(s)
  PROVE  Inv'
  <1> USE DEF Inv
  <1>1. PICK f \in Frames :
           f = Frame("handshake", s) /\ f.kind = "handshake" /\ f.from = s /\ f.n = 0
    BY FrameIs DEF Kinds
  <1>2. Send(s, f) /\ UNCHANGED <<client, browser, sock, signed, posted>>
        /\ server[s] = "hello" /\ server' = [server EXCEPT ![s] = "signin"]
    BY <1>1 DEF ServerHandshake
  <1>3. server'[s] = "signin" /\ \A r \in Sockets : r # s => server'[r] = server[r]
    BY <1>2 DEF Types
  <1>4. Types'
    <2>1. arriving' \in [Sockets -> Seq(Frames)]
      BY <1>2, SendIsTyped
    <2> QED BY <1>2, <2>1 DEF Types, TokensSigned, client, browser
  <1>5. SocketsOK'
    <2>1. \A r \in Sockets : r # s => arriving'[r] = arriving[r]
      BY <1>2, SendIsTyped
    <2> QED BY <1>2, <1>3, <2>1 DEF SocketsOK, SocketOK, client
  <1>6. \A g \in Frames : g.from \in Sockets /\ (g.from = s => ~Sent(g))
    BY <1>2 DEF Frames, Sent
  <1>7. f \notin Received \cup OnWire(s)
    BY <1>1, <1>6 DEF AllSent
  <1>8. \A g \in Frames : Sent(g) => Sent(g)'
    BY <1>2, <1>3, <1>6 DEF Sent
  <1>9. Sent(f)'
    BY <1>1, <1>3 DEF Sent
  <1> QED BY <1>1, <1>2, <1>3, <1>4, <1>5, <1>7, <1>8, <1>9, SendKeeps DEF Posts

\* The server confirms the token it has chosen for this socket.
LEMMA ServerConfirmKeeps ==
  ASSUME Inv, NEW s \in Sockets, ServerConfirm(s)
  PROVE  Inv'
  <1> USE DEF Inv
  <1>1. PICK f \in Frames : f = Frame("confirm", s) /\ f.kind = "confirm" /\ f.from = s /\ f.n = 0
    BY FrameIs DEF Kinds
  <1>2. Send(s, f) /\ UNCHANGED <<client, browser, sock, signed, posted>>
        /\ server[s] = "signin" /\ server' = [server EXCEPT ![s] = "serving"] /\ signed[s] = s
    BY <1>1 DEF ServerConfirm
  <1>3. server'[s] = "serving" /\ \A r \in Sockets : r # s => server'[r] = server[r]
    BY <1>2 DEF Types
  <1>4. Types'
    <2>1. arriving' \in [Sockets -> Seq(Frames)]
      BY <1>2, SendIsTyped
    <2> QED BY <1>2, <2>1 DEF Types, TokensSigned, client, browser
  <1>5. SocketsOK'
    <2>1. \A r \in Sockets : r # s => arriving'[r] = arriving[r]
      BY <1>2, SendIsTyped
    <2> QED BY <1>2, <1>3, <2>1 DEF SocketsOK, SocketOK, client
  <1>6. \A g \in Frames : g.from \in Sockets /\ (g.from = s /\ Sent(g) => g.kind = "handshake")
    BY <1>2 DEF Frames, Sent, Kinds
  <1>7. f \notin Received \cup OnWire(s)
    BY <1>1, <1>6 DEF AllSent
  <1>8. \A g \in Frames : Sent(g) => Sent(g)'
    BY <1>2, <1>3, <1>6 DEF Sent
  <1>9. Sent(f)'
    BY <1>1, <1>2, <1>3, SocketsAssumption DEF Sent
  <1> QED BY <1>1, <1>2, <1>3, <1>4, <1>5, <1>6, <1>7, <1>8, <1>9, SendKeeps DEF Posts

\* The server answers any other token with a text and hangs up.
LEMMA ServerRejectKeeps ==
  ASSUME Inv, NEW s \in Sockets, ServerReject(s)
  PROVE  Inv'
  <1> USE DEF Inv
  <1>1. PICK f \in Frames : f = Frame("text", s) /\ f.kind = "text" /\ f.from = s /\ f.n = 0
    BY FrameIs DEF Kinds
  <1>2. Send(s, f) /\ UNCHANGED <<client, browser, signed, posted>>
        /\ server[s] = "signin" /\ server' = [server EXCEPT ![s] = "rejected"] /\ signed[s] # Null
        /\ sock' = [sock EXCEPT ![s] = "lost"]
    BY <1>1 DEF ServerReject
  <1>3. server'[s] = "rejected" /\ \A r \in Sockets : r # s => server'[r] = server[r]
    BY <1>2 DEF Types
  <1>4. sock'[s] = "lost" /\ \A r \in Sockets : r # s => sock'[r] = sock[r]
    BY <1>2 DEF Types
  <1>5. sock[s] = "open" /\ s = websocket
    BY <1>2 DEF SocketsOK, SocketOK, Types
  <1>6. Types'
    <2>1. arriving' \in [Sockets -> Seq(Frames)]
      BY <1>2, SendIsTyped
    <2> QED BY <1>2, <2>1 DEF Types, TokensSigned, client, browser
  <1>7. SocketsOK'
    <2>1. \A r \in Sockets : r # s => arriving'[r] = arriving[r]
      BY <1>2, SendIsTyped
    <2> QED BY <1>2, <1>3, <1>4, <1>5, <2>1 DEF SocketsOK, SocketOK, client
  <1>8. \A g \in Frames : g.from \in Sockets /\ (g.from = s /\ Sent(g) => g.kind = "handshake")
    BY <1>2 DEF Frames, Sent, Kinds
  <1>9. f \notin Received \cup OnWire(s)
    BY <1>1, <1>8 DEF AllSent
  <1>10. \A g \in Frames : Sent(g) => Sent(g)'
    BY <1>2, <1>3, <1>8 DEF Sent
  <1>11. Sent(f)'
    BY <1>1, <1>2, <1>3 DEF Sent
  <1> QED BY <1>1, <1>2, <1>3, <1>4, <1>5, <1>6, <1>7, <1>9, <1>10, <1>11, SendKeeps DEF Posts

\* The server sends a message or a receipt.
LEMMA ServerPostKeeps ==
  ASSUME Inv, NEW s \in Sockets, NEW k \in {"message", "receipt"}, ServerPost(s, k)
  PROVE  Inv'
  <1> USE DEF Inv
  <1>1. posted \in Nat /\ posted' = posted + 1 /\ posted + 1 \in 0..MaxPosts
    <2>1. posted \in 0..MaxPosts /\ MaxPosts \in Nat
      BY BoundsAssumption DEF Types
    <2>2. posted < MaxPosts /\ posted' = posted + 1
      BY DEF ServerPost
    <2> QED BY <2>1, <2>2
  <1>2. PICK f \in Frames : f = [kind |-> k, from |-> s, n |-> posted + 1]
    BY <1>1 DEF Frames, Kinds
  <1>3. f.kind = k /\ f.from = s /\ f.n = posted + 1
    BY <1>2
  <1>4. Send(s, f) /\ UNCHANGED <<client, browser, sock, server, signed>> /\ server[s] = "serving"
    BY <1>2 DEF ServerPost
  <1>5. Types'
    <2>1. arriving' \in [Sockets -> Seq(Frames)]
      BY <1>4, SendIsTyped
    <2> QED BY <1>1, <1>4, <2>1 DEF Types, TokensSigned, client, browser
  <1>6. SocketsOK'
    <2>1. \A r \in Sockets : r # s => arriving'[r] = arriving[r]
      BY <1>4, SendIsTyped
    <2> QED BY <1>4, <2>1 DEF SocketsOK, SocketOK, client
  <1>7. f \notin Received \cup OnWire(s)
    <2>1. ~Sent(f)
      BY <1>1, <1>3 DEF Sent
    <2> QED BY <2>1 DEF AllSent
  <1>8. \A g \in Frames : Sent(g) => Sent(g)'
    BY <1>1, <1>4 DEF Sent, Frames
  <1>9. Sent(f)'
    <2>1. signed[s] = s
      BY <1>4 DEF SocketsOK, SocketOK
    <2>2. signed'[s] = s /\ server'[s] = "serving" /\ f.n <= posted'
      BY <1>1, <1>3, <1>4, <2>1
    <2>3. f.kind \in {"message", "receipt"} /\ s # Null
      BY <1>3, SocketsAssumption
    <2> QED BY <1>3, <2>2, <2>3 DEF Sent
  <1> QED BY <1>3, <1>4, <1>5, <1>6, <1>7, <1>8, <1>9, SendKeeps DEF Posts

\* A connection that breaks loses the frames that were sent last.
LEMMA LoseKeeps ==
  ASSUME Inv, NEW s \in Sockets, Lose(s)
  PROVE  Inv'
  <1> USE DEF Inv
  <1>1. PICK q \in Seq(Frames) : q = arriving[s]
    BY DEF Types
  <1>2. PICK n \in 0..Len(q) : arriving' = [arriving EXCEPT ![s] = SubSeq(q, 1, n)]
    BY <1>1 DEF Lose
  <1>3. PICK t : t = SubSeq(q, 1, n)
    OBVIOUS
  <1>4. /\ t \in Seq(Frames) /\ Len(t) = n
        /\ \A i \in 1..n : t[i] = q[i] /\ i \in 1..Len(q)
    <2>1. \A i \in 1..n : q[i] \in Frames
      OBVIOUS
    <2> QED BY <1>3, <2>1, SubSeqProperties
  <1>5. arriving'[s] = t /\ \A r \in Sockets : r # s => arriving'[r] = arriving[r]
    BY <1>2, <1>3 DEF Types
  <1>6. UNCHANGED <<state, websocket, at, waiter, queue, took, last>>
        /\ UNCHANGED <<reading, onclose, calls, missed, signed, posted>>
    BY DEF Lose, client, browser
  <1>7. Received' = Received /\ Queued' = Queued /\ Taken' = Taken
    BY <1>6 DEF Received, Queued, Taken
  <1>8. OnWire(s)' \subseteq OnWire(s) /\ \A r \in Sockets : r # s => OnWire(r)' = OnWire(r)
    BY <1>1, <1>4, <1>5 DEF OnWire
  <1>9. /\ sock[s] \in {"connecting", "open"}
        /\ sock'[s] = "lost" /\ server'[s] = "gone"
        /\ \A r \in Sockets : r # s => sock'[r] = sock[r] /\ server'[r] = server[r]
    BY DEF Lose, Types
  <1>10. s = websocket
    BY <1>9 DEF SocketsOK, SocketOK
  <1>11. Types'
    <2>1. arriving' \in [Sockets -> Seq(Frames)]
      BY <1>2, <1>3, <1>4 DEF Types
    <2>2. sock' = [sock EXCEPT ![s] = "lost"] /\ server' = [server EXCEPT ![s] = "gone"]
      BY DEF Lose
    <2> QED BY <1>6, <2>1, <2>2 DEF Types, TokensSigned
  <1>12. QueueOK' /\ Control' /\ Held'
    BY <1>6 DEF QueueOK, Control, Listens, Held
  <1>13. SocketsOK'
    BY <1>5, <1>6, <1>9, <1>10 DEF SocketsOK, SocketOK
  <1>14. Watched'
    BY <1>6, <1>9, <1>10 DEF Watched, Types
  <1>15. AllSent'
    <2>1. Received \subseteq Frames /\ \A r \in Sockets : OnWire(r) \subseteq Frames
      BY FramesAbout
    <2>2. \A g \in Frames : g.from \in Sockets
      BY DEF Frames
    <2>4. \A g \in Frames : Sent(g) => Sent(g)'
      BY <1>6, <1>9, <2>2 DEF Sent
    <2>5. \A r \in Sockets : \A g \in OnWire(r)' : Sent(g)'
      BY <1>8, <2>1, <2>4 DEF AllSent
    <2>6. \A g \in Received' : Sent(g)'
      BY <1>7, <2>1, <2>4 DEF AllSent
    <2> QED BY <2>5, <2>6 DEF AllSent
  <1>16. Apart'
    <2>1. \A r \in Sockets : \A g \in OnWire(r)' : g.from = r /\ g \notin Received'
      BY <1>7, <1>8 DEF Apart
    <2>2. \A i, j \in 1..Len(t) : t[i] = t[j] => i = j
      BY <1>1, <1>4 DEF Apart
    <2>3. \A r \in Sockets :
             \A i, j \in 1..Len(arriving'[r]) : arriving'[r][i] = arriving'[r][j] => i = j
      BY <1>5, <2>2 DEF Apart
    <2> QED BY <1>6, <1>7, <2>1, <2>3 DEF Apart
  <1>17. InOrder'
    <2>1. \A i, j \in 1..Len(t) : t[i].kind = "confirm" /\ t[j].kind \in Posts => i < j
      BY <1>1, <1>4 DEF InOrder
    <2>2. \A r \in Sockets : \A i, j \in 1..Len(arriving'[r]) :
             arriving'[r][i].kind = "confirm" /\ arriving'[r][j].kind \in Posts => i < j
      BY <1>5, <2>1 DEF InOrder
    <2>3. \A r \in Sockets : \A g \in reading :
             g.from = r /\ g.kind \in Posts => \A k \in OnWire(r)' : k.kind # "confirm"
      BY <1>8 DEF InOrder
    <2> QED BY <1>6, <2>2, <2>3 DEF InOrder
  <1>18. Confirmed'
    <2> SUFFICES ASSUME at = "confirm", NEW g \in reading \cup OnWire(s)',
                        g.from = s, g.kind \in Posts
                 PROVE  Frame("confirm", s) \in reading \cup OnWire(s)'
      <3>1. Frame("confirm", s)' = Frame("confirm", s) /\ OnWire(websocket)' = OnWire(s)'
        BY <1>6, <1>10 DEF Frame, OnWire
      <3> QED BY <1>6, <1>9, <1>10, <3>1 DEF Confirmed, Frame
    <2>1. Frame("confirm", s) \in reading \cup OnWire(s)
      BY <1>8, <1>10 DEF Confirmed
    <2>2. CASE g \in reading
      <3>1. \A k \in OnWire(s) : k.kind # "confirm"
        BY <2>2 DEF InOrder
      <3> QED BY <2>1, <3>1, FrameIs DEF Kinds
    <2>3. CASE g \in OnWire(s)' /\ Frame("confirm", s) \in OnWire(s)
      <3>1. PICK j \in 1..n : g = t[j]
        BY <1>4, <1>5, <2>3 DEF OnWire
      <3>2. PICK i \in 1..Len(q) : Frame("confirm", s) = q[i]
        BY <1>1, <2>3 DEF OnWire
      <3>3. q[i].kind = "confirm" /\ q[j].kind \in Posts /\ j \in 1..Len(q)
        BY <1>4, <3>1, <3>2, FrameIs DEF Kinds
      <3>4. i < j
        BY <1>1, <3>3 DEF InOrder
      <3>5. i \in 1..n /\ t[i] = q[i]
        BY <1>4, <3>4
      <3> QED BY <1>4, <1>5, <3>2, <3>5 DEF OnWire
    <2> QED BY <2>1, <2>2, <2>3
  <1>19. Alive'
    BY <1>6, <1>7, <1>9, <1>10 DEF Alive, ReadyIsAlive
  <1> QED BY <1>11, <1>12, <1>13, <1>14, <1>15, <1>16, <1>17, <1>18, <1>19

-----------------------------------------------------------------------------
(* The steps of connect and onDisconnect.                                  *)

\* A new attempt, with the sockets as they are or with one that has just closed.
LEMMA AttemptKeeps ==
  ASSUME Inv, state # "connecting",
         NEW sockets \in
           [Sockets -> {"unused", "connecting", "open", "closing", "lost", "closed"}],
         Attempt(sockets), UNCHANGED <<onclose, missed>>, calls' \in 1..MaxCalls,
         \A r \in Sockets :
            \/ sockets[r] = sock[r]
            \/ sock[r] \in {"lost", "closing"} /\ sockets[r] = "closed" /\ arriving[r] = << >>,
         calls' <= 1 => \A r \in onclose : sockets[r] = "closed"
  PROVE  Inv'
  <1> USE DEF Inv
  <1>1. PICK n \in Sockets : n = NewSocket /\ sock[n] = "unused"
    BY DEF Attempt, Unused, NewSocket
  <1>2. PICK closing \in BOOLEAN :
           closing <=> (state = "ready" /\ sockets[websocket] \in {"open", "lost"})
    OBVIOUS
  <1>3. /\ state' = "connecting" /\ websocket' = n /\ at' = "open" /\ took' = << >>
        /\ waiter' = "none"
        /\ UNCHANGED <<queue, last, reading, signed, posted>>
    BY <1>1 DEF Attempt
  <1>4. /\ sock' = [s \in Sockets |->
                      CASE s = n -> "connecting"
                        [] s = websocket /\ closing -> "closing"
                        [] OTHER -> sockets[s]]
        /\ arriving' = [s \in Sockets |->
                          IF closing /\ s = websocket THEN << >> ELSE arriving[s]]
        /\ server' = [s \in Sockets |->
                        IF closing /\ s = websocket THEN "gone" ELSE server[s]]
    BY <1>1, <1>2 DEF Attempt
  <1>6. n # websocket
    BY <1>1 DEF SocketsOK, SocketOK
  <1>7. /\ sock'[n] = "connecting"
        /\ \A r \in Sockets : r # n => sock'[r] = IF r = websocket /\ closing THEN "closing"
                                                  ELSE sockets[r]
    BY <1>4, <1>6
  <1>8. \A r \in Sockets :
           /\ arriving'[r] = IF closing /\ r = websocket THEN << >> ELSE arriving[r]
           /\ server'[r] = IF closing /\ r = websocket THEN "gone" ELSE server[r]
    BY <1>4
  <1>9. websocket \in Sockets => state = "ready"
    BY SocketsAssumption DEF Control, Types
  <1>10. ASSUME NEW r \in Sockets, r # n
         PROVE  /\ sock'[r] \in {"unused", "closing", "closed"}
                /\ sock'[r] = "unused" <=> sock[r] = "unused"
                /\ sock'[r] \in {"closing", "closed"} =>
                      arriving'[r] = << >> /\ server'[r] \in {"gone", "rejected"}
    <2>1. CASE r # websocket
      BY <1>7, <1>8, <1>10, <2>1 DEF SocketsOK, SocketOK
    <2>2. CASE r = websocket
      <3>1. sock[r] \in {"open", "lost", "closed"} /\ state = "ready"
        BY <1>9, <2>2 DEF SocketsOK, SocketOK, Types, Control
      <3>2. CASE closing
        BY <1>7, <1>8, <1>10, <2>2, <3>1, <3>2
      <3>3. CASE ~closing
        <4>1. sockets[r] = "closed"
          BY <1>2, <2>2, <3>1, <3>3
        <4> QED BY <1>7, <1>8, <1>10, <2>2, <3>1, <3>3, <4>1 DEF SocketsOK, SocketOK
      <3> QED BY <3>2, <3>3
    <2> QED BY <2>1, <2>2
  <1>11. Received' \subseteq Received /\ Queued' = Queued /\ Taken' = {} /\ reading' = reading
    BY <1>3 DEF Received, Queued, Taken
  <1>12. \A r \in Sockets : OnWire(r)' \subseteq OnWire(r)
    BY <1>8 DEF OnWire
  <1>13. Types'
    <2>0. << >> \in Seq(Frames)
      OBVIOUS
    <2>1. arriving' \in [Sockets -> Seq(Frames)]
      <3>2. \A r \in Sockets : arriving[r] \in Seq(Frames)
        BY DEF Types
      <3> QED BY <1>4, <2>0, <3>2
    <2>2. sock' \in [Sockets -> {"unused", "connecting", "open", "closing", "lost", "closed"}]
      BY <1>4
    <2>3. server' \in [Sockets -> {"none", "hello", "signin", "serving", "rejected", "gone"}]
      BY <1>4 DEF Types
    <2>4. calls' \in 0..MaxCalls
      OBVIOUS
    <2> QED BY <1>3, <2>0, <2>1, <2>2, <2>3, <2>4 DEF Types, TokensSigned
  <1>14. QueueOK'
    BY <1>3 DEF QueueOK
  <1>15. Control'
    <2>1. calls' # 0
      OBVIOUS
    <2> QED BY <1>3, <2>1 DEF Control, Listens
  <1>16. Held'
    BY <1>3 DEF Held
  <1>17. SocketsOK'
    <2>1. SocketOK(n)'
      <3>1. server'[n] = "none" /\ arriving'[n] = << >> /\ signed'[n] = Null
        BY <1>1, <1>3, <1>6, <1>8 DEF SocketsOK, SocketOK
      <3> QED BY <1>3, <1>7, <3>1 DEF SocketOK
    <2>2. ASSUME NEW r \in Sockets, r # n PROVE SocketOK(r)'
      <3>1. sock'[r] = "unused" =>
               server'[r] = "none" /\ signed'[r] = Null /\ arriving'[r] = << >>
        <4>1. sock[r] = "unused" => r # websocket
          BY DEF SocketsOK, SocketOK
        <4> QED BY <1>3, <1>8, <1>10, <2>2, <4>1 DEF SocketsOK, SocketOK
      <3>2. server'[r] = "serving" => signed'[r] = r
        BY <1>3, <1>8 DEF SocketsOK, SocketOK
      <3> QED BY <1>3, <1>10, <2>2, <3>1, <3>2 DEF SocketOK
    <2> QED BY <2>1, <2>2 DEF SocketsOK
  <1>18. Watched'
    <2>1. \A r \in onclose : r \in Sockets /\ r # n /\ sock[r] # "unused"
      BY <1>1 DEF Watched, Types
    <2>2. \A r \in onclose : sockets[r] = "closed" => sock'[r] = "closed"
      BY <1>2, <1>7, <2>1
    <2> QED BY <1>3, <1>10, <2>1, <2>2 DEF Watched
  <1>19. AllSent'
    <2>1. Received \subseteq Frames /\ \A r \in Sockets : OnWire(r) \subseteq Frames
      BY FramesAbout
    <2>2. \A g \in Frames : g.from \in Sockets
      BY DEF Frames
    <2>3. \A g \in Frames : Sent(g) => Sent(g)'
      BY <1>3, <1>8, <2>2 DEF Sent
    <2>4. \A r \in Sockets : \A g \in OnWire(r)' : Sent(g)'
      BY <1>12, <2>1, <2>3 DEF AllSent
    <2>5. \A g \in Received' : Sent(g)'
      BY <1>11, <2>1, <2>3 DEF AllSent
    <2> QED BY <2>4, <2>5 DEF AllSent
  <1>20. Apart'
    <2>1. \A r \in Sockets : \A g \in OnWire(r)' : g.from = r /\ g \notin Received'
      BY <1>11, <1>12 DEF Apart
    <2>2. \A r \in Sockets :
             \A i, j \in 1..Len(arriving'[r]) : arriving'[r][i] = arriving'[r][j] => i = j
      BY <1>8 DEF Apart
    <2> QED BY <1>11, <2>1, <2>2 DEF Apart
  <1>21. InOrder'
    <2>1. \A r \in Sockets : \A i, j \in 1..Len(arriving'[r]) :
             arriving'[r][i].kind = "confirm" /\ arriving'[r][j].kind \in Posts => i < j
      BY <1>8 DEF InOrder
    <2>2. \A r \in Sockets : \A g \in reading :
             g.from = r /\ g.kind \in Posts => \A k \in OnWire(r)' : k.kind # "confirm"
      BY <1>12 DEF InOrder
    <2> QED BY <1>11, <2>1, <2>2 DEF InOrder
  <1>22. Confirmed'
    BY <1>3 DEF Confirmed
  <1>23. Alive'
    BY <1>3, <1>7 DEF Alive, ReadyIsAlive
  <1> QED BY <1>13, <1>14, <1>15, <1>16, <1>17, <1>18, <1>19, <1>20, <1>21, <1>22, <1>23

\* The application calls connect.
LEMMA ConnectKeeps ==
  ASSUME Inv, Connect
  PROVE  Inv'
  <1>1. Types /\ Control /\ Watched
    BY DEF Inv
  <1>2. /\ state # "connecting" /\ calls < MaxCalls /\ calls' = calls + 1
        /\ Attempt(sock) /\ UNCHANGED <<onclose, missed>>
    BY DEF Connect
  <1>3. calls \in 0..MaxCalls /\ MaxCalls \in Nat
    BY <1>1, BoundsAssumption DEF Types
  <1>4. calls' \in 1..MaxCalls
    BY <1>2, <1>3
  <1>5. calls' <= 1 => onclose = {}
    <2>1. calls' <= 1 => calls = 0
      BY <1>2, <1>3
    <2> QED BY <1>1, <2>1 DEF Control
  <1>6. sock \in [Sockets -> {"unused", "connecting", "open", "closing", "lost", "closed"}]
    BY <1>1 DEF Types
  <1> QED BY <1>2, <1>4, <1>5, <1>6, AttemptKeeps

\* The close event of a socket that is lost or is being closed.
LEMMA CloseEventKeeps ==
  ASSUME Inv, NEW s \in Sockets, CloseEvent(s)
  PROVE  Inv'
  <1> USE DEF Inv
  <1>1. PICK closed : closed = [sock EXCEPT ![s] = "closed"]
    OBVIOUS
  <1>2. closed \in [Sockets -> {"unused", "connecting", "open", "closing", "lost", "closed"}]
        /\ closed[s] = "closed" /\ \A r \in Sockets : r # s => closed[r] = sock[r]
    BY <1>1 DEF Types
  <1>3. sock[s] \in {"lost", "closing"} /\ arriving[s] = << >>
        /\ UNCHANGED <<onclose, calls>>
    BY DEF CloseEvent
  <1>4. CASE s \in onclose /\ state # "connecting"
    <2>1. Attempt(closed) /\ UNCHANGED missed
      BY <1>1, <1>4 DEF CloseEvent
    <2>2. calls \in 0..MaxCalls /\ calls # 0 /\ MaxCalls \in Nat
      BY <1>4, BoundsAssumption DEF Types, Control
    <2>3. calls' \in 1..MaxCalls
      BY <1>3, <2>2
    <2>4. calls' <= 1 => \A r \in onclose : closed[r] = "closed"
      <3>1. calls <= 1 => \A r \in onclose : sock[r] = "closed" \/ r = websocket
        BY DEF Watched
      <3>2. calls <= 1 => s = websocket
        BY <1>3, <1>4, <3>1
      <3> QED BY <1>2, <1>3, <3>1, <3>2 DEF Types
    <2> QED BY <1>2, <1>3, <1>4, <2>1, <2>3, <2>4, AttemptKeeps
  <1>5. CASE ~(s \in onclose /\ state # "connecting")
    <2>1. /\ sock' = closed
          /\ missed' = IF s \notin onclose /\ reading \cup DOMAIN queue.nodes # {}
                       THEN missed \cup {s} ELSE missed
          /\ UNCHANGED <<client, reading, arriving, server, signed, posted>>
      BY <1>1, <1>5 DEF CloseEvent
    <2>2. UNCHANGED <<state, websocket, at, waiter, queue, took, last>>
      BY <2>1 DEF client
    <2>3. Received' = Received /\ Queued' = Queued /\ Taken' = Taken
          /\ \A r \in Sockets : OnWire(r)' = OnWire(r)
      BY <2>1, <2>2 DEF Received, Queued, Taken, OnWire
    <2>4. Types'
      BY <1>2, <1>3, <2>1, <2>2 DEF Types, TokensSigned
    <2>5. QueueOK' /\ Control' /\ Held'
      BY <1>3, <2>1, <2>2 DEF QueueOK, Control, Listens, Held
    <2>6. SocketsOK'
      BY <1>2, <1>3, <2>1, <2>2 DEF SocketsOK, SocketOK
    <2>7. Watched'
      BY <1>2, <1>3, <2>1, <2>2 DEF Watched, Types
    <2>8. AllSent'
      BY <2>1, <2>3 DEF AllSent, Sent
    <2>9. Apart'
      BY <2>1, <2>3 DEF Apart
    <2>10. InOrder'
      BY <2>1, <2>3 DEF InOrder
    <2>11. Confirmed'
      BY <2>1, <2>2 DEF Confirmed, OnWire, Frame
    <2>12. Alive'
      <3>1. missed \subseteq missed' /\ Queued = DOMAIN queue.nodes
        BY <2>1 DEF Queued
      <3>2. CASE s = websocket
        <4>1. s \notin onclose /\ state # "ready"
          BY <1>5, <3>2 DEF Watched, Alive, Types, Control
        <4> QED BY <1>2, <1>3, <2>1, <2>2, <2>3, <3>1, <3>2, <4>1 DEF Alive, ReadyIsAlive
      <3>3. CASE s # websocket /\ websocket \in Sockets
        BY <1>2, <1>3, <2>1, <2>2, <2>3, <3>1, <3>3 DEF Alive, ReadyIsAlive
      <3>4. CASE websocket \notin Sockets
        <4>1. state = "registed"
          BY <3>4 DEF Control, Types
        <4> QED BY <2>2, <4>1 DEF Alive, ReadyIsAlive
      <3> QED BY <3>2, <3>3, <3>4
    <2> QED BY <2>4, <2>5, <2>6, <2>7, <2>8, <2>9, <2>10, <2>11, <2>12
  <1> QED BY <1>4, <1>5

\* A step that moves frames on to the queue and to connect, and creates none.
LEMMA ReceiveKeeps ==
  ASSUME Inv, UNCHANGED arriving,
         Types', QueueOK', Control', Held', SocketsOK', Watched', Confirmed', Alive',
         reading' \subseteq reading, Received' \subseteq Received,
         reading' \cap Queued' = {}, Taken' \cap (reading' \cup Queued') = {},
         \A g \in Frames : Sent(g) => Sent(g)'
  PROVE  Inv'
  <1> USE DEF Inv
  <1>1. \A r \in Sockets : OnWire(r)' = OnWire(r)
    BY DEF OnWire
  <1>2. AllSent'
    <2>1. Received \subseteq Frames /\ \A r \in Sockets : OnWire(r) \subseteq Frames
      BY FramesAbout
    <2>2. \A r \in Sockets : \A g \in OnWire(r)' : Sent(g)'
      BY <1>1, <2>1 DEF AllSent
    <2>3. \A g \in Received' : Sent(g)'
      BY <2>1 DEF AllSent
    <2> QED BY <2>2, <2>3 DEF AllSent
  <1>3. Apart'
    BY <1>1 DEF Apart
  <1>4. InOrder'
    BY <1>1 DEF InOrder
  <1> QED BY <1>2, <1>3, <1>4

\* Sequences of one and of two elements, and the last element of one.
LEMMA OneElement ==
  ASSUME NEW S, NEW u \in Seq(S), Len(u) = 1
  PROVE  u[1] \in S /\ {u[i] : i \in 1..Len(u)} = {u[1]}
  OBVIOUS

\* A second element is appended to a sequence of one.
LEMMA OneMore ==
  ASSUME NEW S, NEW u \in Seq(S), Len(u) = 1, NEW b \in S
  PROVE  \E t \in Seq(S) :
            /\ t = Append(u, b) /\ Len(t) = 2 /\ t[1] = u[1] /\ t[2] = b
            /\ {t[i] : i \in 1..Len(t)} = {u[1], b}
            /\ u[1] # b => \A i, j \in 1..2 : t[i] = t[j] => i = j
  <1>1. PICK t : t = Append(u, b)
    OBVIOUS
  <1>2. 1 \in 1..1 /\ 1 + 1 = 2
    OBVIOUS
  <1>3. t \in Seq(S) /\ Len(t) = Len(u) + 1
        /\ (\A i \in 1..Len(u) : t[i] = u[i]) /\ t[Len(u) + 1] = b
    <2>1. /\ Append(u, b) \in Seq(S)
          /\ Len(Append(u, b)) = Len(u) + 1
          /\ \A i \in 1..Len(u) : Append(u, b)[i] = u[i]
          /\ Append(u, b)[Len(u) + 1] = b
      BY AppendProperties
    <2> QED BY <1>1, <2>1, Zenon
  <1>4. Len(t) = 2 /\ t[1] = u[1] /\ t[2] = b
    BY <1>2, <1>3
  <1>5. {t[i] : i \in 1..Len(t)} = {u[1], b}
    BY <1>4
  <1>6. u[1] # b => \A i, j \in 1..2 : t[i] = t[j] => i = j
    BY <1>4
  <1> QED BY <1>1, <1>3, <1>4, <1>5, <1>6

\* The last element is one of the set.
LEMMA LastElement ==
  ASSUME NEW S, NEW s \in Seq(S), Len(s) # 0
  PROVE  s[Len(s)] \in S
  OBVIOUS

\* The frame that connect takes in place of the confirmation.
LEMMA TakeConfirmKeeps ==
  ASSUME Inv, NEW f \in Frames, NEW rest, TakeConfirm(f, rest),
         at \in {"sign", "confirm"}, Linked(rest),
         f \in reading \cup Queued, DOMAIN rest.nodes \subseteq Queued \ {f},
         reading' = reading \ {f},
         UNCHANGED <<websocket, calls, missed, sock, arriving, server, posted>>,
         TokensSigned',
         \A r \in Sockets : sock[r] \in {"unused", "connecting"} => signed'[r] = signed[r],
         \A r \in Sockets : server[r] = "serving" => signed'[r] = r,
         \A g \in Frames : Sent(g) => Sent(g)'
  PROVE  Inv'
  <1> USE DEF Inv
  <1>1. state = "connecting" /\ websocket \in Sockets /\ Len(took) = 1 /\ took \in Seq(Frames)
    BY DEF Control, Held, Types
  <1>2. PICK w \in Sockets : w = websocket /\ w = websocket'
    BY <1>1
  <1>3. PICK g \in Frames : g = took[1] /\ Taken = {g}
    <2>1. took[1] \in Frames /\ {took[i] : i \in 1..Len(took)} = {took[1]}
      BY <1>1, OneElement, Zenon
    <2> QED BY <2>1, Zenon DEF Taken
  <1>4. f # g
    BY <1>3 DEF Apart
  <1>5. PICK t \in Seq(Frames) :
           /\ t = took' /\ Len(t) = 2 /\ t[1] = g /\ t[2] = f
           /\ {t[i] : i \in 1..Len(t)} = {g, f}
           /\ \A i, j \in 1..2 : t[i] = t[j] => i = j
    <2>1. PICK t \in Seq(Frames) :
             /\ t = Append(took, f) /\ Len(t) = 2 /\ t[1] = took[1] /\ t[2] = f
             /\ {t[i] : i \in 1..Len(t)} = {took[1], f}
             /\ took[1] # f => \A i, j \in 1..2 : t[i] = t[j] => i = j
      BY <1>1, OneMore
    <2>2. took' = t
      BY <2>1 DEF TakeConfirm
    <2> QED BY <1>3, <1>4, <2>1, <2>2, Zenon
  <1>6. Taken' = {g, f}
    BY <1>5 DEF Taken
  <1>7. ~(sock[w] = "closed" /\ w \notin missed)
    BY <1>1, <1>2 DEF Alive
  <1>8. w \notin onclose /\ sock[w] # "unused"
    BY <1>1, <1>2 DEF Watched, SocketsOK, SocketOK
  <1>9. Linked(Drained(rest)) /\ DOMAIN Drained(rest).nodes = {} /\ Drained(rest).header = Null
    BY LinkedDrained
  <1>10. last' \in Frames /\ QueueOK' /\ DOMAIN queue'.nodes \subseteq DOMAIN rest.nodes
    <2>1. CASE ServerHandShake(f) = Null
      BY <2>1 DEF TakeConfirm, QueueOK
    <2>2. CASE ServerHandShake(f) # Null
      <3>1. queue' = Drained(rest)
            /\ last' = IF rest.length = 0 THEN f ELSE Contents(rest)[rest.length]
        BY <2>2 DEF TakeConfirm
      <3>2. Contents(rest) \in Seq(Frames) /\ rest.length = Len(Contents(rest))
        BY LinkedIs DEF Linked
      <3>3. rest.length # 0 => Contents(rest)[rest.length] \in Frames
        <4>1. PICK c \in Seq(Frames) : c = Contents(rest)
          BY <3>2
        <4>2. Len(c) # 0 => c[Len(c)] \in Frames
          BY LastElement
        <4> QED BY <3>2, <4>1, <4>2
      <3> QED BY <1>9, <3>1, <3>3 DEF QueueOK
    <2> QED BY <2>1, <2>2
  <1>11. \/ /\ at' = "failed" /\ state' = "connecting" /\ waiter' = "none"
            /\ onclose' = onclose
         \/ /\ at' = "done" /\ state' = "ready" /\ waiter' = "loop"
            /\ onclose' = onclose \cup {w} /\ queue'.header = Null
            /\ ServerHandShake(f) # Null
    BY <1>1, <1>2, <1>9 DEF TakeConfirm
  <1>12. Types'
    BY <1>2, <1>5, <1>10, <1>11 DEF Types
  <1>13. Control'
    BY <1>2, <1>11 DEF Control, Listens
  <1>14. Held'
    <2>1. g.from = w => g.kind = "handshake"
      <3>1. Len(took) >= 1
        BY <1>1
      <3> QED BY <1>2, <1>3, <3>1, Zenon DEF Held
    <2>2. (ServerHandShake(took[2]))' = ServerHandShake(f)
      BY <1>5 DEF ServerHandShake, Bytes
    <2> QED BY <1>2, <1>5, <1>11, <2>1, <2>2 DEF Held
  <1>15. SocketsOK'
    <2>1. \A r \in Sockets : sock[r] # "connecting"
      BY DEF SocketsOK, SocketOK
    <2> QED BY <1>11, <2>1 DEF SocketsOK, SocketOK
  <1>16. Watched'
    BY <1>1, <1>2, <1>8, <1>11 DEF Watched
  <1>17. Confirmed'
    BY <1>11 DEF Confirmed
  <1>18. Queued' \subseteq Queued \ {f}
    BY <1>10 DEF Queued
  <1>19. Alive'
    BY <1>2, <1>7, <1>11 DEF Alive, ReadyIsAlive
  <1>20. Received' \subseteq Received
    BY <1>3, <1>6, <1>18 DEF Received
  <1>21. reading' \cap Queued' = {} /\ Taken' \cap (reading' \cup Queued') = {}
    BY <1>3, <1>6, <1>18 DEF Apart
  <1> QED BY <1>10, <1>12, <1>13, <1>14, <1>15, <1>16, <1>17, <1>19, <1>20, <1>21, ReceiveKeeps

\* The frame that connect takes for the server's handshake.
LEMMA TakeHandshakeHolds ==
  ASSUME Inv, NEW f \in Frames, TakeHandshake(f), UNCHANGED websocket,
         at \in {"open", "handshake"}, f \in reading \cup Queued
  PROVE  /\ took' = << f >> /\ took' \in Seq(Frames) /\ Taken' = {f}
         /\ at' \in {"failed", "sign"}
         /\ Held'
  <1> USE DEF Inv
  <1>1. took' = << f >> /\ at' = IF ServerHandShake(f) = Null THEN "failed" ELSE "sign"
    BY DEF TakeHandshake
  <1>2. PICK t : t = << f >> /\ t = took' /\ Len(t) = 1 /\ t[1] = f /\ t \in Seq(Frames)
    <2>1. << f >> \in Seq(Frames) /\ Len(<< f >>) = 1
      OBVIOUS
    <2> QED BY <1>1, <2>1
  <1>3. websocket \in Sockets /\ signed[websocket] = Null
    BY DEF Control, SocketsOK, SocketOK
  <1>4. f.from = websocket => f.kind = "handshake"
    <2>1. Sent(f)
      BY DEF AllSent, Received
    <2> QED BY <1>3, <2>1 DEF Sent
  <1>5. (ServerHandShake(took[1]))' = ServerHandShake(t[1])
    BY <1>2 DEF ServerHandShake, Bytes
  <1>6. Held'
    BY <1>1, <1>2, <1>4, <1>5 DEF Held
  <1>7. Taken' = {f}
    BY <1>2 DEF Taken
  <1> QED BY <1>1, <1>2, <1>6, <1>7

\* The open event: connect sends its handshake, and takes a queued frame for the
\* server's or waits for it.
LEMMA SocketOpenKeeps ==
  ASSUME Inv, NEW s \in Sockets, SocketOpen(s)
  PROVE  Inv'
  <1> USE DEF Inv
  <1>1. /\ sock[s] = "connecting" /\ sock' = [sock EXCEPT ![s] = "open"]
        /\ server' = [server EXCEPT ![s] = "hello"]
        /\ UNCHANGED <<state, websocket, reading, onclose, calls, missed, arriving>>
        /\ UNCHANGED <<signed, posted>>
    BY DEF SocketOpen, browser
  <1>2. s = websocket /\ at = "open" /\ server[s] = "none"
    BY <1>1 DEF SocketsOK, SocketOK
  <1>3. state = "connecting" /\ waiter = "none" /\ took = << >>
    BY <1>2 DEF Control, Listens, Held, Types
  <1>4. sock'[s] = "open" /\ server'[s] = "hello"
        /\ \A r \in Sockets : r # s => sock'[r] = sock[r] /\ server'[r] = server[r]
    BY <1>1 DEF Types
  <1>5. \A g \in Frames : Sent(g) => Sent(g)'
    <2>1. \A g \in Frames : g.from \in Sockets
      BY DEF Frames
    <2> QED BY <1>1, <1>2, <1>4, <2>1 DEF Sent
  <1>6. at' \in {"handshake", "failed", "sign"}
        /\ (waiter' = "connect" <=> at' = "handshake") /\ waiter' \in {"none", "connect"}
        /\ (waiter' # "none" => queue'.header = Null)
        /\ QueueOK' /\ took' \in Seq(Frames) /\ last' \in Frames \cup {Null} /\ Held'
        /\ Queued' \subseteq Queued /\ Taken' \subseteq Queued /\ Taken' \cap Queued' = {}
    <2>1. CASE queue.header = Null
      <3>1. at' = "handshake" /\ waiter' = "connect" /\ UNCHANGED <<queue, last, took>>
        BY <2>1 DEF SocketOpen
      <3>2. Held'
        BY <1>1, <1>3, <3>1 DEF Held
      <3>3. Queued' = Queued /\ Taken' = {}
        BY <1>3, <3>1 DEF Queued, Taken
      <3> QED BY <1>3, <2>1, <3>1, <3>2, <3>3 DEF QueueOK, Types
    <2>2. CASE queue.header # Null
      <3>1. PICK f \in Frames : f = Front(queue) /\ f \in Queued
        BY <2>2, LinkedDequeued DEF QueueOK, Queued
      <3>2. TakeHandshake(f) /\ queue' = Dequeued(queue) /\ last' = f /\ waiter' = waiter
        BY <2>2, <3>1 DEF SocketOpen
      <3>3. took' \in Seq(Frames) /\ Taken' = {f} /\ at' \in {"failed", "sign"} /\ Held'
        BY <1>1, <1>2, <3>1, <3>2, TakeHandshakeHolds
      <3>4. QueueOK' /\ Queued' = Queued \ {f}
        BY <2>2, <3>1, <3>2, LinkedDequeued DEF QueueOK, Queued
      <3> QED BY <1>3, <3>1, <3>2, <3>3, <3>4
    <2> QED BY <2>1, <2>2
  <1>7. Types'
    BY <1>1, <1>6 DEF Types, TokensSigned
  <1>8. Control'
    BY <1>1, <1>3, <1>6 DEF Control, Listens
  <1>9. SocketsOK'
    BY <1>1, <1>2, <1>4, <1>6 DEF SocketsOK, SocketOK
  <1>10. Watched'
    BY <1>1, <1>2, <1>4 DEF Watched, Types
  <1>11. Confirmed'
    BY <1>6 DEF Confirmed
  <1>12. Alive'
    BY <1>1, <1>2, <1>3, <1>4 DEF Alive, ReadyIsAlive
  <1>13. Received' \subseteq Received /\ reading' \cap Queued' = {}
         /\ Taken' \cap (reading' \cup Queued') = {}
    BY <1>1, <1>6 DEF Received, Apart
  <1> QED BY <1>1, <1>5, <1>6, <1>7, <1>8, <1>9, <1>10, <1>11, <1>12, <1>13, ReceiveKeeps

\* A sequence of one element has one index.
LEMMA OneIndex ==
  ASSUME NEW t, Len(t) = 1
  PROVE  \A i, j \in 1..Len(t) : i = j
  OBVIOUS

\* What connect has received while its signature is made and sent.
LEMMA SignedHeld ==
  ASSUME Held, at = "sign", Len(took) = 1,
         took' = took, websocket' = websocket, at' = "confirm"
  PROVE  Held'
  <1>1. Len(took') >= 1 /\ took'[1].from = websocket' => took'[1].kind = "handshake"
    BY DEF Held
  <1>2. Len(took') = 1
    OBVIOUS
  <1>3. \A i, j \in 1..Len(took') : i = j
    BY <1>2, OneIndex, Zenon
  <1> QED BY <1>1, <1>2, <1>3 DEF Held

\* The end of signing: SignIn is sent, and connect takes a queued frame for the
\* confirmation or waits for it.
LEMMA SignDoneKeeps ==
  ASSUME Inv, SignDone
  PROVE  Inv'
  <1> USE DEF Inv
  <1>1. /\ at = "sign"
        /\ UNCHANGED <<websocket, reading, calls, missed, sock, arriving, server, posted>>
    BY DEF SignDone
  <1>2. state = "connecting" /\ waiter = "none" /\ Len(took) = 1 /\ took \in Seq(Frames)
    BY <1>1 DEF Control, Listens, Held, Types
  <1>3. PICK w \in Sockets : w = websocket
    BY <1>1 DEF Control
  <1>4. signed[w] = Null /\ server[w] # "serving" /\ sock[w] \notin {"unused", "connecting"}
    BY <1>1, <1>3, SocketsAssumption DEF SocketsOK, SocketOK
  <1>apart. \A g \in Queued : reading' = reading \ {g}
    BY <1>1 DEF Apart
  <1>5. PICK token \in Sockets \cup {""} :
           signed' = IF sock[w] = "open" THEN [signed EXCEPT ![w] = token] ELSE signed
    <2>1. ServerHandShake(took[1]) # Null /\ took[1] \in Frames
      BY <1>1, <1>2, OneElement DEF Held
    <2>2. getToken(took[1]) \in Sockets \cup {""}
      BY <2>1, Readings
    <2> QED BY <1>3, <2>2 DEF SignDone
  <1>6. TokensSigned' /\ \A r \in Sockets : r # w => signed'[r] = signed[r]
    BY <1>5 DEF Types, TokensSigned
  <1>7. \A r \in Sockets : sock[r] \in {"unused", "connecting"} => signed'[r] = signed[r]
    BY <1>4, <1>6
  <1>8. \A r \in Sockets : server[r] = "serving" => signed'[r] = r
    BY <1>4, <1>6 DEF SocketsOK, SocketOK
  <1>9. \A g \in Frames : g.from = w /\ Sent(g) => g.kind = "handshake"
    BY <1>4 DEF Sent
  <1>10. \A g \in Frames : Sent(g) => Sent(g)'
    <2> TAKE g \in Frames
    <2> HAVE Sent(g)
    <2>1. CASE g.from = w
      BY <1>1, <1>9, <2>1 DEF Sent
    <2>2. CASE g.from # w
      <3>1. signed'[g.from] = signed[g.from]
        BY <1>6, <2>2 DEF Frames
      <3> QED BY <1>1, <3>1 DEF Sent
    <2> QED BY <2>1, <2>2
  <1>11. CASE queue.header = Null
    <2>1. at' = "confirm" /\ waiter' = "connect"
          /\ UNCHANGED <<state, onclose, queue, last, took>>
      BY <1>11 DEF SignDone
    <2>2. Received' = Received /\ Queued' = Queued /\ Taken' = Taken
      BY <1>1, <2>1 DEF Received, Queued, Taken
    <2>3. Types'
      <3>1. /\ UNCHANGED <<state, websocket, reading, onclose, calls, sock, arriving, server>>
            /\ UNCHANGED <<posted, took, last, missed>>
            /\ TokensSigned'
        BY <1>1, <1>6, <2>1
      <3>2. at' = "confirm" /\ waiter' = "connect"
        BY <2>1
      <3> QED BY <3>1, <3>2 DEF Types
    <2>4. QueueOK' /\ Control'
      BY <1>1, <1>2, <1>11, <2>1 DEF QueueOK, Control, Listens
    <2>5. Held'
      <3>1. took' = took /\ websocket' = websocket /\ at' = "confirm"
        BY <1>1, <2>1
      <3> QED BY <1>1, <1>2, <3>1, SignedHeld
    <2>6. SocketsOK'
      <3> SUFFICES ASSUME NEW r \in Sockets PROVE SocketOK(r)'
        BY DEF SocketsOK
      <3>1. SocketOK(r)
        BY DEF SocketsOK
      <3>2. UNCHANGED <<websocket, sock, arriving, server>> /\ at' = "confirm"
        BY <1>1, <2>1
      <3>3. sock[r] \in {"unused", "connecting"} => signed'[r] = signed[r]
        BY <1>7
      <3>4. server[r] = "serving" => signed'[r] = r
        BY <1>8
      <3>5. sock[r] = "connecting" => r # websocket
        BY <1>3, <1>4
      <3>6. sock[r] # "connecting"
        BY <3>1, <3>5, <1>1 DEF SocketOK
      <3> QED BY <3>1, <3>2, <3>3, <3>4, <3>6 DEF SocketOK
    <2>7. Watched'
      BY <1>1, <2>1 DEF Watched
    <2>8. Confirmed'
      <3>1. ASSUME NEW g \in reading \cup OnWire(w), g.from = w
            PROVE  g.kind \notin Posts
        <4>1. g \in Frames /\ Sent(g)
          BY FramesAbout DEF AllSent, Received
        <4> QED BY <1>9, <3>1, <4>1 DEF Posts
      <3>2. OnWire(w) = OnWire(websocket)'
        BY <1>1, <1>3 DEF OnWire
      <3> QED BY <1>1, <1>3, <1>4, <3>1, <3>2 DEF Confirmed
    <2>9. Alive'
      BY <1>1, <2>1, <2>2 DEF Alive, ReadyIsAlive
    <2>10. reading' \cap Queued' = {} /\ Taken' \cap (reading' \cup Queued') = {}
      BY <1>1, <2>2 DEF Apart
    <2> QED BY <1>1, <1>10, <2>2, <2>3, <2>4, <2>5, <2>6, <2>7, <2>8, <2>9, <2>10,
               ReceiveKeeps
  <1>12. CASE queue.header # Null
    <2>1. PICK f \in Frames : f = Front(queue) /\ f \in Queued
      BY <1>12, LinkedDequeued DEF QueueOK, Queued
    <2>2. PICK rest : rest = Dequeued(queue)
      OBVIOUS
    <2>3. Linked(rest) /\ DOMAIN rest.nodes = Queued \ {f}
      BY <1>12, <2>1, <2>2, LinkedDequeued DEF QueueOK, Queued
    <2>4. TakeConfirm(f, rest)
      BY <1>12, <2>1, <2>2 DEF SignDone
    <2>5. reading' = reading \ {f}
      BY <1>apart, <2>1, Zenon
    <2>6. at \in {"sign", "confirm"} /\ Linked(rest) /\ f \in reading \cup Queued
          /\ DOMAIN rest.nodes \subseteq Queued \ {f}
      BY <1>1, <2>1, <2>3
    <2>7. UNCHANGED <<websocket, calls, missed, sock, arriving, server, posted>>
      BY <1>1
    <2>8. Inv
      OBVIOUS
    <2> HIDE DEF Inv
    <2> QED BY <1>6, <1>7, <1>8, <1>10, <2>1, <2>4, <2>5, <2>6, <2>7, <2>8,
               TakeConfirmKeeps, Zenon
  <1> QED BY <1>11, <1>12

\* The bytes of a frame are there: it is queued, or handed on to whoever waits.
LEMMA BlobReadKeeps ==
  ASSUME Inv, NEW f \in reading, BlobRead(f)
  PROVE  Inv'
  <1> USE DEF Inv
  <1>1. /\ reading' = reading \ {f} /\ f \in Frames
        /\ UNCHANGED <<websocket, calls, missed, sock, arriving, server, signed, posted>>
    BY DEF BlobRead, network, Types
  <1>2. PICK queued : queued = Enqueued(queue, f)
    OBVIOUS
  <1>3. PICK rest : rest = Dequeued(queued)
    OBVIOUS
  <1>4. f \notin Queued /\ f \notin Taken /\ Sent(f)
    BY DEF Apart, AllSent, Received
  <1>5. \A g \in Frames : Sent(g) => Sent(g)'
    BY <1>1 DEF Sent
  <1>6. ~(state = "connecting" /\ sock[websocket] = "closed" /\ websocket \notin missed)
    BY DEF Alive
  <1>7. waiter # "none" => Linked(rest) /\ DOMAIN rest.nodes = {} /\ rest.header = Null
                            /\ Front(queued) = f /\ Queued = {}
    <2> SUFFICES ASSUME waiter # "none" PROVE Linked(rest) /\ DOMAIN rest.nodes = {}
                            /\ rest.header = Null /\ Front(queued) = f /\ Queued = {}
      OBVIOUS
    <2>1. queue.header = Null /\ Linked(queue)
      BY DEF Control, Listens, QueueOK
    <2>2. Queued = {}
      BY <2>1, LinkedIs DEF Queued
    <2> QED BY <1>1, <1>2, <1>3, <2>1, <2>2, LinkedPassed
  <1>8. CASE waiter = "none"
    <2>1. queue' = queued /\ UNCHANGED <<state, at, waiter, took, last, onclose>>
      BY <1>2, <1>8 DEF BlobRead
    <2>2. QueueOK' /\ Queued' = Queued \cup {f}
      BY <1>1, <1>2, <1>4, <2>1, LinkedEnqueued DEF QueueOK, Queued
    <2>3. Taken' = Taken
      BY <2>1 DEF Taken
    <2>4. Types'
      BY <1>1, <2>1 DEF Types, TokensSigned
    <2>5. Control'
      BY <1>1, <1>8, <2>1 DEF Control, Listens
    <2>6. Held' /\ SocketsOK' /\ Watched'
      BY <1>1, <2>1 DEF Held, SocketsOK, SocketOK, Watched
    <2>7. Confirmed'
      BY <1>8, <2>1 DEF Confirmed, Control, Listens
    <2>8. Alive'
      BY <1>1, <1>6, <2>1 DEF Alive, ReadyIsAlive
    <2>9. Received' \subseteq Received
      BY <1>1, <2>2, <2>3 DEF Received
    <2>10. reading' \cap Queued' = {} /\ Taken' \cap (reading' \cup Queued') = {}
      BY <1>1, <1>4, <2>2, <2>3 DEF Apart
    <2> QED BY <1>1, <1>5, <2>2, <2>4, <2>5, <2>6, <2>7, <2>8, <2>9, <2>10, ReceiveKeeps
  <1>9. CASE waiter = "loop"
    <2>1. queue' = rest /\ last' = f /\ UNCHANGED <<state, at, waiter, took, onclose>>
      BY <1>2, <1>3, <1>7, <1>9 DEF BlobRead
    <2>2. QueueOK' /\ Queued' = {} /\ queue'.header = Null
      BY <1>7, <1>9, <2>1 DEF QueueOK, Queued
    <2>3. Taken' = Taken
      BY <2>1 DEF Taken
    <2>4. state = "ready" /\ at = "done"
      BY <1>9 DEF Control, Listens
    <2>5. Types'
      BY <1>1, <2>1 DEF Types, TokensSigned
    <2>6. Control'
      BY <1>1, <2>1, <2>2 DEF Control, Listens
    <2>7. Held' /\ SocketsOK' /\ Watched'
      BY <1>1, <2>1 DEF Held, SocketsOK, SocketOK, Watched
    <2>8. Confirmed'
      BY <2>1, <2>4 DEF Confirmed
    <2>9. Alive'
      BY <1>1, <2>1, <2>4 DEF Alive, ReadyIsAlive
    <2>10. Received' \subseteq Received
      BY <1>1, <2>2, <2>3 DEF Received
    <2>11. reading' \cap Queued' = {} /\ Taken' \cap (reading' \cup Queued') = {}
      BY <1>1, <2>2, <2>3 DEF Apart
    <2> QED BY <1>1, <1>5, <2>2, <2>5, <2>6, <2>7, <2>8, <2>9, <2>10, <2>11, ReceiveKeeps
  <1>10. CASE waiter = "connect" /\ at = "handshake"
    <2>1. TakeHandshake(f) /\ queue' = rest /\ last' = f /\ waiter' = "none"
          /\ UNCHANGED <<state, onclose>>
      BY <1>2, <1>3, <1>7, <1>10 DEF BlobRead
    <2>2. took' \in Seq(Frames) /\ Taken' = {f} /\ at' \in {"failed", "sign"} /\ Held'
      BY <1>1, <1>10, <2>1, TakeHandshakeHolds
    <2>3. QueueOK' /\ Queued' = {} /\ queue'.header = Null
      BY <1>7, <1>10, <2>1 DEF QueueOK, Queued
    <2>4. state = "connecting"
      BY <1>10 DEF Control, Types
    <2>5. Types'
      BY <1>1, <2>1, <2>2 DEF Types, TokensSigned
    <2>6. Control'
      BY <1>1, <1>10, <2>1, <2>2, <2>4 DEF Control, Listens
    <2>7. SocketsOK'
      BY <1>1, <1>10, <2>2 DEF SocketsOK, SocketOK
    <2>8. Watched'
      BY <1>1, <2>1 DEF Watched
    <2>9. Confirmed'
      BY <2>2 DEF Confirmed
    <2>10. Alive'
      BY <1>1, <1>6, <2>1, <2>4 DEF Alive, ReadyIsAlive
    <2>11. Received' \subseteq Received
      BY <1>1, <2>2, <2>3 DEF Received
    <2>12. reading' \cap Queued' = {} /\ Taken' \cap (reading' \cup Queued') = {}
      BY <1>1, <2>2, <2>3
    <2> QED BY <1>1, <1>5, <2>2, <2>3, <2>5, <2>6, <2>7, <2>8, <2>9, <2>10, <2>11, <2>12,
               ReceiveKeeps
  <1>11. CASE waiter = "connect" /\ at = "confirm"
    <2>1. TakeConfirm(f, rest)
      BY <1>2, <1>3, <1>7, <1>11 DEF BlobRead
    <2>2. TokensSigned'
      BY <1>1 DEF Types, TokensSigned
    <2>3. \A r \in Sockets : server[r] = "serving" => signed'[r] = r
      BY <1>1 DEF SocketsOK, SocketOK
    <2> QED BY <1>1, <1>5, <1>7, <1>11, <2>1, <2>2, <2>3, TakeConfirmKeeps
  <1> QED BY <1>8, <1>9, <1>10, <1>11 DEF Control, Listens, Types

-----------------------------------------------------------------------------
(* The theorems.                                                           *)

\* Every step preserves the invariant.
LEMMA NextKeeps == Inv /\ [Next]_vars => Inv'
  <1> SUFFICES ASSUME Inv, [Next]_vars PROVE Inv'
    OBVIOUS
  <1>1. CASE Connect
    BY <1>1, ConnectKeeps
  <1>2. CASE SignDone
    BY <1>2, SignDoneKeeps
  <1>3. CASE \E f \in reading : BlobRead(f)
    BY <1>3, BlobReadKeeps
  <1>4. ASSUME NEW s \in Sockets, SocketOpen(s) PROVE Inv'
    BY <1>4, SocketOpenKeeps
  <1>5. ASSUME NEW s \in Sockets, MessageEvent(s) PROVE Inv'
    BY <1>5, MessageEventKeeps
  <1>6. ASSUME NEW s \in Sockets, CloseEvent(s) PROVE Inv'
    BY <1>6, CloseEventKeeps
  <1>7. ASSUME NEW s \in Sockets, Server(s) PROVE Inv'
    BY <1>7, ServerHandshakeKeeps, ServerConfirmKeeps, ServerRejectKeeps DEF Server
  <1>8. ASSUME NEW s \in Sockets, Lose(s) PROVE Inv'
    BY <1>8, LoseKeeps
  <1>9. ASSUME NEW s \in Sockets, NEW k \in {"message", "receipt"}, ServerPost(s, k)
        PROVE  Inv'
    BY <1>9, ServerPostKeeps
  <1>10. CASE UNCHANGED vars
    <2>1. UNCHANGED <<state, websocket, at, waiter, queue, took, last, reading, onclose,
                      calls, missed, sock, arriving, server, signed, posted>>
      BY <1>10 DEF vars, client, browser, network
    <2>2. Types' /\ QueueOK' /\ Control' /\ Held'
      <3>1. Types'
        BY <2>1 DEF Inv, Types, TokensSigned
      <3>2. QueueOK' /\ Control'
        BY <2>1 DEF Inv, QueueOK, Control, Listens
      <3>3. Held'
        BY <2>1 DEF Inv, Held
      <3> QED BY <3>1, <3>2, <3>3
    <2>3. SocketsOK' /\ Watched' /\ Alive'
      BY <2>1 DEF Inv, SocketsOK, SocketOK, Watched, Alive, ReadyIsAlive, Queued
    <2>4. /\ reading' = reading /\ Queued' = Queued /\ Taken' = Taken /\ Received' = Received
          /\ \A r \in Sockets : OnWire(r)' = OnWire(r)
      BY <2>1 DEF Queued, Taken, Received, OnWire
    <2>5. AllSent' /\ Apart' /\ InOrder'
      BY <2>1, <2>4 DEF Inv, AllSent, Sent, Apart, InOrder
    <2>6. Confirmed'
      BY <2>1 DEF Inv, Confirmed, OnWire, Frame
    <2> QED BY <2>2, <2>3, <2>5, <2>6 DEF Inv
  <1> QED BY <1>1, <1>2, <1>3, <1>4, <1>5, <1>6, <1>7, <1>8, <1>9, <1>10 DEF Next

\* The invariant holds of every reachable state: the queue is a linked list, a
\* frame is in one place, and connect has what the server has sent it so far.
THEOREM Invariance == Spec => []Inv
  <1>1. Init => Inv
    BY Initially
  <1>2. Inv /\ [Next]_vars => Inv'
    BY NextKeeps
  <1> QED BY <1>1, <1>2, PTL DEF Spec

\* At most one party waits on the queue, the one whose turn it is, and nobody
\* while a frame is queued: at every moment of every behaviour.
THEOREM OneWaiter == Spec => []Listens
  <1>1. Inv => Listens
    BY DEF Inv, Control
  <1> QED BY <1>1, Invariance, PTL

\* A ready client has been accepted by its session and will notice the end of its
\* socket, with the exceptions ReadyIsTrue names.
THEOREM Readiness == Spec => []ReadyIsTrue
  <1>1. Inv => ReadyIsTrue
    <2> SUFFICES ASSUME Inv, state = "ready", NotMixedUp PROVE ReadyIsSignedIn
      BY DEF Inv, Alive, ReadyIsTrue, ReadyIsSignedIn
    <2> USE DEF Inv
    <2>1. PICK w \in Sockets : w = websocket
      BY DEF Control
    <2>2. Len(took) = 2 /\ ServerHandShake(took[2]) # Null /\ took \in Seq(Frames)
      BY DEF Control, Held, Types
    <2>3. PICK a \in Frames, b \in Frames :
             a = took[1] /\ b = took[2] /\ a \in Taken /\ b \in Taken
      <3>1. 1 \in 1..Len(took) /\ 2 \in 1..Len(took)
        BY <2>2
      <3>2. took[1] \in Frames /\ took[2] \in Frames
        BY <2>2, <3>1, ElementOfSeq
      <3> QED BY <3>1, <3>2 DEF Taken
    <2>4. /\ a.from = w /\ b.from = w /\ a # b
          /\ b.kind \notin {"message", "receipt"} /\ a.kind = "handshake"
      <3>1. 1 \in 1..Len(took) /\ 2 \in 1..Len(took) /\ Len(took) >= 1
        BY <2>2
      <3> QED BY <2>1, <2>3, <3>1 DEF NotMixedUp, Held
    <2>5. Sent(a) /\ Sent(b)
      BY <2>3 DEF AllSent, Received
    <2>6. b.kind # "text"
      BY <2>2, <2>3, Readings
    <2>7. b.kind # "handshake"
      <3>1. b.kind = "handshake" => a = Frame("handshake", w) /\ b = Frame("handshake", w)
        BY <2>4, <2>5, FrameIs DEF Sent, Kinds
      <3> QED BY <2>4, <3>1
    <2>8. b.kind = "confirm"
      BY <2>4, <2>6, <2>7 DEF Frames, Kinds
    <2>9. signed[w] = w /\ server[w] \in {"serving", "gone"}
      BY <2>4, <2>5, <2>8 DEF Sent
    <2>10. server[w] = "gone" => sock[w] \in {"lost", "closed"}
      BY <2>1 DEF SocketsOK, SocketOK, Types
    <2> QED BY <2>1, <2>9, <2>10 DEF ReadyIsSignedIn
  <1> QED BY <1>1, Invariance, PTL

\* The type invariant, with the length the queue keeps by counting.
THEOREM LinkTypes == Spec => []TypeOK
  <1>1. Inv => TypeOK
    <2> SUFFICES ASSUME Inv PROVE TypeOK
      OBVIOUS
    <2>1. PICK c \in Seq(Frames) : c = Contents(queue) /\ Lists(queue, c)
      BY DEF Inv, QueueOK, Linked
    <2>2. Represents(queue, c)
      BY <2>1 DEF Lists
    <2>3. PICK n \in Nat : n = Len(c)
      OBVIOUS
    <2>4. /\ queue.length = n
          /\ DOMAIN queue.nodes = {c[i] : i \in 1..n}
          /\ \A i, j \in 1..n : c[i] = c[j] => i = j
      BY <2>2, <2>3 DEF Represents
    <2>5. Cardinality(1..n) = n /\ IsFiniteSet(1..n)
      <3>1. 1 \in Int /\ n \in Int
        BY <2>3
      <3>2. /\ IsFiniteSet(1..n)
            /\ Cardinality(1..n) = IF 1 > n THEN 0 ELSE n - 1 + 1
        BY <3>1, FS_Interval, Zenon
      <3> QED BY <2>3, <3>2
    <2>6. ExistsBijection(1..n, DOMAIN queue.nodes)
      <3>1. PICK b : b = [i \in 1..n |-> c[i]]
        OBVIOUS
      <3>2. /\ b \in [1..n -> DOMAIN queue.nodes]
            /\ \A i, j \in 1..n : b[i] = b[j] => i = j
            /\ \A y \in DOMAIN queue.nodes : \E i \in 1..n : b[i] = y
        BY <2>4, <3>1
      <3>3. b \in Bijection(1..n, DOMAIN queue.nodes)
        BY <3>2, Fun_IsBij
      <3> QED BY <3>3, Fun_ExistsBij
    <2>7. queue.length = Cardinality(DOMAIN queue.nodes)
      BY <2>4, <2>5, <2>6, FS_Bijection
    <2>8. DOMAIN queue.nodes \subseteq Frames
      BY LinkedIs DEF Inv, QueueOK
    <2>9. Types
      BY DEF Inv
    <2> QED BY <2>7, <2>8, <2>9 DEF TypeOK, Types, TokensSigned
  <1> QED BY <1>1, Invariance, PTL

\* No open connection is closed by the client as long as connect has been called
\* from outside at most once.
THEOREM OwnSocketsStayOpen == Spec => NoSelfClose
  <1>1. ASSUME Inv, [Next]_vars
        PROVE  [calls' <= 1 => \A s \in Sockets : sock[s] = "open" => sock'[s] # "closing"]_vars
    <2> USE <1>1 DEF Inv
    <2> SUFFICES ASSUME calls' <= 1, NEW s \in Sockets, sock[s] = "open"
                 PROVE  sock'[s] # "closing"
      BY DEF vars, client, browser, network
    <2>1. CASE UNCHANGED sock
      BY <2>1
    <2>2. CASE Connect
      <3>1. calls = 0
        <4>1. calls \in Nat /\ calls' = calls + 1
          BY <2>2, BoundsAssumption DEF Connect, Types
        <4> QED BY <4>1
      <3>2. state # "ready"
        BY <3>1 DEF Control
      <3>3. sock' = [r \in Sockets |-> CASE r = NewSocket -> "connecting"
                                         [] r = websocket /\ FALSE -> "closing"
                                         [] OTHER -> sock[r]]
        BY <2>2, <3>2 DEF Connect, Attempt
      <3> QED BY <3>3
    <2>3. ASSUME NEW r \in Sockets, CloseEvent(r) PROVE sock'[s] # "closing"
      <3>1. PICK closed : closed = [sock EXCEPT ![r] = "closed"]
        OBVIOUS
      <3>2. sock[r] \in {"lost", "closing"} /\ calls' = calls /\ r # s /\ closed[r] = "closed"
            /\ closed[s] = "open"
        BY <2>3, <3>1 DEF CloseEvent, Types
      <3>3. CASE r \in onclose /\ state # "connecting"
        <4>1. r = websocket
          BY <3>2, <3>3 DEF Watched
        <4>2. Attempt(closed)
          BY <2>3, <3>1, <3>3 DEF CloseEvent
        <4>3. sock'[s] = CASE s = NewSocket -> "connecting"
                           [] s = websocket /\ FALSE -> "closing"
                           [] OTHER -> closed[s]
          BY <3>2, <4>1, <4>2 DEF Attempt
        <4> QED BY <3>2, <4>3
      <3>4. CASE ~(r \in onclose /\ state # "connecting")
        BY <2>3, <3>1, <3>2, <3>4 DEF CloseEvent
      <3> QED BY <3>3, <3>4
    <2>4. ASSUME NEW r \in Sockets, SocketOpen(r) \/ ServerReject(r) \/ Lose(r)
          PROVE  sock'[s] # "closing"
      BY <2>4 DEF SocketOpen, ServerReject, Lose, Types
    <2>5. ASSUME NEW r \in Sockets, NEW k \in {"message", "receipt"}, ServerPost(r, k)
          PROVE  UNCHANGED sock
      BY <2>5 DEF ServerPost
    <2>6. ASSUME NEW r \in Sockets, ServerHandshake(r) \/ ServerConfirm(r) \/ MessageEvent(r)
          PROVE  UNCHANGED sock
      BY <2>6 DEF ServerHandshake, ServerConfirm, MessageEvent
    <2>7. ASSUME NEW f \in reading, BlobRead(f) PROVE UNCHANGED sock
      BY <2>7 DEF BlobRead, network
    <2>8. ASSUME SignDone PROVE UNCHANGED sock
      BY <2>8 DEF SignDone
    <2>9. ASSUME UNCHANGED vars PROVE UNCHANGED sock
      BY <2>9 DEF vars, network
    <2> QED BY <2>1, <2>2, <2>3, <2>4, <2>5, <2>6, <2>7, <2>8, <2>9 DEF Next, Server
  <1> QED BY <1>1, Invariance, PTL DEF Spec, NoSelfClose

\* A frame of a conversation that connect takes has overtaken the confirmation, or
\* comes from a socket that has been given up.
THEOREM SwallowedFrames == Spec => SwallowedInARace
  <1>1. ASSUME Inv, [Next]_vars
        PROVE  [Len(took') > Len(took) =>
                  LET f == took'[Len(took')]
                  IN  f.kind \in {"message", "receipt"} =>
                        IF f.from = websocket
                        THEN at = "confirm" /\ Frame("confirm", websocket) \in reading
                        ELSE sock[f.from] \in {"closing", "closed"}
                             /\ f \notin DOMAIN queue'.nodes]_vars
    <2> DEFINE Good(f) == f.kind \in {"message", "receipt"} =>
                  IF f.from = websocket
                  THEN at = "confirm" /\ Frame("confirm", websocket) \in reading
                  ELSE sock[f.from] \in {"closing", "closed"}
                       /\ f \notin DOMAIN queue'.nodes
    <2> USE <1>1
    <2> SUFFICES ASSUME Len(took') > Len(took) PROVE Good(took'[Len(took')])
      BY DEF vars, client
    <2>1. Inv'
      BY NextKeeps
    <2> USE DEF Inv
    <2>2. PICK old \in Seq(Frames) : old = took
      BY DEF Types
    <2>3. took' # took
      BY <2>2
    <2>4. ASSUME NEW f \in Frames, f \in Taken', f \in reading \cup Queued,
                 \/ at \in {"open", "handshake", "sign"}
                 \/ at = "confirm" /\ f \in reading
          PROVE  Good(f)
      <3> SUFFICES ASSUME f.kind \in {"message", "receipt"}
                   PROVE  IF f.from = websocket
                          THEN at = "confirm" /\ Frame("confirm", websocket) \in reading
                          ELSE sock[f.from] \in {"closing", "closed"}
                               /\ f \notin DOMAIN queue'.nodes
        OBVIOUS
      <3>1. Sent(f) /\ f.from \in Sockets
        BY <2>4 DEF AllSent, Received, Frames
      <3>2. signed[f.from] # Null /\ server[f.from] \in {"serving", "gone"}
        BY <3>1, SocketsAssumption DEF Sent
      <3>3. CASE f.from = websocket
        <4>1. at = "confirm" /\ f \in reading
          BY <2>4, <3>1, <3>2, <3>3 DEF SocketsOK, SocketOK
        <4>2. PICK w \in Sockets : w = websocket /\ w = f.from
          BY <3>1, <3>3
        <4>3. Frame("confirm", w) \in reading \cup OnWire(w)
          BY <4>1, <4>2 DEF Confirmed, Posts
        <4>4. Frame("confirm", w) \notin OnWire(w)
          <5>1. \A g \in OnWire(w) : g.kind # "confirm"
            BY <4>1, <4>2 DEF InOrder, Posts
          <5> QED BY <5>1, FrameIs DEF Kinds
        <4> QED BY <3>3, <4>1, <4>2, <4>3, <4>4
      <3>4. CASE f.from # websocket
        <4>1. sock[f.from] \in {"closing", "closed"}
          BY <3>1, <3>2, <3>4 DEF SocketsOK, SocketOK
        <4>2. f \notin Queued'
          BY <2>1, <2>4 DEF Apart
        <4> QED BY <3>4, <4>1, <4>2 DEF Queued
      <3> QED BY <3>3, <3>4
    <2> HIDE DEF Good
    <2>5. ASSUME NEW f \in Frames, took' = << f >>, at \in {"open", "handshake"},
                 f \in reading \cup Queued
          PROVE  Good(took'[Len(took')])
      <3>1. Len(took') = 1 /\ took'[1] = f
        BY <2>5
      <3>2. f \in Taken'
        BY <3>1 DEF Taken
      <3>3. Good(f)
        BY <2>4, <2>5, <3>2
      <3> QED BY <3>1, <3>3
    <2>6. ASSUME NEW f \in Frames, took' = Append(took, f), at \in {"sign", "confirm"},
                 f \in reading \cup Queued, at = "confirm" => f \in reading
          PROVE  Good(took'[Len(took')])
      <3>1. Len(took) = 1 /\ took \in Seq(Frames)
        BY <2>6 DEF Held, Types
      <3>2. PICK t \in Seq(Frames) : t = Append(took, f) /\ Len(t) = 2 /\ t[2] = f
        BY <3>1, OneMore
      <3>3. f \in Taken'
        BY <2>6, <3>2 DEF Taken
      <3>4. Good(f)
        BY <2>4, <2>6, <3>3
      <3> QED BY <2>6, <3>2, <3>4
    <2>7. ASSUME NEW sockets, Attempt(sockets) PROVE FALSE
      <3>1. took' = << >>
        BY <2>7 DEF Attempt
      <3> QED BY <2>2, <3>1
    <2>8. ASSUME NEW s \in Sockets, SocketOpen(s) PROVE Good(took'[Len(took')])
      <3>1. at = "open"
        BY <2>8 DEF SocketOpen, SocketsOK, SocketOK
      <3>2. queue.header # Null
        BY <2>3, <2>8 DEF SocketOpen
      <3>3. Front(queue) \in Frames /\ Front(queue) \in Queued
        BY <3>2, LinkedDequeued DEF QueueOK, Queued
      <3>4. took' = << Front(queue) >>
        BY <2>8, <3>2 DEF SocketOpen, TakeHandshake
      <3> QED BY <2>5, <3>1, <3>3, <3>4
    <2>9. CASE SignDone
      <3>1. at = "sign" /\ queue.header # Null
        BY <2>3, <2>9 DEF SignDone
      <3>2. Front(queue) \in Frames /\ Front(queue) \in Queued
        BY <3>1, LinkedDequeued DEF QueueOK, Queued
      <3>3. took' = Append(took, Front(queue))
        BY <2>9, <3>1 DEF SignDone, TakeConfirm
      <3> QED BY <2>6, <3>1, <3>2, <3>3
    <2>10. ASSUME NEW f \in reading, BlobRead(f) PROVE Good(took'[Len(took')])
      <3>1. waiter = "connect" /\ at \in {"handshake", "confirm"} /\ f \in Frames
        BY <2>3, <2>10 DEF BlobRead, Control, Listens, Types
      <3>2. Linked(queue) /\ queue.header = Null
        BY <3>1 DEF Control, Listens, QueueOK
      <3>3. Front(Enqueued(queue, f)) = f
        BY <3>1, <3>2, LinkedPassed
      <3>4. CASE at = "handshake"
        <4>1. took' = << f >>
          BY <2>10, <3>1, <3>3, <3>4 DEF BlobRead, TakeHandshake
        <4> QED BY <2>5, <3>1, <3>4, <4>1
      <3>5. CASE at = "confirm"
        <4>1. took' = Append(took, f)
          BY <2>10, <3>1, <3>3, <3>5 DEF BlobRead, TakeConfirm
        <4> QED BY <2>6, <3>1, <3>5, <4>1
      <3> QED BY <3>1, <3>4, <3>5
    <2>11. ASSUME NEW s \in Sockets, CloseEvent(s) PROVE FALSE
      BY <2>3, <2>7, <2>11 DEF CloseEvent, client
    <2>12. ASSUME NEW s \in Sockets,
                  MessageEvent(s) \/ Server(s) \/ Lose(s)
                  \/ \E k \in {"message", "receipt"} : ServerPost(s, k)
           PROVE  FALSE
      BY <2>3, <2>12 DEF MessageEvent, Server, ServerHandshake, ServerConfirm, ServerReject,
                         Lose, ServerPost, client
    <2>13. CASE Connect
      BY <2>7, <2>13 DEF Connect
    <2>14. CASE UNCHANGED vars
      BY <2>3, <2>14 DEF vars, client
    <2>15. Good(took'[Len(took')])
      BY <2>8, <2>9, <2>10, <2>11, <2>12, <2>13, <2>14 DEF Next
    <2> QED BY <2>15
  <1> QED BY <1>1, Invariance, PTL DEF Spec, SwallowedInARace

\* What taking the frame f in the place of the confirmation does to a queue whose
\* contents were c, with f the first of them: the n oldest frames are taken.
LEMMA TakeConfirmTakes ==
  ASSUME NEW c \in Seq(Frames), c # << >>, NEW rest, Linked(rest),
         Contents(rest) = Tail(c), TakeConfirm(c[1], rest)
  PROVE  \E n \in 1..Len(c) :
            /\ Contents(queue)' = SubSeq(c, n + 1, Len(c))
            /\ last' = c[n]
  <1>1. 1 \in 1..Len(c) /\ Len(c) \in 1..Len(c) /\ Len(c) \in Nat
    BY EmptySeq
  <1>2. Tail(c) = SubSeq(c, 1 + 1, Len(c)) /\ Len(Tail(c)) = Len(c) - 1
    BY <1>1, TailElements, SubSeqFromIndex, SubSeqFull
  <1>3. CASE ServerHandShake(c[1]) = Null
    <2>1. queue' = rest /\ last' = c[1]
      BY <1>3 DEF TakeConfirm
    <2>2. Contents(queue)' = SubSeq(c, 1 + 1, Len(c))
      BY <1>2, <2>1
    <2> QED BY <1>1, <2>1, <2>2
  <1>4. CASE ServerHandShake(c[1]) # Null
    <2>1. queue' = Drained(rest)
          /\ last' = IF rest.length = 0 THEN c[1] ELSE Contents(rest)[rest.length]
      BY <1>4 DEF TakeConfirm
    <2>2. Contents(queue)' = << >>
      BY <2>1, LinkedDrained
    <2>3. SubSeq(c, Len(c) + 1, Len(c)) = << >>
      BY <1>1, SubSeqEmpty
    <2>4. rest.length = Len(c) - 1
      BY <1>2, LinkedIs
    <2>5. last' = c[Len(c)]
      <3>1. CASE Len(c) = 1
        BY <2>1, <2>4, <3>1
      <3>2. CASE Len(c) # 1
        <4>1. Len(c) - 1 \in 1..Len(Tail(c)) /\ (Len(c) - 1) + 1 = Len(c) /\ rest.length # 0
          BY <1>1, <1>2, <2>4, <3>2
        <4>2. Tail(c)[Len(c) - 1] = c[(Len(c) - 1) + 1]
          BY <4>1, TailElements
        <4> QED BY <2>1, <2>4, <4>1, <4>2
      <3> QED BY <3>1, <3>2
    <2> QED BY <1>1, <2>2, <2>3, <2>5
  <1> QED BY <1>3, <1>4

\* A step of the client is a step of the queue it stands for, or none.
LEMMA StepIsFifo ==
  ASSUME Inv, [Next]_vars
  PROVE  [Abstract!Next]_<<Contents(queue), last>>
  <1> USE DEF Inv
  <1>1. PICK c \in Seq(Frames) : c = Contents(queue)
    BY DEF QueueOK, Linked
  <1>2. ASSUME UNCHANGED <<queue, last>> PROVE UNCHANGED <<Contents(queue), last>>
    BY <1>2
  <1>3. ASSUME NEW n \in 1..Len(c), Contents(queue)' = SubSeq(c, n + 1, Len(c)), last' = c[n]
        PROVE  Abstract!Next
    BY <1>1, <1>3 DEF Abstract!Next, Abstract!Take
  <1>4. ASSUME NEW f \in Frames, Contents(queue) = << >>, Contents(queue)' = << >>, last' = f
        PROVE  Abstract!Next
    BY <1>4 DEF Abstract!Next, Abstract!Pass
  <1>5. ASSUME NEW f \in Frames, Contents(queue)' = Append(c, f), last' = last
        PROVE  Abstract!Next
    BY <1>1, <1>5 DEF Abstract!Next, Abstract!Put
  <1>6. ASSUME queue.header # Null
        PROVE  /\ c # << >> /\ Front(queue) = c[1] /\ 1 \in 1..Len(c)
               /\ Linked(Dequeued(queue)) /\ Contents(Dequeued(queue)) = Tail(c)
               /\ Tail(c) = SubSeq(c, 1 + 1, Len(c))
    <2>1. c # << >> /\ Front(queue) = c[1]
          /\ Linked(Dequeued(queue)) /\ Contents(Dequeued(queue)) = Tail(c)
      BY <1>1, <1>6, LinkedDequeued DEF QueueOK
    <2>2. 1 \in 1..Len(c)
      BY <2>1, EmptySeq
    <2>3. Tail(c) = SubSeq(c, 1 + 1, Len(c))
      BY <2>2, SubSeqFromIndex, SubSeqFull
    <2> QED BY <2>1, <2>2, <2>3
  <1>7. ASSUME NEW s \in Sockets, SocketOpen(s)
        PROVE  UNCHANGED <<queue, last>> \/ Abstract!Next
    <2>1. CASE queue.header = Null
      BY <1>7, <2>1 DEF SocketOpen
    <2>2. CASE queue.header # Null
      <3>1. queue' = Dequeued(queue) /\ last' = Front(queue)
        BY <1>7, <2>2 DEF SocketOpen
      <3>2. Contents(queue)' = SubSeq(c, 1 + 1, Len(c)) /\ last' = c[1]
        BY <1>6, <2>2, <3>1
      <3> QED BY <1>3, <1>6, <2>2, <3>2
    <2> QED BY <2>1, <2>2
  <1>8. ASSUME SignDone
        PROVE  UNCHANGED <<queue, last>> \/ Abstract!Next
    <2>1. CASE queue.header = Null
      BY <1>8, <2>1 DEF SignDone
    <2>2. CASE queue.header # Null
      <3>1. TakeConfirm(c[1], Dequeued(queue))
        BY <1>6, <1>8, <2>2 DEF SignDone
      <3>2. PICK n \in 1..Len(c) :
               Contents(queue)' = SubSeq(c, n + 1, Len(c)) /\ last' = c[n]
        BY <1>6, <2>2, <3>1, TakeConfirmTakes
      <3> QED BY <1>3, <3>2
    <2> QED BY <2>1, <2>2
  <1>9. ASSUME NEW f \in reading, BlobRead(f)
        PROVE  UNCHANGED <<queue, last>> \/ Abstract!Next
    <2>1. f \in Frames /\ f \notin DOMAIN queue.nodes
      BY DEF Types, Apart, Queued
    <2>2. PICK rest : rest = Dequeued(Enqueued(queue, f))
      OBVIOUS
    <2>3. ASSUME waiter # "none"
          PROVE  Contents(queue) = << >> /\ Linked(rest) /\ Contents(rest) = << >>
                 /\ Front(Enqueued(queue, f)) = f
      <3>1. queue.header = Null /\ Linked(queue)
        BY <2>3 DEF Control, Listens, QueueOK
      <3> QED BY <2>1, <2>2, <3>1, LinkedIs, LinkedPassed
    <2>4. CASE waiter = "none"
      <3>1. queue' = Enqueued(queue, f) /\ last' = last
        BY <1>9, <2>4 DEF BlobRead
      <3>2. Contents(queue)' = Append(c, f)
        BY <1>1, <2>1, <3>1, LinkedEnqueued DEF QueueOK
      <3> QED BY <1>5, <2>1, <3>1, <3>2
    <2>5. ASSUME queue' = rest, last' = f, waiter # "none" PROVE Abstract!Next
      <3>1. Contents(queue)' = << >>
        BY <2>3, <2>5
      <3> QED BY <1>4, <2>1, <2>3, <2>5, <3>1
    <2>6. CASE waiter = "loop" \/ (waiter = "connect" /\ at = "handshake")
      <3>1. queue' = rest /\ last' = f
        BY <1>9, <2>2, <2>3, <2>6 DEF BlobRead
      <3> QED BY <2>5, <2>6, <3>1
    <2>7. CASE waiter = "connect" /\ at = "confirm"
      <3>1. TakeConfirm(f, rest)
        BY <1>9, <2>2, <2>3, <2>7 DEF BlobRead
      <3>2. Linked(rest) /\ Contents(rest) = << >> /\ rest.length = 0
        BY <2>3, <2>7, LinkedIs
      <3>3. CASE ServerHandShake(f) = Null
        BY <2>5, <2>7, <3>1, <3>3 DEF TakeConfirm
      <3>4. CASE ServerHandShake(f) # Null
        <4>1. queue' = Drained(rest) /\ last' = f
          BY <3>1, <3>2, <3>4 DEF TakeConfirm
        <4>2. Contents(queue)' = << >>
          BY <3>2, <4>1, LinkedDrained
        <4> QED BY <1>4, <2>1, <2>3, <2>7, <4>1, <4>2
      <3> QED BY <3>3, <3>4
    <2> QED BY <2>4, <2>6, <2>7 DEF Control, Listens, Types
  <1>10. ASSUME NEW sockets, Attempt(sockets) PROVE UNCHANGED <<queue, last>>
    BY <1>10 DEF Attempt
  <1>11. CASE Connect
    BY <1>2, <1>10, <1>11 DEF Connect
  <1>12. ASSUME NEW s \in Sockets, CloseEvent(s) PROVE UNCHANGED <<queue, last>>
    BY <1>10, <1>12 DEF CloseEvent, client
  <1>13. ASSUME NEW s \in Sockets,
                MessageEvent(s) \/ Server(s) \/ Lose(s)
                \/ \E k \in {"message", "receipt"} : ServerPost(s, k)
         PROVE  UNCHANGED <<queue, last>>
    BY <1>13 DEF MessageEvent, Server, ServerHandshake, ServerConfirm, ServerReject,
                 Lose, ServerPost, client
  <1>14. CASE UNCHANGED vars
    BY <1>2, <1>14 DEF vars, client
  <1> QED BY <1>2, <1>7, <1>8, <1>9, <1>11, <1>12, <1>13, <1>14 DEF Next

\* The linked list, the waiters and the reading of blobs together are a queue: what
\* the receivers get is what was queued, in that order, each frame once.
THEOREM Refinement == Spec => QueueIsFifo
  <1>1. Init => Abstract!Init
    <2>1. ASSUME Init PROVE Contents(queue) = << >> /\ last = Null
      <3>1. << >> \in Seq(Frames)
        OBVIOUS
      <3> QED BY <2>1, <3>1, EmptyLists, ListsIsLinked DEF Init
    <2> QED BY <2>1 DEF Abstract!Init
  <1>2. Inv /\ [Next]_vars => [Abstract!Next]_(Abstract!vars)
    BY StepIsFifo DEF Abstract!vars
  <1> QED BY <1>1, <1>2, Invariance, PTL DEF Spec, QueueIsFifo, Abstract!Spec

-----------------------------------------------------------------------------
(* The wire formats.                                                       *)

\* Two tables have the same numbers, a number stands in both for a field of the
\* same name and type, and no name has two numbers.
Agree(writes, reads) ==
  /\ DOMAIN writes = DOMAIN reads
  /\ \A n \in DOMAIN reads : writes[n][1] = reads[n][1] /\ writes[n][2] = reads[n][2]
  /\ \A n, k \in DOMAIN reads : reads[n][1] = reads[k][1] => n = k

\* What is written with a table is read with one that agrees.
LEMMA Agreeing ==
  ASSUME NEW writes, NEW reads, NEW object,
         Agree(writes, reads),
         object = [name \in W!Names(reads) |-> object[name]]
  PROVE  W!Deserialize(reads, W!Serialize(writes, object)) = object
  <1> DEFINE b == W!Serialize(writes, object)
  <1> DEFINE number(name) == CHOOSE i \in DOMAIN reads : reads[i][1] = name
  <1>1. \A n \in DOMAIN b : /\ n \in DOMAIN reads
                            /\ b[n].wire = W!WireType(reads[n][2])
                            /\ b[n].value = object[reads[n][1]]
    BY DEF W!Serialize, Agree
  <1>2. \A n \in DOMAIN reads : n \notin DOMAIN b => object[reads[n][1]] = W!Default(reads[n][2])
    BY DEF W!Serialize, Agree
  <1> HIDE DEF b
  <1>3. W!Readable(reads, b)
    BY <1>1 DEF W!Readable
  <1>4. ASSUME NEW name \in W!Names(reads)
        PROVE  number(name) \in DOMAIN reads /\ reads[number(name)][1] = name
    BY DEF W!Names
  <1>5. ASSUME NEW name \in W!Names(reads)
        PROVE  (IF number(name) \in DOMAIN b THEN b[number(name)].value
                ELSE W!Default(reads[number(name)][2])) = object[name]
    <2> HIDE DEF number
    <2>1. PICK n : n = number(name)
      OBVIOUS
    <2> QED BY <1>1, <1>2, <1>4, <2>1
  <1>6. W!Deserialize(reads, b) = [name \in W!Names(reads) |->
            IF number(name) \in DOMAIN b THEN b[number(name)].value
            ELSE W!Default(reads[number(name)][2])]
    BY <1>3 DEF W!Deserialize
  <1> HIDE DEF number
  <1>7. W!Deserialize(reads, b) = [name \in W!Names(reads) |-> object[name]]
    BY <1>5, <1>6
  <1> QED BY <1>7 DEF b

\* The three tables of a class agree: what the browser's generated code writes
\* the server's reads, what the server's writes the browser's reads, and what a
\* browser writes into a body another one reads, field by field, also the fields
\* that are left out of the bytes.
THEOREM WhatIsWrittenIsRead ==
  ASSUME NEW passage \in W!Passages,
         NEW object, object = [name \in W!Names(passage.reads) |-> object[name]]
  PROVE  W!Deserialize(passage.reads, W!Serialize(passage.writes, object)) = object
  <1>1. Agree(W!NewSession.writes, W!NewSession.reads)
    BY DEF Agree, W!NewSession
  <1>2. /\ Agree(W!SignedMsg.writes, W!SignedMsg.reads)
        /\ Agree(W!SignedMsg.writes, W!GoSignedMsg)
        /\ Agree(W!GoSignedMsg, W!SignedMsg.reads)
    BY DEF Agree, W!SignedMsg, W!GoSignedMsg
  <1>3. Agree(W!MessagePack.writes, W!MessagePack.reads)
    BY DEF Agree, W!MessagePack
  <1>4. Agree(W!Message.writes, W!Message.reads)
    BY DEF Agree, W!Message
  <1>5. Agree(W!ReceiptPack.writes, W!ReceiptPack.reads)
    BY DEF Agree, W!ReceiptPack
  <1>6. Agree(W!MsgReceipt.writes, W!MsgReceipt.reads)
    BY DEF Agree, W!MsgReceipt
  <1>7. Agree(W!Error.writes, W!Error.reads) /\ Agree(W!GoError, W!Error.reads)
    BY DEF Agree, W!Error, W!GoError
  <1>8. Agree(W!Notification.writes, W!Notification.reads)
    BY DEF Agree, W!Notification
  <1>9. /\ Agree(W!ClientHandShake.writes, W!ClientHandShake.reads)
        /\ Agree(W!ClientHandShake.writes, W!GoClientHandShake)
    BY DEF Agree, W!ClientHandShake, W!GoClientHandShake
  <1>10. /\ Agree(W!ServerHandShake.writes, W!ServerHandShake.reads)
         /\ Agree(W!GoServerHandShake, W!ServerHandShake.reads)
    BY DEF Agree, W!ServerHandShake, W!GoServerHandShake
  <1>11. /\ Agree(W!SignIn.writes, W!SignIn.reads)
         /\ Agree(W!SignIn.writes, W!GoSignIn)
    BY DEF Agree, W!SignIn, W!GoSignIn
  <1>12. Agree(passage.writes, passage.reads)
    BY <1>1, <1>2, <1>3, <1>4, <1>5, <1>6, <1>7, <1>8, <1>9, <1>10, <1>11 DEF W!Passages
  <1> QED BY <1>12, Agreeing

=============================================================================

------------------------- MODULE Messaging_proofs ---------------------------
(***************************************************************************)
(* Proofs about Messaging for any number of keys, user objects,            *)
(* connections and messages.                                               *)
(***************************************************************************)
EXTENDS Messaging, SequenceTheorems, TLAPS

Parcel == Message \cup Error

-----------------------------------------------------------------------------
(* The invariants *)

\* Who signed in where: the registry holds objects of their keys, a user object's
\* session belongs to its key, and so does every connection a session has had.
Identity ==
    /\ \A k \in Keys : registry[k] # Nil => KeyOf[registry[k]] = k
    /\ \A c \in Conns : handler[c] = "idle" <=> user[c] = Nil
    /\ \A u \in Users :
         slot[u] # Nil => handler[slot[u]] = "done" /\ Owner[slot[u]] = KeyOf[u]
    /\ \A l \in Loop :
         /\ recv[l].at = "none" <=> send[l].at = "none"
         /\ recv[l].at # "none" =>
              Owner[l[1]] # Nil /\ Owner[l[2]] = Owner[l[1]]
    /\ \A s \in Conns : connection[s] # s => recv[<<s, connection[s]>>].at # "none"
    /\ \A s, c \in Conns :
         c # s /\ (connection[s] = s \/ handler[c] # "done") => recv[<<s, c>>].at = "none"

\* A message that says truly who sent it.
Genuine(m) == m.from # Nil /\ m.from = Owner[m.via]

\* What the loops and the channels hold.
RecvHolds ==
    \A l \in Loop :
      /\ recv[l].msg = Nil <=> recv[l].at \in {"none", "read", "end"}
      /\ recv[l].msg # Nil => Owner[recv[l].msg.via] = Owner[l[1]]
      /\ recv[l].at \in {"lookup", "adding"} => recv[l].msg.from = Owner[l[1]]
      /\ recv[l].at = "adding" =>
           recv[l].to # Nil /\ KeyOf[recv[l].to] = recv[l].msg.to
ChannelsHold ==
    \A u \in Users : \A i \in 1..Len(chPost[u]) :
      /\ chPost[u][i].to = KeyOf[u]
      /\ chPost[u][i].via # Nil => Genuine(chPost[u][i])
SendHolds ==
    \A l \in Loop :
      /\ send[l].msg = Nil <=> send[l].at \in {"none", "take", "end"}
      /\ send[l].msg # Nil => send[l].msg.to = Owner[l[1]]
      /\ send[l].msg # Nil /\ send[l].msg.via # Nil => Genuine(send[l].msg)
      /\ send[l].at = "write" => send[l].msg.via # Nil
Contents == RecvHolds /\ ChannelsHold /\ SendHolds

\* The number of a message, 0 for none and for an error.
IdOf(x) == IF x = Nil THEN 0 ELSE x.id

\* A message is in one place only.
Bounded ==
    /\ \A l \in Loop : IdOf(recv[l].msg) <= sent /\ IdOf(send[l].msg) <= sent
    /\ \A u \in Users : \A i \in 1..Len(chPost[u]) : IdOf(chPost[u][i]) <= sent
HandsDiffer ==
    /\ \A l, m \in Loop : IdOf(recv[l].msg) # 0 =>
         /\ l # m => IdOf(recv[l].msg) # IdOf(recv[m].msg)
         /\ IdOf(recv[l].msg) # IdOf(send[m].msg)
    /\ \A l, m \in Loop : l # m /\ IdOf(send[l].msg) # 0 =>
         IdOf(send[l].msg) # IdOf(send[m].msg)
ChannelsDiffer ==
    \A u \in Users : \A i \in 1..Len(chPost[u]) : IdOf(chPost[u][i]) # 0 =>
      /\ \A l \in Loop : /\ IdOf(chPost[u][i]) # IdOf(recv[l].msg)
                         /\ IdOf(chPost[u][i]) # IdOf(send[l].msg)
      /\ \A v \in Users : \A j \in 1..Len(chPost[v]) :
           IdOf(chPost[u][i]) = IdOf(chPost[v][j]) => u = v /\ i = j
Unique == Bounded /\ HandsDiffer /\ ChannelsDiffer

\* A session that has joined another connection has closed its own.
MovedClosed == \A s \in Conns : connection[s] # s => conn[s] = "closed"

\* x was read from connection d before y was, if both are messages from d.
Of(d, x) == x # Nil /\ x.via = d
Before(d, x, y) == Of(d, x) /\ Of(d, y) => x.id < y.id

\* The messages of connection d are in order on their way through the hand of its
\* recv loop, a channel and the hands of its send loops.
OnTheWay(d) ==
    /\ \A l \in Loop : Of(d, recv[l].msg) => l = <<d, d>>
    /\ \A u \in Users : \A i, j \in 1..Len(chPost[u]) :
         i < j => Before(d, chPost[u][i], chPost[u][j])
    /\ \A u \in Users : \A i \in 1..Len(chPost[u]) : \A l \in Loop :
         /\ Before(d, chPost[u][i], recv[l].msg)
         /\ Own(l) = u => Before(d, send[l].msg, chPost[u][i])
    /\ \A l, n \in Loop : Before(d, send[l].msg, recv[n].msg)

\* What has arrived at connection c comes before what is on its way to it.
ArrivedFrom(c, d) ==
    /\ \A i, j \in 1..Len(arrived[c]) : i < j => Before(d, arrived[c][i], arrived[c][j])
    /\ \A i \in 1..Len(arrived[c]) :
         /\ \A l \in Loop : Before(d, arrived[c][i], recv[l].msg)
         /\ Before(d, arrived[c][i], send[<<c, c>>].msg)
         /\ \A u \in Users : user[c] = u =>
              \A j \in 1..Len(chPost[u]) : Before(d, arrived[c][i], chPost[u][j])

Arrivals ==
    \A c \in Conns :
      /\ arrived[c] # << >> => user[c] # Nil
      /\ \A i \in 1..Len(arrived[c]) :
           arrived[c][i] \in Message /\ arrived[c][i].id <= sent

Lined ==
    /\ MovedClosed /\ Arrivals
    /\ \A d \in Conns : Alone(d) => OnTheWay(d)
    /\ \A c, d \in Conns : Alone(c) /\ Alone(d) => ArrivedFrom(c, d)

-----------------------------------------------------------------------------
(* Channels *)

\* What Post does to the channels.
LEMMA PostEffect ==
  ASSUME TypeOK, NEW u \in Users, NEW m \in Parcel, Post(u, m)
  PROVE  /\ chPost' \in [Users -> Seq(Parcel)]
         /\ \A v \in Users : Len(chPost'[v]) <= Capacity
         /\ \A v \in Users : v # u => chPost'[v] = chPost[v]
         /\ ~Room(u) => chPost' = chPost
         /\ Room(u) =>
              /\ Len(chPost'[u]) = Len(chPost[u]) + 1
              /\ chPost'[u][Len(chPost[u]) + 1] = m
              /\ \A i \in 1..Len(chPost[u]) : chPost'[u][i] = chPost[u][i]
<1>1. chPost \in [Users -> Seq(Parcel)] /\ \A v \in Users : Len(chPost[v]) <= Capacity
  BY DEF TypeOK, Parcel
<1>2. CASE ~Room(u)
  BY <1>1, <1>2 DEF Post
<1>3. CASE Room(u)
  <2> DEFINE q == chPost[u]
             r == Append(chPost[u], m)
  <2>1. q \in Seq(Parcel) /\ Len(q) \in Nat
    BY <1>1, LenProperties
  <2>2. /\ r \in Seq(Parcel)
        /\ Len(r) = Len(q) + 1
        /\ \A i \in 1..Len(q) : r[i] = q[i]
        /\ r[Len(q) + 1] = m
    BY <2>1, AppendProperties
  <2>3. chPost' = [chPost EXCEPT ![u] = r]
    BY <1>3 DEF Post
  <2> HIDE DEF r
  <2>4. chPost'[u] = r /\ \A v \in Users : v # u => chPost'[v] = chPost[v]
    BY <1>1, <2>3
  <2>5. chPost' \in [Users -> Seq(Parcel)]
    BY <1>1, <2>2, <2>3
  <2>6. Len(chPost'[u]) <= Capacity
    BY <1>3, <2>1, <2>2, <2>4, CapacityAssumption DEF Room
  <2> QED BY <1>1, <1>3, <2>2, <2>4, <2>5, <2>6
<1> QED BY <1>2, <1>3

\* What the receive of send does to them.
LEMMA TakeEffect ==
  ASSUME TypeOK, NEW u \in Users, chPost[u] # << >>,
         chPost' = [chPost EXCEPT ![u] = Tail(@)]
  PROVE  /\ Head(chPost[u]) \in Parcel
         /\ Head(chPost[u]) = chPost[u][1]
         /\ chPost' \in [Users -> Seq(Parcel)]
         /\ \A v \in Users : Len(chPost'[v]) <= Capacity
         /\ \A v \in Users : v # u => chPost'[v] = chPost[v]
         /\ Len(chPost[u]) >= 1
         /\ Len(chPost'[u]) = Len(chPost[u]) - 1
         /\ \A i \in 1..(Len(chPost[u]) - 1) : chPost'[u][i] = chPost[u][i + 1]
<1>1. chPost \in [Users -> Seq(Parcel)] /\ \A v \in Users : Len(chPost[v]) <= Capacity
  BY DEF TypeOK, Parcel
<1> DEFINE q == chPost[u]
           r == Tail(chPost[u])
<1>2. q \in Seq(Parcel) /\ Len(q) \in Nat /\ q # << >>
  BY <1>1, LenProperties
<1>3. /\ Head(q) \in Parcel
      /\ r \in Seq(Parcel)
      /\ Len(r) = Len(q) - 1
      /\ \A i \in 1..Len(r) : r[i] = q[i + 1]
  BY <1>2, HeadTailProperties
<1>4. Len(q) >= 1 /\ Head(q) = q[1]
  BY <1>2, EmptySeq, SMT
<1> HIDE DEF r
<1>5. chPost' = [chPost EXCEPT ![u] = r]
  BY DEF r
<1>6. chPost'[u] = r /\ \A v \in Users : v # u => chPost'[v] = chPost[v]
  BY <1>1, <1>5
<1>7. chPost' \in [Users -> Seq(Parcel)]
  BY <1>1, <1>3, <1>5
<1>8. Len(chPost'[u]) <= Capacity
  BY <1>1, <1>2, <1>3, <1>6, CapacityAssumption
<1> QED BY <1>1, <1>3, <1>4, <1>6, <1>7, <1>8



-----------------------------------------------------------------------------
(* Types *)

\* A loop is a pair of connections.
LEMMA Pairs ==
  /\ \A l \in Loop : l[1] \in Conns /\ l[2] \in Conns /\ l = <<l[1], l[2]>>
  /\ \A s, c \in Conns : /\ <<s, c>> \in Loop
                         /\ <<s, c>>[1] = s
                         /\ <<s, c>>[2] = c
BY DEF Loop

\* The owner of a connection.
LEMMA Owners ==
  ASSUME TypeOK
  PROVE  /\ \A c \in Conns : Owner[c] = IF user[c] = Nil THEN Nil ELSE KeyOf[user[c]]
         /\ \A c \in Conns : Owner[c] \in Keys \cup {Nil}
         /\ \A c \in Conns : Owner[c] # Nil <=> user[c] # Nil
         /\ \A l \in Loop : Owner[l[1]] # Nil =>
              Own(l) \in Users /\ Owner[l[1]] = KeyOf[Own(l)]
BY Pairs, NilAssumption, KeyOfAssumption DEF TypeOK, Owner, Own

LEMMA TypeInit == Init => TypeOK
<1> SUFFICES ASSUME Init PROVE TypeOK
  OBVIOUS
<1>1. \A u \in Users : chPost[u] = << >> /\ Len(chPost[u]) = 0
  BY EmptySeq DEF Init
<1>2. /\ chPost \in [Users -> Seq(Message \cup Error)]
      /\ arrived \in [Conns -> Seq(Message \cup Error)]
  BY EmptySeq DEF Init
<1>3. /\ recv \in [Loop -> [at : RecvPlace, msg : Message \cup {Nil}, to : Users \cup {Nil}]]
      /\ send \in [Loop -> [at : SendPlace, msg : Message \cup Error \cup {Nil}]]
  BY DEF Init, RecvPlace, SendPlace
<1>4. sent \in 0..MaxSent
  BY MaxSentAssumption DEF Init
<1>5. \A u \in Users : Len(chPost[u]) <= Capacity
  BY <1>1, CapacityAssumption
<1> QED BY <1>2, <1>3, <1>4, <1>5 DEF Init, TypeOK

\* The parts of a loop's record.
LEMMA LoopParts ==
  ASSUME TypeOK, NEW l \in Loop
  PROVE  /\ recv[l].at \in RecvPlace /\ recv[l].msg \in Message \cup {Nil}
         /\ recv[l].to \in Users \cup {Nil}
         /\ send[l].at \in SendPlace /\ send[l].msg \in Message \cup Error \cup {Nil}
BY DEF TypeOK


Sound == TypeOK /\ Identity /\ Contents

-----------------------------------------------------------------------------
(* What the actions do, loop by loop *)

\* What Start(c) does: connection c gets its owner and its loops.
Started(c) ==
    /\ TypeOK'
    /\ user[c] = Nil /\ user'[c] \in Users /\ handler'[c] = "lookup"
    /\ \A d \in Conns : d # c => user'[d] = user[d] /\ handler'[d] = handler[d]
    /\ recv[<<c, c>>].at = "none" /\ send[<<c, c>>].at = "none"
    /\ recv'[<<c, c>>].at = "read" /\ send'[<<c, c>>].at = "take"
    /\ \A l \in Loop : recv'[l].msg = recv[l].msg /\ recv'[l].to = recv[l].to
    /\ \A l \in Loop : send'[l].msg = send[l].msg
    /\ \A l \in Loop : l # <<c, c>> => recv'[l] = recv[l] /\ send'[l] = send[l]
    /\ UNCHANGED <<users, chPost, connection, guest, sent, crashed, arrived>>

LEMMA StartStep ==
  ASSUME TypeOK, Identity, NEW c \in Conns, Start(c)
  PROVE  Started(c)
<1> DEFINE l == <<c, c>>
<1>1. l \in Loop /\ l[1] = c
  BY Pairs
<1>2. user[c] = Nil /\ recv[l].at = "none" /\ send[l].at = "none"
  BY <1>1, Owners DEF Start, Identity
<1> HIDE DEF l
<1>3. recv' = [recv EXCEPT ![l].at = "read"] /\ send' = [send EXCEPT ![l].at = "take"]
  BY DEF Start, l
<1>4. PICK k \in Keys : registry[k] # Nil /\ user' = [user EXCEPT ![c] = registry[k]]
  BY DEF Start
<1>5. registry[k] \in Users
  BY <1>4 DEF TypeOK
<1>6. /\ user' \in [Conns -> Users \cup {Nil}] /\ user'[c] \in Users
      /\ \A d \in Conns : d # c => user'[d] = user[d]
  BY <1>4, <1>5 DEF TypeOK
<1>7. /\ handler' \in [Conns -> {"idle", "lookup", "done"}] /\ handler'[c] = "lookup"
      /\ \A d \in Conns : d # c => handler'[d] = handler[d]
      /\ conn' \in [Conns -> {"free", "open", "closed"}]
  BY DEF Start, TypeOK
<1>8. /\ recv' \in [Loop -> [at : RecvPlace, msg : Message \cup {Nil}, to : Users \cup {Nil}]]
      /\ recv'[l].at = "read" /\ recv'[l].msg = recv[l].msg /\ recv'[l].to = recv[l].to
      /\ \A m \in Loop : m # l => recv'[m] = recv[m]
  BY <1>1, <1>3 DEF TypeOK, RecvPlace
<1>9. /\ send' \in [Loop -> [at : SendPlace, msg : Message \cup Error \cup {Nil}]]
      /\ send'[l].at = "take" /\ send'[l].msg = send[l].msg
      /\ \A m \in Loop : m # l => send'[m] = send[m]
  BY <1>1, <1>3 DEF TypeOK, SendPlace
<1>10. UNCHANGED <<users, chPost, connection, guest, sent, crashed, arrived>>
  BY DEF Start
<1>11. TypeOK'
  BY <1>6, <1>7, <1>8, <1>9, <1>10 DEF TypeOK, users
<1> QED BY <1>2, <1>6, <1>7, <1>8, <1>9, <1>10, <1>11 DEF l, Started

\* What Serve(c) does: nothing, c becomes a user object's session, or a session joins c.
Attached(c) ==
    /\ TypeOK'
    /\ handler[c] = "lookup" /\ handler'[c] = "done" /\ user[c] # Nil
    /\ \A d \in Conns : d # c => handler'[d] = handler[d]
    /\ \A l \in Loop : recv'[l].msg = recv[l].msg /\ recv'[l].to = recv[l].to
    /\ \A l \in Loop : send'[l].msg = send[l].msg
    /\ UNCHANGED <<made, registry, chPost, user, guest, sent, crashed, arrived>>
    /\ \/ /\ UNCHANGED <<slot, connection, loops>>
       \/ \E u \in Users :
            /\ KeyOf[u] = Owner[c] /\ slot'[u] = c
            /\ \A v \in Users : v # u => slot'[v] = slot[v]
            /\ UNCHANGED <<connection, loops>>
       \/ \E s \in Conns :
            /\ s # c /\ Owner[s] = Owner[c] /\ handler[s] = "done"
            /\ recv[<<s, c>>].at = "none" /\ send[<<s, c>>].at = "none"
            /\ connection'[s] = c
            /\ \A d \in Conns : d # s => connection'[d] = connection[d]
            /\ recv'[<<s, c>>].at = "read" /\ send'[<<s, c>>].at = "take"
            /\ \A l \in Loop :
                 l # <<s, c>> => recv'[l] = recv[l] /\ send'[l] = send[l]
            /\ UNCHANGED slot

LEMMA ServeStep ==
  ASSUME TypeOK, Identity, NEW c \in Conns, Serve(c)
  PROVE  Attached(c)
<1>1. handler[c] = "lookup" /\ user[c] # Nil /\ user[c] \in Users
  BY DEF Serve, Identity, TypeOK
<1>2. KeyOf[user[c]] \in Keys /\ Owner[c] = KeyOf[user[c]]
  BY <1>1, KeyOfAssumption, Owners
<1>3. /\ handler' \in [Conns -> {"idle", "lookup", "done"}] /\ handler'[c] = "done"
      /\ \A d \in Conns : d # c => handler'[d] = handler[d]
      /\ UNCHANGED <<made, registry, chPost, user, guest, sent, crashed, arrived>>
  BY DEF Serve, TypeOK
<1> DEFINE u == registry[KeyOf[user[c]]]
<1>4. u \in Users \cup {Nil} /\ (u # Nil => KeyOf[u] = Owner[c])
  BY <1>2 DEF TypeOK, Identity
<1>5. CASE u = Nil
  <2>1. UNCHANGED <<slot, connection, conn, loops>>
    BY <1>5 DEF Serve
  <2> QED BY <2>1, <1>1, <1>3 DEF TypeOK, loops, Attached
<1>6. CASE u # Nil /\ slot[u] = Nil
  <2>1. slot' = [slot EXCEPT ![u] = c] /\ UNCHANGED <<connection, conn, loops>>
    BY <1>6 DEF Serve
  <2>2. /\ slot' \in [Users -> Conns \cup {Nil}] /\ slot'[u] = c
        /\ \A v \in Users : v # u => slot'[v] = slot[v]
    BY <1>4, <1>6, <2>1 DEF TypeOK
  <2>3. TypeOK'
    BY <1>3, <2>1, <2>2 DEF TypeOK, loops
  <2> HIDE DEF u
  <2> QED BY <1>1, <1>3, <1>4, <1>6, <2>1, <2>2, <2>3 DEF loops, Attached
<1>7. CASE u # Nil /\ slot[u] # Nil
  <2> DEFINE s == slot[u]
             l == <<s, c>>
  <2>1. Join(s, c)
    BY <1>7 DEF Serve
  <2>2. s \in Conns /\ handler[s] = "done" /\ Owner[s] = Owner[c] /\ s # c
    BY <1>1, <1>4, <1>7 DEF TypeOK, Identity
  <2>3. l \in Loop
    BY <2>2, Pairs
  <2> HIDE DEF s, u
  <2>4. /\ connection' \in [Conns -> Conns] /\ connection'[s] = c
        /\ \A d \in Conns : d # s => connection'[d] = connection[d]
        /\ UNCHANGED slot
        /\ conn' \in [Conns -> {"free", "open", "closed"}]
    BY <2>1, <2>2 DEF Join, Closed, TypeOK
  <2>5. recv' = [recv EXCEPT ![l].at = "read"] /\ send' = [send EXCEPT ![l].at = "take"]
    BY <2>1 DEF Join
  <2> HIDE DEF l
  <2>6. /\ recv' \in [Loop -> [at : RecvPlace, msg : Message \cup {Nil}, to : Users \cup {Nil}]]
        /\ recv'[l].at = "read" /\ recv'[l].msg = recv[l].msg /\ recv'[l].to = recv[l].to
        /\ \A m \in Loop : m # l => recv'[m] = recv[m]
    BY <2>3, <2>5 DEF TypeOK, RecvPlace
  <2>7. /\ send' \in [Loop -> [at : SendPlace, msg : Message \cup Error \cup {Nil}]]
        /\ send'[l].at = "take" /\ send'[l].msg = send[l].msg
        /\ \A m \in Loop : m # l => send'[m] = send[m]
    BY <2>3, <2>5 DEF TypeOK, SendPlace
  <2>8. TypeOK'
    BY <1>3, <2>4, <2>6, <2>7 DEF TypeOK
  <2>9. recv[l].at = "none" /\ send[l].at = "none"
    BY <1>1, <2>2, <2>3 DEF Identity, l
  <2> QED BY <1>1, <1>3, <2>2, <2>4, <2>6, <2>7, <2>8, <2>9 DEF l, Attached
<1> QED BY <1>5, <1>6, <1>7

\* What RecvRead(l) does.
HasRead(l) ==
    /\ TypeOK'
    /\ recv[l].at = "read" /\ recv[l].msg = Nil /\ Own(l) \in Users
    /\ sent' = sent + 1
    /\ \E m \in Message :
         /\ m.id = sent + 1 /\ Owner[m.via] = Owner[l[1]] /\ conn[m.via] = "open"
         /\ recv[<<l[1], m.via>>].at # "none"
         /\ recv'[l].msg = m
         /\ recv'[l].at = IF m.from = Owner[l[1]] THEN "lookup" ELSE "refuse"
    /\ \A m \in Loop : m # l => recv'[m] = recv[m]
    /\ UNCHANGED <<users, chPost, sockets, send, guest, crashed, arrived>>

LEMMA ReadStep ==
  ASSUME Sound, NEW l \in Loop, RecvRead(l)
  PROVE  HasRead(l)
<1>1. TypeOK /\ Identity /\ Contents
  BY DEF Sound
<1>2. /\ recv[l].at = "read" /\ sent < MaxSent /\ sent' = sent + 1
      /\ UNCHANGED <<users, chPost, sockets, send, guest, crashed, arrived>>
  BY DEF RecvRead
<1>3. recv[l].msg = Nil /\ Owner[l[1]] # Nil
  BY <1>1, <1>2 DEF Contents, RecvHolds, Identity
<1>4. Own(l) \in Users /\ KeyOf[Own(l)] = Owner[l[1]] /\ Owner[l[1]] \in Keys
  BY <1>1, <1>3, Owners, Pairs, KeyOfAssumption
<1>5. PICK c \in Had(l[1]), k \in Keys, from \in {KeyOf[Own(l)]} \cup Bad :
         /\ conn[c] = "open"
         /\ recv' = [recv EXCEPT
                   ![l].msg = [id |-> sent + 1, from |-> from, to |-> k, via |-> c],
                   ![l].at = IF VerifyMsg(l, from) THEN "lookup" ELSE "refuse"]
  BY DEF RecvRead
<1> DEFINE m == [id |-> sent + 1, from |-> from, to |-> k, via |-> c]
           p == IF from = Owner[l[1]] THEN "lookup" ELSE "refuse"
<1>6. c \in Conns /\ recv[<<l[1], c>>].at # "none" /\ Owner[c] = Owner[l[1]]
  <2>1. c \in Conns /\ recv[<<l[1], c>>].at # "none"
    BY DEF Had
  <2>2. <<l[1], c>> \in Loop /\ <<l[1], c>>[1] = l[1] /\ <<l[1], c>>[2] = c
    BY <2>1, Pairs
  <2> QED BY <1>1, <2>1, <2>2 DEF Identity
<1>7. from \in Keys \cup {Nil}
  BY <1>4 DEF Bad
<1>8. sent + 1 \in Ids /\ sent \in Nat
  BY <1>1, <1>2, MaxSentAssumption DEF TypeOK, Ids
<1>9. /\ m \in Message /\ m.id = sent + 1 /\ m.via = c
      /\ m.from = from
  BY <1>6, <1>7, <1>8 DEF Message
<1>10. p \in RecvPlace
  BY DEF RecvPlace
<1>11. VerifyMsg(l, from) <=> from = Owner[l[1]]
  BY <1>4 DEF VerifyMsg
<1>12. recv' = [recv EXCEPT ![l].msg = m, ![l].at = p]
  BY <1>5, <1>11
<1> HIDE DEF m, p
<1>13. /\ recv' \in [Loop -> [at : RecvPlace, msg : Message \cup {Nil}, to : Users \cup {Nil}]]
       /\ recv'[l] = [at |-> p, msg |-> m, to |-> recv[l].to]
       /\ \A n \in Loop : n # l => recv'[n] = recv[n]
  BY <1>1, <1>9, <1>10, <1>12 DEF TypeOK
<1>14. sent' \in 0..MaxSent
  BY <1>2, <1>8 DEF Ids
<1>17. conn[c] = "open"
  BY <1>5
<1>16. recv'[l].at = p /\ recv'[l].msg = m
  BY <1>13
<1>15. TypeOK'
  BY <1>1, <1>2, <1>13, <1>14 DEF TypeOK, users, sockets
<1> QED BY <1>2, <1>3, <1>4, <1>6, <1>9, <1>13, <1>15, <1>16, <1>17 DEF p, HasRead

\* What RecvLookup(l) does.
HasLookedUp(l) ==
    /\ TypeOK'
    /\ recv[l].at = "lookup" /\ recv[l].msg \in Message /\ Own(l) \in Users
    /\ recv'[l].msg = recv[l].msg
    /\ \/ recv'[l].at = "refuse" /\ recv'[l].to = recv[l].to /\ UNCHANGED crashed
       \/ /\ recv'[l].at = "adding"
          /\ recv'[l].to \in Users /\ KeyOf[recv'[l].to] = recv[l].msg.to
          /\ crashed' = FALSE \/ crashed' = Adding(Own(l))
    /\ \A m \in Loop : m # l => recv'[m] = recv[m]
    /\ UNCHANGED <<users, chPost, sockets, send, guest, sent, arrived>>

LEMMA LookupStep ==
  ASSUME Sound, NEW l \in Loop, RecvLookup(l)
  PROVE  HasLookedUp(l)
<1>1. TypeOK /\ Identity /\ Contents
  BY DEF Sound
<1>2. /\ recv[l].at = "lookup"
      /\ UNCHANGED <<users, chPost, sockets, send, guest, sent, arrived>>
  BY DEF RecvLookup
<1>3. recv[l].msg \in Message /\ Owner[l[1]] # Nil
  BY <1>1, <1>2, LoopParts DEF Contents, RecvHolds, Identity
<1>4. Own(l) \in Users
  BY <1>1, <1>3, Owners
<1>5. recv[l].msg.to \in Keys
  BY <1>3 DEF Message
<1> DEFINE u == registry[recv[l].msg.to]
<1>6. u \in Users \cup {Nil} /\ (u # Nil => u \in Users /\ KeyOf[u] = recv[l].msg.to)
  BY <1>1, <1>5, NilAssumption DEF TypeOK, Identity
<1>7. GetUser(recv[l].msg.to) = u
  BY <1>5 DEF GetUser
<1>8. CASE u = Nil
  <2>1. recv' = [recv EXCEPT ![l].at = "refuse"] /\ UNCHANGED crashed
    BY <1>7, <1>8 DEF RecvLookup, RecvAt
  <2>2. /\ recv' \in [Loop -> [at : RecvPlace, msg : Message \cup {Nil}, to : Users \cup {Nil}]]
        /\ recv'[l].at = "refuse" /\ recv'[l].msg = recv[l].msg
        /\ recv'[l].to = recv[l].to
        /\ \A n \in Loop : n # l => recv'[n] = recv[n]
    BY <1>1, <2>1 DEF TypeOK, RecvPlace
  <2>3. TypeOK'
    BY <1>1, <1>2, <2>1, <2>2 DEF TypeOK, users, sockets
  <2> QED BY <1>2, <1>3, <1>4, <2>1, <2>2, <2>3 DEF HasLookedUp
<1>9. CASE u # Nil
  <2>1. /\ recv' = [recv EXCEPT ![l].to = u, ![l].at = "adding"]
        /\ crashed' \in {FALSE, Adding(Own(l))}
    BY <1>7, <1>9 DEF RecvLookup
  <2> HIDE DEF u
  <2>2. /\ recv' \in [Loop -> [at : RecvPlace, msg : Message \cup {Nil}, to : Users \cup {Nil}]]
        /\ recv'[l].at = "adding" /\ recv'[l].msg = recv[l].msg /\ recv'[l].to = u
        /\ \A n \in Loop : n # l => recv'[n] = recv[n]
    <3>1. u \in Users /\ recv \in [Loop -> [at : RecvPlace, msg : Message \cup {Nil},
                                            to : Users \cup {Nil}]]
      BY <1>1, <1>6, <1>9 DEF TypeOK
    <3> QED BY <2>1, <3>1 DEF RecvPlace
  <2>3. crashed' = FALSE \/ crashed' = Adding(Own(l))
    BY <2>1
  <2>4. Adding(Own(l)) \in BOOLEAN
    BY DEF Adding
  <2>5. crashed' \in BOOLEAN
    BY <2>3, <2>4, Zenon
  <2>6. TypeOK'
    BY <1>1, <1>2, <2>2, <2>5 DEF TypeOK, users, sockets
  <2> QED BY <1>2, <1>3, <1>4, <1>6, <1>9, <2>2, <2>3, <2>6 DEF HasLookedUp
<1> QED BY <1>8, <1>9

\* What RecvPost(l) does.
HasPosted(l) ==
    /\ TypeOK'
    /\ recv[l].at = "adding" /\ recv[l].msg \in Message
    /\ recv[l].to \in Users /\ KeyOf[recv[l].to] = recv[l].msg.to
    /\ Post(recv[l].to, recv[l].msg)
    /\ Room(recv[l].to) => recv'[l].at = "read" /\ recv'[l].msg = Nil
    /\ ~Room(recv[l].to) => /\ recv'[l].at = "refuse" /\ recv'[l].to = recv[l].to
                            /\ recv'[l].msg = recv[l].msg
    /\ \A m \in Loop : m # l => recv'[m] = recv[m]
    /\ UNCHANGED <<users, sockets, send, guest, sent, crashed, arrived>>

LEMMA PostStep ==
  ASSUME Sound, NEW l \in Loop, RecvPost(l)
  PROVE  HasPosted(l)
<1>1. TypeOK /\ Identity /\ Contents
  BY DEF Sound
<1>2. /\ recv[l].at = "adding"
      /\ Post(recv[l].to, recv[l].msg)
      /\ UNCHANGED <<users, sockets, send, guest, sent, crashed, arrived>>
  BY DEF RecvPost
<1>3. /\ recv[l].msg \in Message
      /\ recv[l].to \in Users /\ KeyOf[recv[l].to] = recv[l].msg.to
  BY <1>1, <1>2, LoopParts DEF Contents, RecvHolds
<1>4. /\ recv' \in [Loop -> [at : RecvPlace, msg : Message \cup {Nil}, to : Users \cup {Nil}]]
      /\ Room(recv[l].to) => recv'[l].at = "read" /\ recv'[l].msg = Nil
      /\ ~Room(recv[l].to) => /\ recv'[l].at = "refuse" /\ recv'[l].to = recv[l].to
                              /\ recv'[l].msg = recv[l].msg
      /\ \A n \in Loop : n # l => recv'[n] = recv[n]
  <2>1. CASE Room(recv[l].to)
    <3>1. recv' = [recv EXCEPT ![l] = AtRead]
      BY <2>1 DEF RecvPost
    <3>2. /\ recv' \in [Loop -> [at : RecvPlace, msg : Message \cup {Nil},
                                  to : Users \cup {Nil}]]
          /\ recv'[l].at = "read" /\ recv'[l].msg = Nil
          /\ \A n \in Loop : n # l => recv'[n] = recv[n]
      BY <1>1, <3>1 DEF TypeOK, RecvPlace, AtRead
    <3> QED BY <2>1, <3>2
  <2>2. CASE ~Room(recv[l].to)
    <3>1. recv' = [recv EXCEPT ![l].at = "refuse"]
      BY <2>2 DEF RecvPost, RecvAt
    <3>2. /\ recv' \in [Loop -> [at : RecvPlace, msg : Message \cup {Nil},
                                  to : Users \cup {Nil}]]
          /\ recv'[l].at = "refuse" /\ recv'[l].to = recv[l].to
          /\ recv'[l].msg = recv[l].msg
          /\ \A n \in Loop : n # l => recv'[n] = recv[n]
      BY <1>1, <3>1 DEF TypeOK, RecvPlace
    <3> QED BY <2>2, <3>2
  <2> QED BY <2>1, <2>2
<1>5. /\ chPost' \in [Users -> Seq(Message \cup Error)]
      /\ \A v \in Users : Len(chPost'[v]) <= Capacity
  BY <1>1, <1>2, <1>3, PostEffect DEF Parcel
<1>6. TypeOK'
  BY <1>1, <1>2, <1>4, <1>5 DEF TypeOK, users, sockets
<1> QED BY <1>2, <1>3, <1>4, <1>6 DEF HasPosted

\* What RecvRefuse(l) does.
HasRefused(l) ==
    /\ TypeOK'
    /\ recv[l].at = "refuse" /\ recv[l].msg \in Message
    /\ Own(l) \in Users
    /\ \E m \in Error : m.to = KeyOf[Own(l)] /\ Post(Own(l), m)
    /\ recv'[l].at = "read" /\ recv'[l].msg = Nil
    /\ \A m \in Loop : m # l => recv'[m] = recv[m]
    /\ UNCHANGED <<users, sockets, send, guest, sent, crashed, arrived>>

LEMMA RefuseStep ==
  ASSUME Sound, NEW l \in Loop, RecvRefuse(l)
  PROVE  HasRefused(l)
<1>1. TypeOK /\ Identity /\ Contents
  BY DEF Sound
<1> DEFINE m == [id |-> 0, from |-> Nil, to |-> KeyOf[Own(l)], via |-> Nil]
<1>2. /\ recv[l].at = "refuse" /\ Post(Own(l), m)
      /\ recv' = [recv EXCEPT ![l] = AtRead]
      /\ UNCHANGED <<users, sockets, send, guest, sent, crashed, arrived>>
  BY DEF RecvRefuse
<1>3. recv[l].msg \in Message /\ Owner[l[1]] # Nil
  BY <1>1, <1>2, LoopParts DEF Contents, RecvHolds, Identity
<1>4. Own(l) \in Users
  BY <1>1, <1>3, Owners
<1>5. m \in Error /\ m.to = KeyOf[Own(l)]
  BY <1>4, KeyOfAssumption DEF Error
<1> HIDE DEF m
<1>6. /\ recv' \in [Loop -> [at : RecvPlace, msg : Message \cup {Nil}, to : Users \cup {Nil}]]
      /\ recv'[l].at = "read" /\ recv'[l].msg = Nil
      /\ \A n \in Loop : n # l => recv'[n] = recv[n]
  BY <1>1, <1>2 DEF TypeOK, RecvPlace, AtRead
<1>7. /\ chPost' \in [Users -> Seq(Message \cup Error)]
      /\ \A v \in Users : Len(chPost'[v]) <= Capacity
  BY <1>1, <1>2, <1>4, <1>5, PostEffect DEF Parcel
<1>8. TypeOK'
  BY <1>1, <1>2, <1>6, <1>7 DEF TypeOK, users, sockets
<1> QED BY <1>2, <1>3, <1>4, <1>5, <1>6, <1>8 DEF HasRefused

\* What SendTake(l) does.
HasTaken(l) ==
    /\ TypeOK'
    /\ send[l].at = "take" /\ send[l].msg = Nil
    /\ Own(l) \in Users /\ KeyOf[Own(l)] = Owner[l[1]]
    /\ Len(chPost[Own(l)]) \in Nat \ {0}
    /\ chPost[Own(l)][1] \in Parcel
    /\ send'[l].at = "check" /\ send'[l].msg = chPost[Own(l)][1]
    /\ \A m \in Loop : m # l => send'[m] = send[m]
    /\ Len(chPost'[Own(l)]) = Len(chPost[Own(l)]) - 1
    /\ \A i \in 1..Len(chPost'[Own(l)]) : chPost'[Own(l)][i] = chPost[Own(l)][i + 1]
    /\ \A u \in Users : u # Own(l) => chPost'[u] = chPost[u]
    /\ UNCHANGED <<users, sockets, recv, guest, sent, crashed, arrived>>

LEMMA TakeStep ==
  ASSUME Sound, NEW l \in Loop, SendTake(l)
  PROVE  HasTaken(l)
<1>1. TypeOK /\ Identity /\ Contents
  BY DEF Sound
<1> DEFINE u == Own(l)
           x == Head(chPost[u])
<1>2. /\ send[l].at = "take" /\ chPost[u] # << >>
      /\ send' = [send EXCEPT ![l] = [at |-> "check", msg |-> x]]
      /\ chPost' = [chPost EXCEPT ![u] = Tail(@)]
      /\ UNCHANGED <<users, sockets, recv, guest, sent, crashed, arrived>>
  BY DEF SendTake
<1>3. send[l].msg = Nil /\ Owner[l[1]] # Nil
  BY <1>1, <1>2 DEF Contents, SendHolds, Identity
<1>4. u \in Users /\ KeyOf[u] = Owner[l[1]]
  BY <1>1, <1>3, Owners
<1> HIDE DEF u
<1>5. /\ x \in Parcel /\ x = chPost[u][1]
      /\ chPost' \in [Users -> Seq(Parcel)]
      /\ \A v \in Users : Len(chPost'[v]) <= Capacity
      /\ \A v \in Users : v # u => chPost'[v] = chPost[v]
      /\ Len(chPost[u]) >= 1 /\ Len(chPost[u]) \in Nat
      /\ Len(chPost'[u]) = Len(chPost[u]) - 1
      /\ \A i \in 1..(Len(chPost[u]) - 1) : chPost'[u][i] = chPost[u][i + 1]
  <2>1. Len(chPost[u]) \in Nat
    BY <1>1, <1>4, LenProperties DEF TypeOK
  <2> QED BY <1>1, <1>2, <1>4, <2>1, TakeEffect
<1> HIDE DEF x
<1>6. /\ send' \in [Loop -> [at : SendPlace, msg : Message \cup Error \cup {Nil}]]
      /\ send'[l].at = "check" /\ send'[l].msg = x
      /\ \A n \in Loop : n # l => send'[n] = send[n]
  BY <1>1, <1>2, <1>5 DEF TypeOK, SendPlace, Parcel
<1>7. TypeOK'
  BY <1>1, <1>2, <1>5, <1>6 DEF TypeOK, users, sockets, Parcel
<1> QED BY <1>2, <1>3, <1>4, <1>5, <1>6, <1>7 DEF u, HasTaken

\* What SendCheck(l) does.
HasChecked(l) ==
    /\ TypeOK'
    /\ send[l].at = "check" /\ send[l].msg \in Parcel
    /\ \/ /\ send[l].msg.via # Nil
          /\ send'[l].at = "write" /\ send'[l].msg = send[l].msg
       \/ send'[l].at = "take" /\ send'[l].msg = Nil
    /\ \A m \in Loop : m # l => send'[m] = send[m]
    /\ UNCHANGED <<users, chPost, sockets, recv, guest, sent, crashed, arrived>>

LEMMA CheckStep ==
  ASSUME Sound, NEW l \in Loop, SendCheck(l)
  PROVE  HasChecked(l)
<1>1. TypeOK /\ Identity /\ Contents
  BY DEF Sound
<1>2. /\ send[l].at = "check"
      /\ UNCHANGED <<users, chPost, sockets, recv, guest, sent, crashed, arrived>>
  BY DEF SendCheck
<1>3. send[l].msg \in Parcel
  BY <1>1, <1>2, LoopParts DEF Contents, SendHolds, Parcel
<1>4. CASE CheckContact(Own(l), send[l].msg.from)
  <2>1. send' = [send EXCEPT ![l] = [send[l] EXCEPT !.at = "write"]]
    BY <1>4 DEF SendCheck
  <2>2. send[l].msg.from \in Keys
    BY <1>4 DEF CheckContact, GetUser
  <2>3. send[l].msg.via # Nil
    BY <1>3, <2>2, NilAssumption DEF Parcel, Message, Error
  <2>4. [send[l] EXCEPT !.at = "write"] = [at |-> "write", msg |-> send[l].msg]
    BY <1>1 DEF TypeOK
  <2>5. /\ send' \in [Loop -> [at : SendPlace, msg : Message \cup Error \cup {Nil}]]
        /\ send'[l].at = "write" /\ send'[l].msg = send[l].msg
        /\ \A n \in Loop : n # l => send'[n] = send[n]
    BY <1>1, <1>3, <2>1, <2>4 DEF TypeOK, SendPlace, Parcel
  <2>6. TypeOK'
    BY <1>1, <1>2, <2>5 DEF TypeOK, users, sockets
  <2> QED BY <1>2, <1>3, <2>3, <2>5, <2>6 DEF HasChecked
<1>5. CASE ~CheckContact(Own(l), send[l].msg.from)
  <2>1. send' = [send EXCEPT ![l] = Idle]
    BY <1>5 DEF SendCheck
  <2>2. /\ send' \in [Loop -> [at : SendPlace, msg : Message \cup Error \cup {Nil}]]
        /\ send'[l].at = "take" /\ send'[l].msg = Nil
        /\ \A n \in Loop : n # l => send'[n] = send[n]
    BY <1>1, <2>1 DEF TypeOK, SendPlace, Idle
  <2>3. TypeOK'
    BY <1>1, <1>2, <2>2 DEF TypeOK, users, sockets
  <2> QED BY <1>2, <1>3, <2>2, <2>3 DEF HasChecked
<1> QED BY <1>4, <1>5

\* What SendWrite(l) does.
HasWritten(l) ==
    /\ TypeOK'
    /\ send[l].at = "write" /\ send[l].msg \in Message
    /\ connection[l[1]] \in Conns
    /\ conn[connection[l[1]]] # "open" => UNCHANGED arrived
    /\ conn[connection[l[1]]] = "open" =>
         arrived' = [arrived EXCEPT ![connection[l[1]]] = Append(@, send[l].msg)]
    /\ send'[l].at = "take" /\ send'[l].msg = Nil
    /\ \A m \in Loop : m # l => send'[m] = send[m]
    /\ UNCHANGED <<users, chPost, sockets, recv, guest, sent, crashed>>

LEMMA WriteStep ==
  ASSUME Sound, NEW l \in Loop, SendWrite(l)
  PROVE  HasWritten(l)
<1>1. TypeOK /\ Identity /\ Contents
  BY DEF Sound
<1> DEFINE c == connection[l[1]]
           q == Append(arrived[c], send[l].msg)
<1>2. /\ send[l].at = "write" /\ send' = [send EXCEPT ![l] = Idle]
      /\ conn[c] = "open" => arrived' = [arrived EXCEPT ![c] = q]
      /\ conn[c] # "open" => arrived' = arrived
      /\ UNCHANGED <<users, chPost, sockets, recv, guest, sent, crashed>>
  BY DEF SendWrite
<1>3. send[l].msg \in Message /\ c \in Conns
  <2>1. send[l].msg \in Parcel /\ send[l].msg.via # Nil
    BY <1>1, <1>2, LoopParts DEF Contents, SendHolds, Parcel
  <2>2. send[l].msg \in Message
    BY <2>1 DEF Parcel, Error
  <2> QED BY <1>1, <2>2, Pairs DEF TypeOK
<1>4. q \in Seq(Message \cup Error)
  <2>1. arrived[c] \in Seq(Message \cup Error)
    BY <1>1, <1>3 DEF TypeOK
  <2> QED BY <1>3, <2>1, AppendProperties
<1>5. conn[c] = "open" => arrived' = [arrived EXCEPT ![c] = Append(@, send[l].msg)]
  BY <1>2
<1> HIDE DEF q, c
<1>6. arrived' \in [Conns -> Seq(Message \cup Error)]
  BY <1>1, <1>2, <1>3, <1>4 DEF TypeOK
<1>7. /\ send' \in [Loop -> [at : SendPlace, msg : Message \cup Error \cup {Nil}]]
      /\ send'[l].at = "take" /\ send'[l].msg = Nil
      /\ \A n \in Loop : n # l => send'[n] = send[n]
  BY <1>1, <1>2 DEF TypeOK, SendPlace, Idle
<1>8. TypeOK'
  BY <1>1, <1>2, <1>6, <1>7 DEF TypeOK, users, sockets
<1> QED BY <1>2, <1>3, <1>5, <1>7, <1>8 DEF c, HasWritten

\* What SendPanic(l) does.
HasPanicked(l) ==
    /\ TypeOK'
    /\ send[l].at \in {"check", "write"} /\ send[l].msg \in Parcel
    /\ send'[l].at = "end" /\ send'[l].msg = Nil
    /\ \A m \in Loop : m # l => send'[m] = send[m]
    /\ UNCHANGED <<users, chPost, handler, user, connection, recv, guest, sent,
                   crashed, arrived>>

LEMMA PanicStep ==
  ASSUME Sound, NEW l \in Loop, SendPanic(l)
  PROVE  HasPanicked(l)
<1>1. TypeOK /\ Identity /\ Contents
  BY DEF Sound
<1>2. /\ send[l].at \in {"check", "write"}
      /\ send' = [send EXCEPT ![l] = [at |-> "end", msg |-> Nil]]
      /\ conn' = Closed(l[1])
      /\ UNCHANGED <<users, chPost, handler, user, connection, recv, guest, sent, crashed,
                     arrived>>
  BY DEF SendPanic
<1>3. send[l].msg \in Parcel
  BY <1>1, <1>2, LoopParts DEF Contents, SendHolds, Parcel
<1>4. /\ send' \in [Loop -> [at : SendPlace, msg : Message \cup Error \cup {Nil}]]
      /\ send'[l].at = "end" /\ send'[l].msg = Nil
      /\ \A n \in Loop : n # l => send'[n] = send[n]
  BY <1>1, <1>2 DEF TypeOK, SendPlace
<1>5. conn' \in [Conns -> {"free", "open", "closed"}]
  BY <1>1, <1>2, Pairs DEF Closed, TypeOK
<1>6. TypeOK'
  BY <1>1, <1>2, <1>4, <1>5 DEF TypeOK, users
<1> QED BY <1>2, <1>3, <1>4, <1>6 DEF HasPanicked

\* What RecvPanic(l) does.
HasFallen(l) ==
    /\ TypeOK'
    /\ recv[l].at = "lookup" /\ recv[l].msg \in Message
    /\ recv'[l].at = "end" /\ recv'[l].msg = Nil
    /\ \A m \in Loop : m # l => recv'[m] = recv[m]
    /\ UNCHANGED <<users, chPost, handler, user, connection, send, guest, sent,
                   crashed, arrived>>

LEMMA FallStep ==
  ASSUME Sound, NEW l \in Loop, RecvPanic(l)
  PROVE  HasFallen(l)
<1>1. TypeOK /\ Identity /\ Contents
  BY DEF Sound
<1>2. /\ recv[l].at = "lookup"
      /\ recv' = [recv EXCEPT ![l] = [at |-> "end", msg |-> Nil, to |-> Nil]]
      /\ conn' = Closed(l[1])
      /\ UNCHANGED <<users, chPost, handler, user, connection, send, guest, sent, crashed,
                     arrived>>
  BY DEF RecvPanic
<1>3. recv[l].msg \in Message
  BY <1>1, <1>2, LoopParts DEF Contents, RecvHolds
<1>4. /\ recv' \in [Loop -> [at : RecvPlace, msg : Message \cup {Nil}, to : Users \cup {Nil}]]
      /\ recv'[l].at = "end" /\ recv'[l].msg = Nil
      /\ \A n \in Loop : n # l => recv'[n] = recv[n]
  BY <1>1, <1>2 DEF TypeOK, RecvPlace
<1>5. conn' \in [Conns -> {"free", "open", "closed"}]
  BY <1>1, <1>2, Pairs DEF Closed, TypeOK
<1>6. TypeOK'
  BY <1>1, <1>2, <1>4, <1>5 DEF TypeOK, users
<1> QED BY <1>2, <1>3, <1>4, <1>6 DEF HasFallen

\* What the other actions do: they leave what the loops hold alone; a loop may only end.
Rested ==
    /\ TypeOK'
    /\ \A k \in Keys :
         registry'[k] # Nil => registry[k] = registry'[k] \/ KeyOf[registry'[k]] = k
    /\ \A l \in Loop :
         /\ recv'[l].msg = recv[l].msg /\ recv'[l].to = recv[l].to
         /\ \/ recv'[l].at = recv[l].at
            \/ recv[l].at = "read" /\ recv'[l].at = "end"
         /\ send'[l].msg = send[l].msg
         /\ \/ send'[l].at = send[l].at
            \/ send[l].at = "take" /\ send'[l].at = "end"
    /\ \/ UNCHANGED crashed
       \/ guest' # Nil
    /\ UNCHANGED <<slot, chPost, handler, user, connection, sent, arrived>>

LEMMA OtherStep ==
  ASSUME Sound,
         \/ \E u \in Users : SignUp(u) \/ Install(u) \/ GuestAdds(u)
         \/ \E k \in Keys : Expire(k)
         \/ \E c \in Conns : HangUp(c)
         \/ \E l \in Loop : RecvStop(l) \/ SendStop(l)
         \/ GuestAdded
  PROVE  Rested
<1>1. TypeOK
  BY DEF Sound
<1>2. ASSUME NEW u \in Users, SignUp(u)
      PROVE  /\ TypeOK'
             /\ UNCHANGED <<registry, slot, chPost, sockets, loops, guest, sent, crashed,
                            arrived>>
  BY <1>1, <1>2 DEF SignUp, TypeOK, sockets, loops
<1>9. ASSUME NEW u \in Users, Install(u)
      PROVE  /\ TypeOK'
             /\ \A k \in Keys : registry'[k] # Nil =>
                  registry[k] = registry'[k] \/ KeyOf[registry'[k]] = k
             /\ UNCHANGED <<slot, chPost, sockets, loops, guest, sent, crashed, arrived>>
  BY <1>1, <1>9, KeyOfAssumption DEF Install, TypeOK, sockets, loops
<1>3. ASSUME NEW k \in Keys, Expire(k)
      PROVE  /\ TypeOK'
             /\ \A n \in Keys : registry'[n] # Nil => registry[n] = registry'[n]
             /\ UNCHANGED <<slot, chPost, sockets, loops, guest, sent, crashed, arrived>>
  BY <1>1, <1>3 DEF Expire, TypeOK, users, sockets, loops
<1>4. ASSUME NEW u \in Users, GuestAdds(u)
      PROVE  /\ TypeOK' /\ guest' # Nil
             /\ UNCHANGED <<users, chPost, sockets, loops, sent, arrived>>
  <2>1. /\ guest' = u /\ (crashed' = FALSE \/ crashed' = Adding(u))
        /\ UNCHANGED <<users, chPost, sockets, loops, sent, arrived>>
    BY <1>4 DEF GuestAdds
  <2>2. Adding(u) \in BOOLEAN
    BY DEF Adding
  <2>3. crashed' \in BOOLEAN
    BY <2>1, <2>2, Zenon
  <2> QED BY <1>1, <2>1, <2>3, NilAssumption DEF TypeOK, users, sockets, loops
<1>5. ASSUME NEW c \in Conns, HangUp(c)
      PROVE  /\ TypeOK'
             /\ UNCHANGED <<users, chPost, handler, user, connection, loops, guest, sent,
                            crashed, arrived>>
  BY <1>1, <1>5 DEF HangUp, TypeOK, users, loops
<1>6. ASSUME GuestAdded
      PROVE  /\ TypeOK'
             /\ UNCHANGED <<users, chPost, sockets, loops, sent, crashed, arrived>>
  BY <1>1, <1>6 DEF GuestAdded, TypeOK, users, sockets, loops
<1>7. ASSUME NEW l \in Loop, RecvStop(l)
      PROVE  /\ TypeOK'
             /\ recv[l].at = "read" /\ recv'[l].at = "end"
             /\ recv'[l].msg = recv[l].msg /\ recv'[l].to = recv[l].to
             /\ \A m \in Loop : m # l => recv'[m] = recv[m]
             /\ UNCHANGED <<users, chPost, sockets, send, guest, sent, crashed, arrived>>
  <2>1. /\ recv[l].at = "read" /\ recv' = [recv EXCEPT ![l].at = "end"]
        /\ UNCHANGED <<users, chPost, sockets, send, guest, sent, crashed, arrived>>
    BY <1>7 DEF RecvStop, RecvAt
  <2>2. /\ recv' \in [Loop -> [at : RecvPlace, msg : Message \cup {Nil}, to : Users \cup {Nil}]]
        /\ recv'[l].at = "end" /\ recv'[l].msg = recv[l].msg /\ recv'[l].to = recv[l].to
        /\ \A n \in Loop : n # l => recv'[n] = recv[n]
    BY <1>1, <2>1 DEF TypeOK, RecvPlace
  <2> QED BY <1>1, <2>1, <2>2 DEF TypeOK, users, sockets
<1>8. ASSUME NEW l \in Loop, SendStop(l)
      PROVE  /\ TypeOK'
             /\ send[l].at = "take" /\ send'[l].at = "end"
             /\ send'[l].msg = send[l].msg
             /\ \A m \in Loop : m # l => send'[m] = send[m]
             /\ UNCHANGED <<users, chPost, sockets, recv, guest, sent, crashed, arrived>>
  <2>1. /\ send[l].at = "take" /\ send' = [send EXCEPT ![l].at = "end"]
        /\ UNCHANGED <<users, chPost, sockets, recv, guest, sent, crashed, arrived>>
    BY <1>8 DEF SendStop
  <2>2. /\ send' \in [Loop -> [at : SendPlace, msg : Message \cup Error \cup {Nil}]]
        /\ send'[l].at = "end" /\ send'[l].msg = send[l].msg
        /\ \A n \in Loop : n # l => send'[n] = send[n]
    BY <1>1, <2>1 DEF TypeOK, SendPlace
  <2> QED BY <1>1, <2>1, <2>2 DEF TypeOK, users, sockets
<1> QED BY <1>2, <1>3, <1>4, <1>5, <1>6, <1>7, <1>8, <1>9 DEF users, sockets, loops, Rested

-----------------------------------------------------------------------------
(* Who signed in where *)

\* The steps that neither sign in nor give a session another connection.
Transport ==
    \/ \E u \in Users : SignUp(u) \/ Install(u) \/ GuestAdds(u)
    \/ \E k \in Keys : Expire(k)
    \/ \E c \in Conns : HangUp(c)
    \/ \E l \in Loop : RecvRead(l) \/ RecvStep(l) \/ SendStep(l)
    \/ GuestAdded

Settled ==
    /\ TypeOK'
    /\ \A k \in Keys :
         registry'[k] # Nil => registry[k] = registry'[k] \/ KeyOf[registry'[k]] = k
    /\ \A l \in Loop : /\ recv'[l].at = "none" <=> recv[l].at = "none"
                       /\ send'[l].at = "none" <=> send[l].at = "none"
    /\ UNCHANGED <<slot, handler, user, connection>>

LEMMA TransportStep ==
  ASSUME Sound, Transport
  PROVE  Settled
<1>1. ASSUME NEW l \in Loop, RecvRead(l) PROVE Settled
  BY <1>1, ReadStep DEF Settled, HasRead, users, sockets
<1>2. ASSUME NEW l \in Loop, RecvLookup(l) PROVE Settled
  BY <1>2, LookupStep DEF Settled, HasLookedUp, users, sockets
<1>3. ASSUME NEW l \in Loop, RecvPost(l) PROVE Settled
  BY <1>3, PostStep DEF Settled, HasPosted, users, sockets
<1>4. ASSUME NEW l \in Loop, RecvRefuse(l) PROVE Settled
  BY <1>4, RefuseStep DEF Settled, HasRefused, users, sockets
<1>5. ASSUME NEW l \in Loop, SendTake(l) PROVE Settled
  BY <1>5, TakeStep DEF Settled, HasTaken, users, sockets
<1>6. ASSUME NEW l \in Loop, SendCheck(l) PROVE Settled
  BY <1>6, CheckStep DEF Settled, HasChecked, users, sockets
<1>7. ASSUME NEW l \in Loop, SendWrite(l) PROVE Settled
  BY <1>7, WriteStep DEF Settled, HasWritten, users, sockets
<1>8. ASSUME NEW l \in Loop, SendPanic(l) PROVE Settled
  BY <1>8, PanicStep DEF Settled, HasPanicked, users
<1>9. CASE \/ \E u \in Users : SignUp(u) \/ Install(u) \/ GuestAdds(u)
           \/ \E k \in Keys : Expire(k)
           \/ \E c \in Conns : HangUp(c)
           \/ \E l \in Loop : RecvStop(l) \/ SendStop(l)
           \/ GuestAdded
  BY <1>9, OtherStep DEF Settled, Rested
<1>10. ASSUME NEW l \in Loop, RecvPanic(l) PROVE Settled
  BY <1>10, FallStep DEF Settled, HasFallen, users
<1> QED BY <1>1, <1>2, <1>3, <1>4, <1>5, <1>6, <1>7, <1>8, <1>9, <1>10
        DEF Transport, RecvStep, RecvHandle, SendStep

LEMMA IdentityInit == Init => Identity
BY Pairs DEF Init, Identity, Loop

LEMMA IdentityTransport ==
  ASSUME Sound, Transport
  PROVE  Identity'
<1>1. Owner' = Owner
  BY TransportStep DEF Owner, Settled
<1>2. TypeOK /\ TypeOK' /\ Identity
  BY TransportStep DEF Sound, Settled
<1>3. (\A k \in Keys : registry[k] # Nil => KeyOf[registry[k]] = k)'
  BY <1>2, TransportStep DEF Identity, Settled
<1> QED BY <1>1, <1>2, <1>3, TransportStep, Pairs DEF Identity, TypeOK, Settled

LEMMA IdentityStart ==
  ASSUME Sound, NEW c \in Conns, Start(c)
  PROVE  Identity'
<1>1. TypeOK /\ Identity
  BY DEF Sound
<1>2. Started(c)
  BY <1>1, StartStep
<1>3. TypeOK'
  BY <1>2 DEF Started
<1>4. /\ Owner[c] = Nil /\ Owner'[c] # Nil
      /\ \A d \in Conns : d # c => Owner'[d] = Owner[d]
      /\ \A d \in Conns : Owner[d] # Nil => Owner'[d] = Owner[d]
  <2>1. user[c] = Nil /\ user'[c] \in Users /\ \A d \in Conns : d # c => user'[d] = user[d]
    BY <1>2 DEF Started
  <2>2. \A u \in Users : KeyOf[u] # Nil
    BY KeyOfAssumption, NilAssumption
  <2> QED BY <2>1, <2>2, NilAssumption DEF Owner
<1>5. (\A k \in Keys : registry[k] # Nil => KeyOf[registry[k]] = k)'
  BY <1>1, <1>2 DEF Identity, Started, users
<1>6. (\A d \in Conns : handler[d] = "idle" <=> user[d] = Nil)'
  BY <1>1, <1>2, NilAssumption DEF Identity, Started
<1>7. (\A u \in Users :
         slot[u] # Nil => handler[slot[u]] = "done" /\ Owner[slot[u]] = KeyOf[u])'
  <2> SUFFICES ASSUME NEW u \in Users, slot[u] # Nil
               PROVE  handler'[slot[u]] = "done" /\ Owner'[slot[u]] = KeyOf[u]
    BY <1>2 DEF Started, users
  <2>1. handler[slot[u]] = "done" /\ Owner[slot[u]] = KeyOf[u] /\ slot[u] \in Conns
    BY <1>1 DEF Identity, TypeOK
  <2>2. handler[c] = "idle"
    BY <1>1, <1>2 DEF Identity, Started
  <2> QED BY <1>2, <1>4, <2>1, <2>2 DEF Started
<1>8. (\A l \in Loop :
         /\ recv[l].at = "none" <=> send[l].at = "none"
         /\ recv[l].at # "none" => Owner[l[1]] # Nil /\ Owner[l[2]] = Owner[l[1]])'
  <2> SUFFICES ASSUME NEW l \in Loop
               PROVE  /\ recv'[l].at = "none" <=> send'[l].at = "none"
                      /\ recv'[l].at # "none" =>
                           Owner'[l[1]] # Nil /\ Owner'[l[2]] = Owner'[l[1]]
    OBVIOUS
  <2>1. l[1] \in Conns /\ l[2] \in Conns
    BY Pairs
  <2>2. CASE l = <<c, c>>
    BY <1>2, <1>4, <2>2 DEF Started
  <2>3. CASE l # <<c, c>>
    BY <1>1, <1>2, <1>4, <2>1, <2>3 DEF Started, Identity
  <2> QED BY <2>2, <2>3
<1>9. /\ (\A s \in Conns : connection[s] # s => recv[<<s, connection[s]>>].at # "none")'
      /\ (\A s, d \in Conns :
            d # s /\ (connection[s] = s \/ handler[d] # "done") => recv[<<s, d>>].at = "none")'
  <2>1. \A s, d \in Conns : s # d => <<s, d>> # <<c, c>> /\ <<s, d>> \in Loop
    BY Pairs
  <2>2. connection' = connection /\ connection \in [Conns -> Conns]
    BY <1>1, <1>2 DEF TypeOK, Started
  <2>3. \A l \in Loop : l # <<c, c>> => recv'[l] = recv[l]
    BY <1>2 DEF Started
  <2>4. \A d \in Conns : handler'[d] # "done" => handler[d] # "done"
    BY <1>1, <1>2 DEF Started, Identity
  <2> QED BY <1>1, <2>1, <2>2, <2>3, <2>4 DEF Identity
<1> QED BY <1>5, <1>6, <1>7, <1>8, <1>9 DEF Identity

LEMMA IdentityServe ==
  ASSUME Sound, NEW c \in Conns, Serve(c)
  PROVE  Identity'
<1>1. TypeOK /\ Identity
  BY DEF Sound
<1>2. Attached(c)
  BY <1>1, ServeStep
<1>3. /\ handler[c] = "lookup" /\ handler'[c] = "done" /\ user[c] # Nil
      /\ \A d \in Conns : d # c => handler'[d] = handler[d]
      /\ UNCHANGED <<registry, user>>
  BY <1>2 DEF Attached
<1>4. Owner' = Owner /\ TypeOK'
  BY <1>2 DEF Owner, Attached
<1>5. /\ (\A k \in Keys : registry[k] # Nil => KeyOf[registry[k]] = k)'
      /\ (\A d \in Conns : handler[d] = "idle" <=> user[d] = Nil)'
  BY <1>1, <1>3 DEF Identity
<1>6. \A u \in Users : slot[u] # Nil => /\ slot[u] \in Conns /\ Owner[slot[u]] = KeyOf[u]
                                        /\ handler'[slot[u]] = "done"
  BY <1>1, <1>3 DEF Identity, TypeOK
<1>10. \A d \in Conns : handler'[d] # "done" => handler[d] # "done"
  BY <1>3
<1>7. CASE UNCHANGED <<slot, connection, loops>>
  BY <1>1, <1>4, <1>5, <1>6, <1>7, <1>10 DEF Identity, loops
<1>8. ASSUME NEW u \in Users,
             KeyOf[u] = Owner[c], slot'[u] = c,
             \A v \in Users : v # u => slot'[v] = slot[v],
             UNCHANGED <<connection, loops>>
      PROVE  Identity'
  BY <1>1, <1>3, <1>4, <1>5, <1>6, <1>8, <1>10 DEF Identity, loops
<1>9. ASSUME NEW s \in Conns,
             s # c, Owner[s] = Owner[c],
             connection'[s] = c,
             \A d \in Conns : d # s => connection'[d] = connection[d],
             recv'[<<s, c>>].at = "read", send'[<<s, c>>].at = "take",
             \A l \in Loop : l # <<s, c>> => recv'[l] = recv[l] /\ send'[l] = send[l],
             UNCHANGED slot
      PROVE  Identity'
  <2>1. (\A u \in Users :
           slot[u] # Nil => handler[slot[u]] = "done" /\ Owner[slot[u]] = KeyOf[u])'
    BY <1>4, <1>6, <1>9
  <2>2. (\A l \in Loop :
           /\ recv[l].at = "none" <=> send[l].at = "none"
           /\ recv[l].at # "none" => Owner[l[1]] # Nil /\ Owner[l[2]] = Owner[l[1]])'
    <3> SUFFICES ASSUME NEW l \in Loop
                 PROVE  /\ recv'[l].at = "none" <=> send'[l].at = "none"
                        /\ recv'[l].at # "none" =>
                             Owner[l[1]] # Nil /\ Owner[l[2]] = Owner[l[1]]
      BY <1>4
    <3>1. CASE l = <<s, c>>
      BY <1>1, <1>3, <1>9, <3>1, Pairs, Owners
    <3>2. CASE l # <<s, c>>
      BY <1>1, <1>9, <3>2 DEF Identity
    <3> QED BY <3>1, <3>2
  <2>3. /\ (\A e \in Conns : connection[e] # e => recv[<<e, connection[e]>>].at # "none")'
        /\ (\A e, d \in Conns :
              d # e /\ (connection[e] = e \/ handler[d] # "done") => recv[<<e, d>>].at = "none")'
    <3>1. \A e, d \in Conns : e # s => <<e, d>> # <<s, c>> /\ <<e, d>> \in Loop
      BY Pairs
    <3>2. connection \in [Conns -> Conns]
      BY <1>1 DEF TypeOK
    <3>3. \A e, d \in Conns : e # s => recv'[<<e, d>>] = recv[<<e, d>>]
      BY <1>9, <3>1
    <3>4. \A d \in Conns : d # c => recv'[<<s, d>>] = recv[<<s, d>>]
      BY <1>9, Pairs
    <3>5. \A e \in Conns : e # s => connection'[e] = connection[e]
      BY <1>9
    <3>6. connection'[s] = c /\ recv'[<<s, c>>].at = "read" /\ handler'[c] = "done"
      BY <1>3, <1>9
    <3>7. s # c
      BY <1>9
    <3> QED BY <1>1, <1>10, <3>2, <3>3, <3>4, <3>5, <3>6, <3>7 DEF Identity
  <2> QED BY <1>5, <2>1, <2>2, <2>3 DEF Identity
<1> QED BY <1>2, <1>7, <1>8, <1>9 DEF Attached

-----------------------------------------------------------------------------
(* What the loops and the channels hold *)

LEMMA ContentsInit == Init => Contents
<1> SUFFICES ASSUME Init PROVE Contents
  OBVIOUS
<1>1. \A u \in Users : Len(chPost[u]) = 0
  BY EmptySeq DEF Init
<1>2. ChannelsHold
  BY <1>1 DEF ChannelsHold
<1>3. RecvHolds /\ SendHolds
  BY DEF Init, RecvHolds, SendHolds
<1> QED BY <1>2, <1>3 DEF Contents

\* Steps that move no message: loops begin, end, or go on with what they hold.
Quiet ==
    /\ \A l \in Loop :
         /\ recv'[l].msg = recv[l].msg /\ recv'[l].to = recv[l].to
         /\ \/ recv'[l].at = recv[l].at
            \/ recv[l].at \in {"none", "read"} /\ recv'[l].at \in {"read", "end"}
         /\ send'[l].msg = send[l].msg
         /\ \/ send'[l].at = send[l].at
            \/ send[l].at \in {"none", "take"} /\ send'[l].at \in {"take", "end"}
    /\ \A c \in Conns : Owner[c] # Nil => Owner'[c] = Owner[c]
    /\ \A c \in Conns : user[c] # Nil => user'[c] = user[c]
    /\ UNCHANGED <<chPost, sent, arrived>>

LEMMA OwnersStay ==
  ASSUME UNCHANGED user
  PROVE  Owner' = Owner
BY DEF Owner

LEMMA QuietStart ==
  ASSUME Sound, NEW c \in Conns, Start(c)
  PROVE  Quiet
<1>1. Started(c)
  BY StartStep DEF Sound
<1>2. \A d \in Conns : user[d] # Nil => user'[d] = user[d]
  BY <1>1 DEF Started
<1>3. \A d \in Conns : Owner[d] # Nil => Owner'[d] = Owner[d]
  BY <1>2 DEF Owner
<1>4. \A l \in Loop :
        /\ recv'[l].msg = recv[l].msg /\ recv'[l].to = recv[l].to
        /\ \/ recv'[l].at = recv[l].at
           \/ recv[l].at \in {"none", "read"} /\ recv'[l].at \in {"read", "end"}
        /\ send'[l].msg = send[l].msg
        /\ \/ send'[l].at = send[l].at
           \/ send[l].at \in {"none", "take"} /\ send'[l].at \in {"take", "end"}
  BY <1>1 DEF Started
<1>5. UNCHANGED <<chPost, sent, arrived>>
  BY <1>1 DEF Started
<1> QED BY <1>2, <1>3, <1>4, <1>5 DEF Quiet

LEMMA QuietServe ==
  ASSUME Sound, NEW c \in Conns, Serve(c)
  PROVE  Quiet
<1>1. Attached(c)
  BY ServeStep DEF Sound
<1>2. UNCHANGED <<chPost, sent, arrived, user>>
  BY <1>1 DEF Attached
<1>3. \A l \in Loop :
        /\ recv'[l].msg = recv[l].msg /\ recv'[l].to = recv[l].to
        /\ send'[l].msg = send[l].msg
  BY <1>1 DEF Attached
<1>4. \A l \in Loop :
        /\ \/ recv'[l].at = recv[l].at
           \/ recv[l].at \in {"none", "read"} /\ recv'[l].at \in {"read", "end"}
        /\ \/ send'[l].at = send[l].at
           \/ send[l].at \in {"none", "take"} /\ send'[l].at \in {"take", "end"}
  <2>1. CASE UNCHANGED loops
    BY <2>1 DEF loops
  <2>2. ASSUME NEW s \in Conns,
               recv[<<s, c>>].at = "none", send[<<s, c>>].at = "none",
               recv'[<<s, c>>].at = "read", send'[<<s, c>>].at = "take",
               \A l \in Loop : l # <<s, c>> => recv'[l] = recv[l] /\ send'[l] = send[l]
        PROVE  \A l \in Loop :
                 /\ \/ recv'[l].at = recv[l].at
                    \/ recv[l].at \in {"none", "read"} /\ recv'[l].at \in {"read", "end"}
                 /\ \/ send'[l].at = send[l].at
                    \/ send[l].at \in {"none", "take"} /\ send'[l].at \in {"take", "end"}
    BY <2>2
  <2> QED BY <1>1, <2>1, <2>2 DEF Attached
<1> QED BY <1>2, <1>3, <1>4, OwnersStay DEF Quiet

LEMMA QuietRest ==
  ASSUME Sound, Rested
  PROVE  Quiet
BY OwnersStay DEF Rested, Quiet

LEMMA QuietLookup ==
  ASSUME NEW l \in Loop, HasLookedUp(l)
  PROVE  /\ \A m \in Loop : recv'[m].msg = recv[m].msg /\ send'[m] = send[m]
         /\ Owner' = Owner
         /\ UNCHANGED <<chPost, sent, arrived, user>>
BY OwnersStay DEF HasLookedUp, users, sockets

LEMMA ContentsQuiet ==
  ASSUME Sound, TypeOK', Quiet
  PROVE  Contents'
<1>1. TypeOK /\ Identity /\ Contents
  BY DEF Sound
<1>2. \A l \in Loop : recv[l].msg # Nil => recv[l].msg.via \in Conns
  BY <1>1, LoopParts DEF Message
<1>3. RecvHolds'
  <2> SUFFICES ASSUME NEW l \in Loop
      PROVE
      /\ recv'[l].msg = Nil <=> recv'[l].at \in {"none", "read", "end"}
      /\ recv'[l].msg # Nil => Owner'[recv'[l].msg.via] = Owner'[l[1]]
      /\ recv'[l].at \in {"lookup", "adding"} => recv'[l].msg.from = Owner'[l[1]]
      /\ recv'[l].at = "adding" =>
           recv'[l].to # Nil /\ KeyOf[recv'[l].to] = recv'[l].msg.to
    BY DEF RecvHolds
  <2>1. /\ recv[l].msg = Nil <=> recv[l].at \in {"none", "read", "end"}
        /\ recv[l].msg # Nil => Owner[recv[l].msg.via] = Owner[l[1]]
        /\ recv[l].at \in {"lookup", "adding"} => recv[l].msg.from = Owner[l[1]]
        /\ recv[l].at = "adding" =>
             recv[l].to # Nil /\ KeyOf[recv[l].to] = recv[l].msg.to
    BY <1>1 DEF Contents, RecvHolds
  <2>2. recv[l].at # "none" => Owner'[l[1]] = Owner[l[1]] /\ Owner[l[1]] # Nil
    BY <1>1, Pairs DEF Quiet, Identity
  <2>3. recv[l].msg # Nil => Owner'[recv[l].msg.via] = Owner[l[1]]
    BY <1>2, <2>1, <2>2 DEF Quiet
  <2> QED BY <2>1, <2>2, <2>3 DEF Quiet
<1>4. ASSUME NEW m \in Parcel, m.via # Nil, Genuine(m)
      PROVE  m.from # Nil /\ m.from = Owner'[m.via]
  <2>1. m.via \in Conns
    BY <1>4 DEF Parcel, Message, Error
  <2> QED BY <1>4, <2>1 DEF Genuine, Quiet
<1>5. \A u \in Users : \A i \in 1..Len(chPost[u]) : chPost[u][i] \in Parcel
  BY <1>1, ElementOfSeq DEF TypeOK, Parcel
<1>6. ChannelsHold'
  BY <1>1, <1>4, <1>5 DEF Contents, ChannelsHold, Quiet, Genuine
<1>7. SendHolds'
  <2> SUFFICES ASSUME NEW l \in Loop
      PROVE
      /\ send'[l].msg = Nil <=> send'[l].at \in {"none", "take", "end"}
      /\ send'[l].msg # Nil => send'[l].msg.to = Owner'[l[1]]
      /\ send'[l].msg # Nil /\ send'[l].msg.via # Nil =>
           /\ send'[l].msg.from # Nil
           /\ send'[l].msg.from = Owner'[send'[l].msg.via]
      /\ send'[l].at = "write" => send'[l].msg.via # Nil
    BY DEF SendHolds, Genuine
  <2>1. /\ send[l].msg = Nil <=> send[l].at \in {"none", "take", "end"}
        /\ send[l].msg # Nil => send[l].msg.to = Owner[l[1]]
        /\ send[l].msg # Nil /\ send[l].msg.via # Nil => Genuine(send[l].msg)
        /\ send[l].at = "write" => send[l].msg.via # Nil
    BY <1>1 DEF Contents, SendHolds
  <2>2. send[l].at # "none" => Owner'[l[1]] = Owner[l[1]]
    BY <1>1, Pairs DEF Quiet, Identity
  <2>3. send[l].msg # Nil => send[l].msg \in Parcel
    BY <1>1, LoopParts DEF Parcel
  <2> QED BY <1>4, <2>1, <2>2, <2>3 DEF Quiet
<1> QED BY <1>3, <1>6, <1>7 DEF Contents

LEMMA RecvHoldsSame ==
  ASSUME RecvHolds, recv' = recv, Owner' = Owner
  PROVE  RecvHolds'
BY DEF RecvHolds

LEMMA SendHoldsSame ==
  ASSUME SendHolds, send' = send, Owner' = Owner
  PROVE  SendHolds'
BY DEF SendHolds, Genuine

LEMMA ChannelsHoldSame ==
  ASSUME ChannelsHold, chPost' = chPost, Owner' = Owner
  PROVE  ChannelsHold'
BY DEF ChannelsHold, Genuine

LEMMA ChannelsHoldPost ==
  ASSUME TypeOK, ChannelsHold, Owner' = Owner, NEW u \in Users, NEW m \in Parcel,
         Post(u, m), m.to = KeyOf[u], m.via # Nil => Genuine(m)
  PROVE  ChannelsHold'
<1>1. CASE ~Room(u)
  <2>1. chPost' = chPost
    BY <1>1, PostEffect
  <2> QED BY <2>1, ChannelsHoldSame
<1>2. CASE Room(u)
  <2>1. /\ \A v \in Users : v # u => chPost'[v] = chPost[v]
        /\ Len(chPost'[u]) = Len(chPost[u]) + 1
        /\ chPost'[u][Len(chPost[u]) + 1] = m
        /\ \A i \in 1..Len(chPost[u]) : chPost'[u][i] = chPost[u][i]
    BY <1>2, PostEffect
  <2>2. Len(chPost[u]) \in Nat
    BY LenProperties DEF TypeOK
  <2> SUFFICES ASSUME NEW v \in Users, NEW i \in 1..Len(chPost'[v])
               PROVE  /\ chPost'[v][i].to = KeyOf[v]
                      /\ chPost'[v][i].via # Nil =>
                           /\ chPost'[v][i].from # Nil
                           /\ chPost'[v][i].from = Owner[chPost'[v][i].via]
    BY DEF ChannelsHold, Genuine
  <2>3. CASE v = u /\ i = Len(chPost[u]) + 1
    BY <2>1, <2>3 DEF Genuine
  <2>4. CASE v = u /\ i # Len(chPost[u]) + 1
    <3>1. i \in 1..Len(chPost[u])
      BY <2>1, <2>2, <2>4
    <3> QED BY <2>1, <2>4, <3>1 DEF ChannelsHold, Genuine
  <2>5. CASE v # u
    BY <2>1, <2>5 DEF ChannelsHold, Genuine
  <2> QED BY <2>3, <2>4, <2>5
<1> QED BY <1>1, <1>2

LEMMA ContentsRead ==
  ASSUME Sound, NEW l \in Loop, HasRead(l)
  PROVE  Contents'
<1>1. RecvHolds /\ ChannelsHold /\ SendHolds
  BY DEF Sound, Contents
<1>2. Owner' = Owner /\ UNCHANGED <<chPost, send>>
  BY OwnersStay DEF HasRead, sockets
<1>3. PICK m \in Message :
        /\ Owner[m.via] = Owner[l[1]]
        /\ recv'[l].msg = m
        /\ recv'[l].at = IF m.from = Owner[l[1]] THEN "lookup" ELSE "refuse"
  BY DEF HasRead
<1>4. m # Nil
  BY NilAssumption
<1>5. \A n \in Loop : n # l => recv'[n] = recv[n]
  BY DEF HasRead
<1>6. RecvHolds'
  BY <1>1, <1>2, <1>3, <1>4, <1>5 DEF RecvHolds
<1> QED BY <1>1, <1>2, <1>6, ChannelsHoldSame, SendHoldsSame DEF Contents

LEMMA ContentsLookup ==
  ASSUME Sound, NEW l \in Loop, HasLookedUp(l)
  PROVE  Contents'
<1>1. RecvHolds /\ ChannelsHold /\ SendHolds
  BY DEF Sound, Contents
<1>2. Owner' = Owner /\ UNCHANGED <<chPost, send>>
  BY OwnersStay DEF HasLookedUp, sockets
<1>3. /\ recv[l].at = "lookup" /\ recv'[l].msg = recv[l].msg
      /\ \/ recv'[l].at = "refuse"
         \/ /\ recv'[l].at = "adding" /\ recv'[l].to \in Users
            /\ KeyOf[recv'[l].to] = recv[l].msg.to
      /\ \A n \in Loop : n # l => recv'[n] = recv[n]
  BY DEF HasLookedUp
<1>4. RecvHolds'
  BY <1>1, <1>2, <1>3, NilAssumption DEF RecvHolds
<1> QED BY <1>1, <1>2, <1>4, ChannelsHoldSame, SendHoldsSame DEF Contents

LEMMA ContentsPost ==
  ASSUME Sound, NEW l \in Loop, HasPosted(l)
  PROVE  Contents'
<1>1. TypeOK /\ Identity /\ RecvHolds /\ ChannelsHold /\ SendHolds
  BY DEF Sound, Contents
<1>2. Owner' = Owner /\ UNCHANGED send
  BY OwnersStay DEF HasPosted, sockets
<1>3. /\ recv[l].at = "adding" /\ recv[l].msg \in Message
      /\ recv[l].to \in Users /\ KeyOf[recv[l].to] = recv[l].msg.to
      /\ Post(recv[l].to, recv[l].msg)
      /\ \A n \in Loop : n # l => recv'[n] = recv[n]
      /\ \/ recv'[l].at = "read" /\ recv'[l].msg = Nil
         \/ recv'[l].at = "refuse" /\ recv'[l].msg = recv[l].msg
  BY DEF HasPosted
<1>4. RecvHolds'
  BY <1>1, <1>2, <1>3 DEF RecvHolds
<1>5. Genuine(recv[l].msg)
  BY <1>1, <1>3, NilAssumption, Pairs DEF RecvHolds, Genuine, Identity
<1>6. recv[l].msg \in Parcel
  BY <1>3 DEF Parcel
<1>7. ChannelsHold'
  BY <1>1, <1>2, <1>3, <1>5, <1>6, ChannelsHoldPost
<1> QED BY <1>1, <1>2, <1>4, <1>7, SendHoldsSame DEF Contents

LEMMA ContentsRefuse ==
  ASSUME Sound, NEW l \in Loop, HasRefused(l)
  PROVE  Contents'
<1>1. TypeOK /\ Identity /\ RecvHolds /\ ChannelsHold /\ SendHolds
  BY DEF Sound, Contents
<1>2. Owner' = Owner /\ UNCHANGED send
  BY OwnersStay DEF HasRefused, sockets
<1>3. RecvHolds'
  BY <1>1, <1>2 DEF RecvHolds, HasRefused
<1>4. PICK m \in Error : m.to = KeyOf[Own(l)] /\ Post(Own(l), m)
  BY DEF HasRefused
<1>5. m \in Parcel /\ m.via = Nil
  BY DEF Parcel, Error
<1>6. Own(l) \in Users
  BY DEF HasRefused
<1>7. ChannelsHold'
  BY <1>1, <1>2, <1>4, <1>5, <1>6, ChannelsHoldPost
<1> QED BY <1>1, <1>2, <1>3, <1>7, SendHoldsSame DEF Contents

\* The panic of recv: the message in its hand goes.
LEMMA ContentsFall ==
  ASSUME Sound, NEW l \in Loop, HasFallen(l)
  PROVE  Contents'
<1>1. RecvHolds /\ ChannelsHold /\ SendHolds
  BY DEF Sound, Contents
<1>2. Owner' = Owner /\ UNCHANGED <<chPost, send>>
  BY OwnersStay DEF HasFallen
<1>3. RecvHolds'
  BY <1>1, <1>2 DEF RecvHolds, HasFallen
<1> QED BY <1>1, <1>2, <1>3, ChannelsHoldSame, SendHoldsSame DEF Contents

LEMMA ContentsTake ==
  ASSUME Sound, NEW l \in Loop, HasTaken(l)
  PROVE  Contents'
<1>1. TypeOK /\ Identity /\ RecvHolds /\ ChannelsHold /\ SendHolds
  BY DEF Sound, Contents
<1>2. Owner' = Owner /\ UNCHANGED recv
  BY OwnersStay DEF HasTaken, sockets
<1> DEFINE u == Own(l)
           x == chPost[u][1]
<1>3. /\ u \in Users /\ KeyOf[u] = Owner[l[1]]
      /\ Len(chPost[u]) \in Nat \ {0} /\ x \in Parcel
      /\ send'[l].at = "check" /\ send'[l].msg = x
      /\ \A m \in Loop : m # l => send'[m] = send[m]
      /\ Len(chPost'[u]) = Len(chPost[u]) - 1
      /\ \A i \in 1..Len(chPost'[u]) : chPost'[u][i] = chPost[u][i + 1]
      /\ \A v \in Users : v # u => chPost'[v] = chPost[v]
  BY DEF HasTaken
<1>4. x # Nil /\ x.to = KeyOf[u] /\ (x.via # Nil => Genuine(x))
  BY <1>1, <1>3, NilAssumption DEF ChannelsHold, Parcel
<1> HIDE DEF u, x
<1>5. SendHolds'
  BY <1>1, <1>2, <1>3, <1>4 DEF SendHolds, Genuine
<1>6. ChannelsHold'
  <2> SUFFICES ASSUME NEW v \in Users, NEW i \in 1..Len(chPost'[v])
               PROVE  /\ chPost'[v][i].to = KeyOf[v]
                      /\ chPost'[v][i].via # Nil =>
                           /\ chPost'[v][i].from # Nil
                           /\ chPost'[v][i].from = Owner[chPost'[v][i].via]
    BY <1>2 DEF ChannelsHold, Genuine
  <2>1. CASE v = u
    <3>1. i + 1 \in 1..Len(chPost[u])
      BY <1>3, <2>1
    <3> QED BY <1>1, <1>3, <2>1, <3>1 DEF ChannelsHold, Genuine
  <2>2. CASE v # u
    BY <1>1, <1>3, <2>2 DEF ChannelsHold, Genuine
  <2> QED BY <2>1, <2>2
<1> QED BY <1>1, <1>2, <1>5, <1>6, RecvHoldsSame DEF Contents

\* CheckContact, WriteMessage and its panic: the message stays in the hand or goes.
LEMMA ContentsSend ==
  ASSUME Sound, NEW l \in Loop, HasChecked(l) \/ HasWritten(l) \/ HasPanicked(l)
  PROVE  Contents'
<1>1. RecvHolds /\ ChannelsHold /\ SendHolds
  BY DEF Sound, Contents
<1>2. Owner' = Owner /\ UNCHANGED <<chPost, recv>>
  BY OwnersStay DEF HasChecked, HasWritten, HasPanicked, sockets
<1>3. /\ \A m \in Loop : m # l => send'[m] = send[m]
      /\ \/ send'[l].at \in {"take", "end"} /\ send'[l].msg = Nil
         \/ /\ send[l].msg # Nil /\ send[l].msg.via # Nil
            /\ send'[l].at = "write" /\ send'[l].msg = send[l].msg
  BY NilAssumption DEF HasChecked, HasWritten, HasPanicked, Parcel
<1>4. SendHolds'
  BY <1>1, <1>2, <1>3 DEF SendHolds, Genuine
<1> QED BY <1>1, <1>2, <1>4, ChannelsHoldSame, RecvHoldsSame DEF Contents

-----------------------------------------------------------------------------
(* Types, identities and contents together *)

LEMMA SoundInit == Init => Sound
BY TypeInit, IdentityInit, ContentsInit DEF Sound

LEMMA SoundNext == Sound /\ [Next]_vars => Sound'
<1> SUFFICES ASSUME Sound, [Next]_vars PROVE Sound'
  OBVIOUS
<1>1. ASSUME NEW l \in Loop, RecvRead(l) PROVE Contents'
  BY <1>1, ReadStep, ContentsRead
<1>2. ASSUME NEW l \in Loop, RecvLookup(l) PROVE Contents'
  BY <1>2, LookupStep, ContentsLookup
<1>3. ASSUME NEW l \in Loop, RecvPost(l) PROVE Contents'
  BY <1>3, PostStep, ContentsPost
<1>4. ASSUME NEW l \in Loop, RecvRefuse(l) PROVE Contents'
  BY <1>4, RefuseStep, ContentsRefuse
<1>5. ASSUME NEW l \in Loop, SendTake(l) PROVE Contents'
  BY <1>5, TakeStep, ContentsTake
<1>6. ASSUME NEW l \in Loop, SendCheck(l) \/ SendWrite(l) \/ SendPanic(l)
      PROVE  Contents'
  BY <1>6, CheckStep, WriteStep, PanicStep, ContentsSend
<1>7. ASSUME \/ \E u \in Users : SignUp(u) \/ Install(u) \/ GuestAdds(u)
             \/ \E k \in Keys : Expire(k)
             \/ \E c \in Conns : HangUp(c)
             \/ \E l \in Loop : RecvStop(l) \/ SendStop(l)
             \/ GuestAdded
      PROVE  Contents'
  <2>1. Rested
    BY <1>7, OtherStep
  <2>2. TypeOK'
    BY <2>1 DEF Rested
  <2> QED BY <2>1, <2>2, QuietRest, ContentsQuiet
<1>12. ASSUME NEW l \in Loop, RecvPanic(l) PROVE Contents'
  BY <1>12, FallStep, ContentsFall
<1>8. CASE Transport
  <2>1. TypeOK'
    BY <1>8, TransportStep DEF Settled
  <2>2. Contents'
    BY <1>1, <1>2, <1>3, <1>4, <1>5, <1>6, <1>7, <1>8, <1>12
       DEF Transport, RecvStep, RecvHandle, SendStep
  <2> QED BY <1>8, <2>1, <2>2, IdentityTransport DEF Sound
<1>9. ASSUME NEW c \in Conns, Start(c) PROVE Sound'
  <2>1. TypeOK'
    BY <1>9, StartStep DEF Started, Sound
  <2>2. Identity'
    BY <1>9, IdentityStart
  <2>3. Contents'
    BY <1>9, <2>1, QuietStart, ContentsQuiet
  <2> QED BY <2>1, <2>2, <2>3 DEF Sound
<1>10. ASSUME NEW c \in Conns, Serve(c) PROVE Sound'
  <2>1. TypeOK'
    BY <1>10, ServeStep DEF Attached, Sound
  <2>2. Identity'
    BY <1>10, IdentityServe
  <2>3. Contents'
    BY <1>10, <2>1, QuietServe, ContentsQuiet
  <2> QED BY <2>1, <2>2, <2>3 DEF Sound
<1>11. CASE UNCHANGED vars
  <2>1. TypeOK'
    BY <1>11 DEF Sound, TypeOK, vars, users, sockets, loops
  <2>2. Identity'
    BY <1>11, OwnersStay DEF Sound, Identity, vars, users, sockets, loops
  <2>3. Contents'
    <3>1. UNCHANGED <<recv, send, chPost>> /\ Owner' = Owner
      BY <1>11, OwnersStay DEF vars, sockets, loops
    <3>2. RecvHolds /\ ChannelsHold /\ SendHolds
      BY DEF Sound, Contents
    <3> QED BY <3>1, <3>2, RecvHoldsSame, ChannelsHoldSame, SendHoldsSame DEF Contents
  <2> QED BY <2>1, <2>2, <2>3 DEF Sound
<1> QED BY <1>8, <1>9, <1>10, <1>11 DEF Next, Transport

LEMMA SoundHolds == Spec => []Sound
<1> QED BY SoundInit, SoundNext, PTL DEF Spec

\* Every variable keeps its type; in particular chPost never holds more than
\* Capacity messages, and who reads from it or posts to it is a user object.
THEOREM TypeCorrectness == Spec => []TypeOK
<1>1. Sound => TypeOK
  BY DEF Sound
<1> QED BY <1>1, SoundHolds, PTL

-----------------------------------------------------------------------------
(* The process ends only in company *)

\* Two writers of one map are two loops of a key on two connections, or a guest.
LEMMA TwoWriters ==
  ASSUME Sound, NEW l \in Loop, recv[l].at = "lookup", Adding(Own(l)), Own(l) \in Users
  PROVE  \/ guest # Nil
         \/ \E c, d \in Conns : c # d /\ Owner[c] # Nil /\ Owner[c] = Owner[d]
<1>1. TypeOK /\ Identity
  BY DEF Sound
<1>2. CASE guest = Own(l)
  BY <1>2, NilAssumption
<1>3. CASE guest # Own(l)
  <2>1. PICK m \in Loop : recv[m].at = "adding" /\ Own(m) = Own(l)
    BY <1>3 DEF Adding
  <2>2. m # l /\ recv[m].at # "none" /\ recv[l].at # "none"
    BY <2>1
  <2>3. /\ l[1] \in Conns /\ l[2] \in Conns /\ l = <<l[1], l[2]>>
        /\ m[1] \in Conns /\ m[2] \in Conns /\ m = <<m[1], m[2]>>
    BY Pairs
  <2>4. /\ Owner[l[1]] # Nil /\ Owner[l[2]] = Owner[l[1]]
        /\ Owner[m[1]] # Nil /\ Owner[m[2]] = Owner[m[1]]
    BY <1>1, <2>2 DEF Identity
  <2>5. Owner[l[1]] = Owner[m[1]]
    BY <1>1, <2>1, <2>4, Owners
  <2>6. l[1] # m[1] \/ l[2] # m[2]
    BY <2>2, <2>3
  <2> QED BY <2>3, <2>4, <2>5, <2>6
<1> QED BY <1>2, <1>3

LEMMA CrashNext == Sound /\ CrashNeedsCompany /\ [Next]_vars => CrashNeedsCompany'
<1> SUFFICES ASSUME Sound, CrashNeedsCompany, [Next]_vars, crashed'
             PROVE  \/ guest' # Nil
                    \/ \E c, d \in Conns : c # d /\ Owner'[c] # Nil /\ Owner'[c] = Owner'[d]
  BY DEF CrashNeedsCompany
<1>1. CASE UNCHANGED vars
  BY <1>1, OwnersStay DEF CrashNeedsCompany, vars, sockets
<1>2. CASE Next
  <2>1. ~crashed
    BY <1>2 DEF Next
  <2>2. ASSUME NEW l \in Loop, RecvLookup(l)
        PROVE  \/ guest' # Nil
               \/ \E c, d \in Conns : c # d /\ Owner'[c] # Nil /\ Owner'[c] = Owner'[d]
    <3>1. HasLookedUp(l)
      BY <2>2, LookupStep
    <3>2. Owner' = Owner /\ UNCHANGED guest
      BY <3>1, OwnersStay DEF HasLookedUp, sockets
    <3>3. recv[l].at = "lookup" /\ Own(l) \in Users
      BY <3>1 DEF HasLookedUp
    <3>4. UNCHANGED crashed \/ crashed' = FALSE \/ crashed' = Adding(Own(l))
      BY <3>1 DEF HasLookedUp
    <3>5. Adding(Own(l))
      BY <2>1, <3>4, Zenon
    <3> QED BY <3>2, <3>3, <3>5, TwoWriters
  <2>3. ASSUME \/ \E u \in Users : SignUp(u) \/ Install(u) \/ GuestAdds(u)
               \/ \E k \in Keys : Expire(k)
               \/ \E c \in Conns : HangUp(c)
               \/ \E l \in Loop : RecvStop(l) \/ SendStop(l)
               \/ GuestAdded
        PROVE  guest' # Nil
    <3>1. UNCHANGED crashed \/ guest' # Nil
      BY <2>3, OtherStep DEF Rested
    <3> QED BY <2>1, <3>1, Zenon
  <2>4. ASSUME \E l \in Loop : RecvRead(l) \/ RecvPost(l) \/ RecvRefuse(l) \/ RecvPanic(l)
                               \/ SendTake(l) \/ SendCheck(l) \/ SendWrite(l) \/ SendPanic(l)
        PROVE  FALSE
    <3>1. UNCHANGED crashed
      BY <2>4 DEF RecvRead, RecvPost, RecvRefuse, RecvPanic, SendTake, SendCheck, SendWrite,
                  SendPanic
    <3> QED BY <2>1, <3>1, Zenon
  <2>5. ASSUME \E c \in Conns : Start(c) \/ Serve(c)
        PROVE  FALSE
    <3>1. UNCHANGED crashed
      BY <2>5 DEF Start, Serve
    <3> QED BY <2>1, <3>1, Zenon
  <2> QED BY <1>2, <2>2, <2>3, <2>4, <2>5 DEF Next, RecvStep, RecvHandle, SendStep
<1> QED BY <1>1, <1>2

\* A process in which every key is connected once, and no guest signs up, is
\* never ended by Go's map check: RecvLookup finds nobody else at the Contacts
\* of its user object.
THEOREM CrashesNeedCompany == Spec => []CrashNeedsCompany
<1>1. Init => CrashNeedsCompany
  BY DEF Init, CrashNeedsCompany
<1> QED BY <1>1, SoundHolds, CrashNext, PTL DEF Spec

-----------------------------------------------------------------------------
(* A message is in one place only *)

LEMMA Numbers ==
  /\ IdOf(Nil) = 0
  /\ \A m \in Message : IdOf(m) = m.id /\ m.id \in Nat \ {0} /\ m.via \in Conns
  /\ \A m \in Error : IdOf(m) = 0
BY NilAssumption, MaxSentAssumption DEF IdOf, Message, Error, Ids

LEMMA NumbersAreNat ==
  ASSUME TypeOK
  PROVE  /\ sent \in Nat
         /\ \A l \in Loop : IdOf(recv[l].msg) \in Nat /\ IdOf(send[l].msg) \in Nat
         /\ \A u \in Users : \A i \in 1..Len(chPost[u]) : /\ chPost[u][i] \in Parcel
                                                          /\ IdOf(chPost[u][i]) \in Nat
         /\ \A u \in Users : Len(chPost[u]) \in Nat
<1>1. sent \in Nat
  BY MaxSentAssumption DEF TypeOK
<1>2. \A l \in Loop : IdOf(recv[l].msg) \in Nat /\ IdOf(send[l].msg) \in Nat
  BY LoopParts, Numbers
<1>3. \A u \in Users : chPost[u] \in Seq(Parcel)
  BY DEF TypeOK, Parcel
<1>4. \A u \in Users : \A i \in 1..Len(chPost[u]) : chPost[u][i] \in Parcel
  BY <1>3, ElementOfSeq
<1>5. \A u \in Users : Len(chPost[u]) \in Nat
  BY <1>3, LenProperties
<1> QED BY <1>1, <1>2, <1>4, <1>5, Numbers DEF Parcel

LEMMA UniqueInit == Init => Unique
<1> SUFFICES ASSUME Init PROVE Unique
  OBVIOUS
<1>1. \A u \in Users : Len(chPost[u]) = 0
  BY EmptySeq DEF Init
<1>2. sent = 0 /\ \A l \in Loop : recv[l].msg = Nil /\ send[l].msg = Nil
  BY DEF Init
<1> QED BY <1>1, <1>2, Numbers DEF Unique, Bounded, HandsDiffer, ChannelsDiffer

\* Nothing moves, or something goes.
LEMMA UniqueLess ==
  ASSUME TypeOK, Unique,
         \A l \in Loop : recv'[l].msg \in {recv[l].msg, Nil},
         \A l \in Loop : send'[l].msg \in {send[l].msg, Nil},
         UNCHANGED <<chPost, sent>>
  PROVE  Unique'
<1>1. \A l \in Loop : /\ IdOf(recv'[l].msg) \in {IdOf(recv[l].msg), 0}
                      /\ IdOf(send'[l].msg) \in {IdOf(send[l].msg), 0}
  BY Numbers
<1>2. sent \in Nat
  BY NumbersAreNat
<1>3. Bounded'
  BY <1>1, <1>2 DEF Unique, Bounded
<1>4. HandsDiffer'
  BY <1>1 DEF Unique, HandsDiffer
<1>5. ChannelsDiffer'
  BY <1>1 DEF Unique, ChannelsDiffer
<1> QED BY <1>3, <1>4, <1>5 DEF Unique

LEMMA UniqueRead ==
  ASSUME TypeOK, Unique, NEW l \in Loop, HasRead(l)
  PROVE  Unique'
<1>1. /\ sent' = sent + 1 /\ sent \in Nat
      /\ IdOf(recv'[l].msg) = sent + 1
      /\ \A n \in Loop : n # l => recv'[n] = recv[n]
      /\ UNCHANGED <<chPost, send>>
  BY Numbers, NumbersAreNat DEF HasRead
<1>2. Bounded'
  <2>1. \A n \in Loop : n # l => IdOf(recv'[n].msg) = IdOf(recv[n].msg)
    BY <1>1
  <2>2. \A n \in Loop : IdOf(recv[n].msg) <= sent /\ IdOf(send[n].msg) <= sent
    BY DEF Unique, Bounded
  <2>3. \A n \in Loop : IdOf(recv'[n].msg) <= sent + 1 /\ IdOf(send[n].msg) <= sent + 1
    BY <1>1, <2>1, <2>2, NumbersAreNat
  <2>4. \A u \in Users : \A i \in 1..Len(chPost[u]) : IdOf(chPost[u][i]) <= sent + 1
    BY <1>1, NumbersAreNat DEF Unique, Bounded
  <2> QED BY <1>1, <2>3, <2>4 DEF Bounded
<1>3. HandsDiffer'
  <2>1. \A n \in Loop : IdOf(recv[n].msg) # sent + 1 /\ IdOf(send[n].msg) # sent + 1
    BY <1>1, NumbersAreNat DEF Unique, Bounded
  <2>2. \A n \in Loop : n # l => IdOf(recv'[n].msg) = IdOf(recv[n].msg)
    BY <1>1
  <2> QED BY <1>1, <2>1, <2>2 DEF Unique, HandsDiffer
<1>4. ChannelsDiffer'
  <2>1. \A u \in Users : \A i \in 1..Len(chPost[u]) : IdOf(chPost[u][i]) # sent + 1
    BY <1>1, NumbersAreNat DEF Unique, Bounded
  <2>2. \A n \in Loop : n # l => IdOf(recv'[n].msg) = IdOf(recv[n].msg)
    BY <1>1
  <2> QED BY <1>1, <2>1, <2>2 DEF Unique, ChannelsDiffer
<1> QED BY <1>2, <1>3, <1>4 DEF Unique

\* The message m goes from l's hand, if it is not an error, to the end of u's channel.
LEMMA UniquePost ==
  ASSUME TypeOK, Unique, NEW l \in Loop, NEW u \in Users, NEW m \in Parcel, Post(u, m),
         Room(u), IdOf(m) \in {IdOf(recv[l].msg), 0}, recv'[l].msg = Nil,
         \A n \in Loop : n # l => recv'[n] = recv[n],
         UNCHANGED <<send, sent>>
  PROVE  Unique'
<1>1. /\ \A v \in Users : v # u => chPost'[v] = chPost[v]
      /\ Len(chPost'[u]) = Len(chPost[u]) + 1 /\ Len(chPost[u]) \in Nat
      /\ chPost'[u][Len(chPost[u]) + 1] = m
      /\ \A i \in 1..Len(chPost[u]) : chPost'[u][i] = chPost[u][i]
  BY PostEffect, NumbersAreNat
<1> DEFINE k == Len(chPost[u]) + 1
           Old(v, i) == i \in 1..Len(chPost[v]) /\ chPost'[v][i] = chPost[v][i]
           New(v, i) == v = u /\ i = k /\ chPost'[v][i] = m
<1>2. \A v \in Users : \A i \in 1..Len(chPost'[v]) : Old(v, i) \/ New(v, i)
  BY <1>1
<1>3. IdOf(recv'[l].msg) = 0 /\ \A n \in Loop : n # l => recv'[n].msg = recv[n].msg
  BY Numbers
<1>4. Bounded'
  <2>1. IdOf(m) <= sent
    BY NumbersAreNat DEF Unique, Bounded
  <2>2. \A n \in Loop : IdOf(recv'[n].msg) <= sent /\ IdOf(send'[n].msg) <= sent
    BY <1>3, NumbersAreNat DEF Unique, Bounded
  <2>3. \A v \in Users : \A i \in 1..Len(chPost'[v]) : IdOf(chPost'[v][i]) <= sent
    BY <1>2, <2>1 DEF Unique, Bounded
  <2> QED BY <2>2, <2>3 DEF Bounded
<1>5. HandsDiffer'
  BY <1>3 DEF Unique, HandsDiffer
<1>6. ChannelsDiffer'
  <2> SUFFICES ASSUME NEW v \in Users, NEW i \in 1..Len(chPost'[v]),
                      IdOf(chPost'[v][i]) # 0
      PROVE  /\ \A n \in Loop : /\ IdOf(chPost'[v][i]) # IdOf(recv'[n].msg)
                                /\ IdOf(chPost'[v][i]) # IdOf(send'[n].msg)
             /\ \A w \in Users : \A j \in 1..Len(chPost'[w]) :
                  IdOf(chPost'[v][i]) = IdOf(chPost'[w][j]) => v = w /\ i = j
    BY DEF ChannelsDiffer
  <2>1. CASE Old(v, i)
    <3>1. \A n \in Loop : /\ IdOf(chPost'[v][i]) # IdOf(recv'[n].msg)
                          /\ IdOf(chPost'[v][i]) # IdOf(send'[n].msg)
      BY <1>3, <2>1 DEF Unique, ChannelsDiffer
    <3>2. ASSUME NEW w \in Users, NEW j \in 1..Len(chPost'[w]),
                 IdOf(chPost'[v][i]) = IdOf(chPost'[w][j])
          PROVE  v = w /\ i = j
      <4>1. CASE Old(w, j)
        BY <2>1, <3>2, <4>1 DEF Unique, ChannelsDiffer
      <4>2. CASE New(w, j)
        BY <2>1, <3>2, <4>2 DEF Unique, ChannelsDiffer
      <4> QED BY <1>2, <4>1, <4>2
    <3> QED BY <3>1, <3>2
  <2>2. CASE New(v, i)
    <3>1. \A n \in Loop : /\ IdOf(m) # IdOf(recv'[n].msg)
                          /\ IdOf(m) # IdOf(send'[n].msg)
      BY <1>3, <2>2 DEF Unique, HandsDiffer
    <3>2. ASSUME NEW w \in Users, NEW j \in 1..Len(chPost'[w]),
                 IdOf(m) = IdOf(chPost'[w][j])
          PROVE  v = w /\ i = j
      <4>1. CASE Old(w, j)
        BY <2>2, <3>2, <4>1 DEF Unique, ChannelsDiffer
      <4>2. CASE New(w, j)
        BY <2>2, <4>2
      <4> QED BY <1>2, <4>1, <4>2
    <3> QED BY <2>2, <3>1, <3>2
  <2> QED BY <1>2, <2>1, <2>2
<1> QED BY <1>4, <1>5, <1>6 DEF Unique

LEMMA UniqueTake ==
  ASSUME TypeOK, Unique, NEW l \in Loop, HasTaken(l)
  PROVE  Unique'
<1> DEFINE u == Own(l)
           x == chPost[u][1]
<1>1. /\ u \in Users /\ send[l].msg = Nil
      /\ Len(chPost[u]) \in Nat \ {0} /\ x \in Parcel
      /\ send'[l].msg = x
      /\ \A m \in Loop : m # l => send'[m] = send[m]
      /\ Len(chPost'[u]) = Len(chPost[u]) - 1
      /\ \A i \in 1..Len(chPost'[u]) : chPost'[u][i] = chPost[u][i + 1]
      /\ \A v \in Users : v # u => chPost'[v] = chPost[v]
      /\ UNCHANGED <<recv, sent>>
  BY DEF HasTaken, sockets
<1> DEFINE At(v, i) == IF v = u THEN i + 1 ELSE i
<1>2. \A v \in Users : \A i \in 1..Len(chPost'[v]) :
        /\ At(v, i) \in 1..Len(chPost[v]) /\ chPost'[v][i] = chPost[v][At(v, i)]
        /\ v = u => At(v, i) # 1
  <2> SUFFICES ASSUME NEW v \in Users, NEW i \in 1..Len(chPost'[v])
      PROVE  /\ At(v, i) \in 1..Len(chPost[v]) /\ chPost'[v][i] = chPost[v][At(v, i)]
             /\ v = u => At(v, i) # 1
    OBVIOUS
  <2>1. CASE v = u
    BY <1>1, <2>1
  <2>2. CASE v # u
    BY <1>1, <2>2
  <2> QED BY <2>1, <2>2
<1>3. \A v \in Users : \A i, j \in 1..Len(chPost'[v]) : At(v, i) = At(v, j) => i = j
  BY <1>1, NumbersAreNat
<1>4. 1 \in 1..Len(chPost[u])
  BY <1>1
<1> HIDE DEF u, x, At
<1>5. Bounded'
  BY <1>1, <1>2, <1>4 DEF Unique, Bounded, x
<1>6. HandsDiffer'
  <2>1. \A n \in Loop : /\ IdOf(x) # 0 => IdOf(x) # IdOf(recv[n].msg)
                        /\ IdOf(x) # 0 => IdOf(x) # IdOf(send[n].msg)
    BY <1>1, <1>4 DEF Unique, ChannelsDiffer, x
  <2>2. \A m \in Loop : m # l => send'[m].msg = send[m].msg
    BY <1>1
  <2>3. recv' = recv /\ send'[l].msg = x
    BY <1>1
  <2>4. HandsDiffer
    BY DEF Unique
  <2> QED BY <2>1, <2>2, <2>3, <2>4 DEF HandsDiffer
<1>7. ChannelsDiffer'
  <2> SUFFICES ASSUME NEW v \in Users, NEW i \in 1..Len(chPost'[v]),
                      IdOf(chPost'[v][i]) # 0
      PROVE  /\ \A n \in Loop : /\ IdOf(chPost'[v][i]) # IdOf(recv'[n].msg)
                                /\ IdOf(chPost'[v][i]) # IdOf(send'[n].msg)
             /\ \A w \in Users : \A j \in 1..Len(chPost'[w]) :
                  IdOf(chPost'[v][i]) = IdOf(chPost'[w][j]) => v = w /\ i = j
    BY DEF ChannelsDiffer
  <2> DEFINE y == chPost[v][At(v, i)]
  <2>1. chPost'[v][i] = y /\ At(v, i) \in 1..Len(chPost[v]) /\ IdOf(y) # 0
    BY <1>2
  <2>2. IdOf(y) # IdOf(x)
    BY <1>1, <1>2, <1>4, <2>1 DEF Unique, ChannelsDiffer, x
  <2>3. \A n \in Loop : IdOf(y) # IdOf(recv[n].msg) /\ IdOf(y) # IdOf(send[n].msg)
    BY <2>1 DEF Unique, ChannelsDiffer
  <2>4. \A n \in Loop : IdOf(y) # IdOf(recv'[n].msg) /\ IdOf(y) # IdOf(send'[n].msg)
    BY <1>1, <2>2, <2>3
  <2>5. ASSUME NEW w \in Users, NEW j \in 1..Len(chPost'[w]), IdOf(y) = IdOf(chPost'[w][j])
        PROVE  v = w /\ i = j
    <3>1. chPost'[w][j] = chPost[w][At(w, j)] /\ At(w, j) \in 1..Len(chPost[w])
      BY <1>2
    <3>2. v = w /\ At(v, i) = At(w, j)
      BY <2>1, <2>5, <3>1 DEF Unique, ChannelsDiffer
    <3> QED BY <1>3, <3>2
  <2> QED BY <2>1, <2>4, <2>5
<1> QED BY <1>5, <1>6, <1>7 DEF Unique

LEMMA UniqueNext == Sound /\ Unique /\ [Next]_vars => Unique'
<1> SUFFICES ASSUME Sound, Unique, [Next]_vars PROVE Unique'
  OBVIOUS
<1>1. TypeOK
  BY DEF Sound
<1>2. ASSUME NEW l \in Loop, RecvRead(l) PROVE Unique'
  BY <1>1, <1>2, ReadStep, UniqueRead
<1>3. ASSUME NEW l \in Loop, RecvLookup(l) PROVE Unique'
  <2>1. HasLookedUp(l)
    BY <1>3, LookupStep
  <2> QED BY <1>1, <2>1, QuietLookup, UniqueLess
<1>4. ASSUME NEW l \in Loop, RecvPost(l) PROVE Unique'
  <2>1. HasPosted(l)
    BY <1>4, PostStep
  <2>2. recv[l].msg \in Parcel /\ recv[l].to \in Users
    BY <2>1 DEF HasPosted, Parcel
  <2>3. CASE Room(recv[l].to)
    BY <1>1, <2>1, <2>2, <2>3, UniquePost DEF HasPosted
  <2>4. CASE ~Room(recv[l].to)
    <3>1. chPost' = chPost
      BY <1>1, <2>1, <2>2, <2>4, PostEffect DEF HasPosted
    <3>2. /\ \A n \in Loop : recv'[n].msg = recv[n].msg
          /\ UNCHANGED <<send, sent>>
      BY <2>1, <2>4 DEF HasPosted
    <3> QED BY <1>1, <3>1, <3>2, UniqueLess
  <2> QED BY <2>3, <2>4
<1>5. ASSUME NEW l \in Loop, RecvRefuse(l) PROVE Unique'
  <2>1. HasRefused(l)
    BY <1>5, RefuseStep
  <2>2. PICK m \in Error : Post(Own(l), m)
    BY <2>1 DEF HasRefused
  <2>3. m \in Parcel /\ Own(l) \in Users /\ IdOf(m) = 0
    BY <2>1, Numbers DEF HasRefused, Parcel
  <2>4. CASE Room(Own(l))
    BY <1>1, <2>1, <2>2, <2>3, <2>4, UniquePost DEF HasRefused
  <2>5. CASE ~Room(Own(l))
    <3>1. chPost' = chPost
      BY <1>1, <2>2, <2>3, <2>5, PostEffect
    <3>2. /\ \A n \in Loop : recv'[n].msg \in {recv[n].msg, Nil}
          /\ UNCHANGED <<send, sent>>
      BY <2>1 DEF HasRefused
    <3> QED BY <1>1, <3>1, <3>2, UniqueLess
  <2> QED BY <2>4, <2>5
<1>6. ASSUME NEW l \in Loop, SendTake(l) PROVE Unique'
  BY <1>1, <1>6, TakeStep, UniqueTake
<1>7. ASSUME NEW l \in Loop, SendCheck(l) \/ SendWrite(l) \/ SendPanic(l)
      PROVE  Unique'
  <2>1. HasChecked(l) \/ HasWritten(l) \/ HasPanicked(l)
    BY <1>7, CheckStep, WriteStep, PanicStep
  <2>2. /\ \A n \in Loop : send'[n].msg \in {send[n].msg, Nil}
        /\ UNCHANGED <<recv, chPost, sent>>
    BY <2>1 DEF HasChecked, HasWritten, HasPanicked
  <2> QED BY <1>1, <2>2, UniqueLess
<1>8. ASSUME Quiet PROVE Unique'
  BY <1>1, <1>8, UniqueLess DEF Quiet
<1>9. CASE UNCHANGED vars
  BY <1>1, <1>9, UniqueLess DEF vars, loops
<1>10. ASSUME \/ \E u \in Users : SignUp(u) \/ Install(u) \/ GuestAdds(u)
              \/ \E k \in Keys : Expire(k)
              \/ \E c \in Conns : HangUp(c)
              \/ \E l \in Loop : RecvStop(l) \/ SendStop(l)
              \/ GuestAdded
       PROVE  Unique'
  BY <1>8, <1>10, OtherStep, QuietRest
<1>11. ASSUME NEW c \in Conns, Start(c) \/ Serve(c) PROVE Unique'
  BY <1>8, <1>11, QuietStart, QuietServe
<1>12. ASSUME NEW l \in Loop, RecvPanic(l) PROVE Unique'
  <2>1. HasFallen(l)
    BY <1>12, FallStep
  <2>2. /\ \A n \in Loop : recv'[n].msg \in {recv[n].msg, Nil}
        /\ UNCHANGED <<send, chPost, sent>>
    BY <2>1 DEF HasFallen
  <2> QED BY <1>1, <2>2, UniqueLess
<1> QED BY <1>2, <1>3, <1>4, <1>5, <1>6, <1>7, <1>9, <1>10, <1>11, <1>12
        DEF Next, RecvStep, RecvHandle, SendStep

-----------------------------------------------------------------------------
(* The relay keeps its promise *)

Truthful(m) == m # Nil /\ m.via # Nil /\ m.from = Owner[m.via]
InHand(m) == \E l \in Loop : recv[l].msg = m \/ send[l].msg = m
InChannel(m) == \E u \in Users : \E i \in 1..Len(chPost[u]) : chPost[u][i] = m
Held(m) == InHand(m) \/ InChannel(m)

LEMMA Flying == TypeOK => \A m : m \in InFlight <=> Truthful(m) /\ Held(m)
<1> SUFFICES ASSUME TypeOK, NEW m PROVE m \in InFlight <=> Truthful(m) /\ Held(m)
  OBVIOUS
<1>1. \A u \in Users : DOMAIN chPost[u] = 1..Len(chPost[u])
  BY LenProperties DEF TypeOK
<1>2. \A u \in Users : m \in Range(chPost[u]) <=> \E i \in 1..Len(chPost[u]) : chPost[u][i] = m
  BY <1>1 DEF Range
<1>3. m \in UNION {Range(chPost[u]) : u \in Users} <=>
        \E u \in Users : \E i \in 1..Len(chPost[u]) : chPost[u][i] = m
  BY <1>2
<1>4. m \in Hands <=> \E l \in Loop : recv[l].msg = m \/ send[l].msg = m
  BY DEF Hands
<1> QED BY <1>3, <1>4 DEF InFlight, Truthful, Held, InHand, InChannel

LEMMA FlyingNext == TypeOK' => \A m : m \in InFlight' <=> Truthful(m)' /\ Held(m)'
<1> DEFINE F == \A m : m \in InFlight <=> Truthful(m) /\ Held(m)
<1>1. TypeOK => F
  BY Flying
<1> HIDE DEF F
<1>2. TypeOK' => F'
  BY <1>1, PTL
<1> QED BY <1>2 DEF F

\* What is held was read from a connection of somebody.
LEMMA HeldFrom ==
  ASSUME Sound, NEW m, Held(m), m # Nil, m.via # Nil
  PROVE  m \in Message /\ m.via \in Conns /\ Owner[m.via] # Nil
<1>1. TypeOK /\ Identity /\ RecvHolds /\ ChannelsHold /\ SendHolds
  BY DEF Sound, Contents
<1>2. ASSUME NEW l \in Loop, recv[l].msg = m
      PROVE  m \in Message /\ Owner[m.via] # Nil
  <2>1. m \in Message
    BY <1>1, <1>2, LoopParts
  <2>2. recv[l].at # "none" /\ Owner[m.via] = Owner[l[1]]
    BY <1>1, <1>2 DEF RecvHolds
  <2> QED BY <1>1, <2>1, <2>2 DEF Identity
<1>3. ASSUME NEW l \in Loop, send[l].msg = m
      PROVE  m \in Message /\ Owner[m.via] # Nil
  <2>1. m \in Parcel
    BY <1>1, <1>3, LoopParts DEF Parcel
  <2>2. m \in Message
    BY <2>1 DEF Parcel, Error
  <2> QED BY <1>1, <1>3, <2>2 DEF SendHolds, Genuine
<1>4. ASSUME NEW u \in Users, NEW i \in 1..Len(chPost[u]), chPost[u][i] = m
      PROVE  m \in Message /\ Owner[m.via] # Nil
  <2>1. m \in Parcel
    BY <1>1, <1>4, NumbersAreNat
  <2>2. m \in Message
    BY <2>1 DEF Parcel, Error
  <2> QED BY <1>1, <1>4, <2>2 DEF ChannelsHold, Genuine
<1>5. m \in Message /\ Owner[m.via] # Nil
  BY <1>2, <1>3, <1>4 DEF Held, InHand, InChannel
<1> QED BY <1>5 DEF Message

\* Nothing comes or goes.
LEMMA FlightSame ==
  ASSUME Sound, TypeOK',
         \A c \in Conns : Owner[c] # Nil => Owner'[c] = Owner[c],
         \A m : m # Nil /\ m.via # Nil => (Held(m)' <=> Held(m))
  PROVE  InFlight' = InFlight
<1>1. \A m : m \in InFlight <=> Truthful(m) /\ Held(m)
  BY Flying DEF Sound
<1>2. \A m : m \in InFlight' <=> Truthful(m)' /\ Held(m)'
  BY FlyingNext
<1>3. \A m : Held(m) => (Truthful(m)' <=> Truthful(m))
  BY HeldFrom DEF Truthful
<1>4. ASSUME NEW m PROVE m \in InFlight' <=> m \in InFlight
  <2>1. Truthful(m) => m # Nil /\ m.via # Nil
    BY DEF Truthful
  <2>2. Truthful(m)' => m # Nil /\ m.via # Nil
    BY DEF Truthful
  <2> QED BY <1>1, <1>2, <1>3, <2>1, <2>2
<1>5. \A m : m \in InFlight' <=> m \in InFlight
  BY <1>4
<1> QED BY <1>5 DEF InFlight

\* Message m goes.
LEMMA FlightLess ==
  ASSUME Sound, TypeOK', Owner' = Owner, NEW m, m # Nil, m.via # Nil,
         \A x : x # Nil /\ x.via # Nil => (Held(x)' <=> Held(x) /\ x # m)
  PROVE  InFlight' = InFlight \ {m}
<1>1. \A x : x \in InFlight <=> Truthful(x) /\ Held(x)
  BY Flying DEF Sound
<1>2. \A x : x \in InFlight' <=> Truthful(x)' /\ Held(x)'
  BY FlyingNext
<1>3. \A x : Truthful(x)' <=> Truthful(x)
  BY DEF Truthful
<1>4. \A x : Truthful(x) => x # Nil /\ x.via # Nil
  BY DEF Truthful
<1>5. \A x : x \in InFlight' <=> x \in InFlight /\ x # m
  BY <1>1, <1>2, <1>3, <1>4
<1> QED BY <1>5 DEF InFlight

LEMMA HeldQuiet ==
  ASSUME \A l \in Loop : recv'[l].msg = recv[l].msg /\ send'[l].msg = send[l].msg,
         UNCHANGED chPost
  PROVE  \A x : Held(x)' <=> Held(x)
BY DEF Held, InHand, InChannel

LEMMA ChannelPost ==
  ASSUME TypeOK, NEW u \in Users, NEW m \in Parcel, Post(u, m), Room(u)
  PROVE  \A x : InChannel(x)' <=> InChannel(x) \/ x = m
<1>1. /\ \A v \in Users : v # u => chPost'[v] = chPost[v]
      /\ Len(chPost'[u]) = Len(chPost[u]) + 1 /\ Len(chPost[u]) \in Nat
      /\ chPost'[u][Len(chPost[u]) + 1] = m
      /\ \A i \in 1..Len(chPost[u]) : chPost'[u][i] = chPost[u][i]
  BY PostEffect, NumbersAreNat
<1>2. ASSUME NEW x, NEW v \in Users, NEW i \in 1..Len(chPost'[v]), chPost'[v][i] = x
      PROVE  InChannel(x) \/ x = m
  <2>1. CASE v = u /\ i = Len(chPost[u]) + 1
    BY <1>1, <1>2, <2>1
  <2>2. CASE ~(v = u /\ i = Len(chPost[u]) + 1)
    <3>1. i \in 1..Len(chPost[v]) /\ chPost[v][i] = x
      BY <1>1, <1>2, <2>2
    <3> QED BY <3>1 DEF InChannel
  <2> QED BY <2>1, <2>2
<1>3. ASSUME NEW x, NEW v \in Users, NEW i \in 1..Len(chPost[v]), chPost[v][i] = x
      PROVE  \E j \in 1..Len(chPost'[v]) : chPost'[v][j] = x
  BY <1>1, <1>3
<1>4. \E j \in 1..Len(chPost'[u]) : chPost'[u][j] = m
  BY <1>1
<1> QED BY <1>2, <1>3, <1>4 DEF InChannel

LEMMA ChannelTake ==
  ASSUME TypeOK, NEW l \in Loop, HasTaken(l)
  PROVE  \A x : InChannel(x) <=> InChannel(x)' \/ x = chPost[Own(l)][1]
<1> DEFINE u == Own(l)
<1>1. /\ u \in Users /\ Len(chPost[u]) \in Nat \ {0}
      /\ Len(chPost'[u]) = Len(chPost[u]) - 1
      /\ \A i \in 1..Len(chPost'[u]) : chPost'[u][i] = chPost[u][i + 1]
      /\ \A v \in Users : v # u => chPost'[v] = chPost[v]
  BY DEF HasTaken
<1> HIDE DEF u
<1>2. ASSUME NEW x, NEW v \in Users, NEW i \in 1..Len(chPost[v]), chPost[v][i] = x
      PROVE  InChannel(x)' \/ x = chPost[u][1]
  <2>1. CASE v = u /\ i = 1
    BY <1>2, <2>1
  <2>2. CASE v = u /\ i # 1
    <3>1. i - 1 \in 1..Len(chPost'[u]) /\ (i - 1) + 1 = i
      BY <1>1, <2>2
    <3>2. chPost'[u][i - 1] = x
      BY <1>1, <1>2, <2>2, <3>1
    <3> QED BY <1>1, <3>1, <3>2 DEF InChannel
  <2>3. CASE v # u
    BY <1>1, <1>2, <2>3 DEF InChannel
  <2> QED BY <2>1, <2>2, <2>3
<1>3. ASSUME NEW x, NEW v \in Users, NEW i \in 1..Len(chPost'[v]), chPost'[v][i] = x
      PROVE  InChannel(x)
  <2>1. CASE v = u
    <3>1. i + 1 \in 1..Len(chPost[u]) /\ chPost[u][i + 1] = x
      BY <1>1, <1>3, <2>1
    <3> QED BY <1>1, <3>1 DEF InChannel
  <2>2. CASE v # u
    BY <1>1, <1>3, <2>2 DEF InChannel
  <2> QED BY <2>1, <2>2
<1>4. InChannel(chPost[u][1])
  BY <1>1 DEF InChannel
<1>5. \A x : InChannel(x) => InChannel(x)' \/ x = chPost[u][1]
  BY <1>2 DEF InChannel
<1>6. \A x : InChannel(x)' => InChannel(x)
  BY <1>3 DEF InChannel
<1> QED BY <1>4, <1>5, <1>6 DEF u

\* A message with a number is in no second place.
LEMMA OnlyHere ==
  ASSUME Unique, NEW l \in Loop, NEW m \in Message
  PROVE  /\ recv[l].msg = m =>
              /\ ~InChannel(m)
              /\ \A n \in Loop : (n # l => recv[n].msg # m) /\ send[n].msg # m
         /\ send[l].msg = m =>
              /\ ~InChannel(m)
              /\ \A n \in Loop : (n # l => send[n].msg # m) /\ recv[n].msg # m
<1>1. IdOf(m) # 0
  BY Numbers
<1>2. ASSUME recv[l].msg = m \/ send[l].msg = m
      PROVE  ~InChannel(m)
  BY <1>1, <1>2 DEF InChannel, Unique, ChannelsDiffer
<1> QED BY <1>1, <1>2 DEF Unique, HandsDiffer

RelayStep == [Promise!Next]_(Promise!relayVars)

LEMMA RelayStutter ==
  ASSUME Owner' = Owner, sent' = sent, InFlight' = InFlight, arrived' = arrived
  PROVE  RelayStep
BY DEF RelayStep, Promise!relayVars

LEMMA RelayDrop ==
  ASSUME NEW m, InFlight' = InFlight \ {m}, Owner' = Owner, sent' = sent,
         arrived' = arrived
  PROVE  RelayStep
<1>1. CASE m \in InFlight
  <2>1. Promise!Drop(m)
    BY <1>1 DEF Promise!Drop
  <2> QED BY <1>1, <2>1 DEF RelayStep, Promise!Next
<1>2. CASE m \notin InFlight
  <2>1. InFlight' = InFlight
    BY <1>2
  <2> QED BY <2>1, RelayStutter
<1> QED BY <1>1, <1>2

LEMMA RelayQuiet ==
  ASSUME Sound, TypeOK', Quiet, Owner' = Owner
  PROVE  RelayStep
<1>1. \A x : Held(x)' <=> Held(x)
  BY HeldQuiet DEF Quiet
<1>2. InFlight' = InFlight
  BY <1>1, FlightSame
<1> QED BY <1>2, RelayStutter DEF Quiet

LEMMA RelaySignIn ==
  ASSUME Sound, NEW c \in Conns, Start(c)
  PROVE  RelayStep
<1>1. Started(c) /\ Quiet
  BY StartStep, QuietStart DEF Sound
<1>2. TypeOK'
  BY <1>1 DEF Started
<1>3. \A x : Held(x)' <=> Held(x)
  BY <1>1, HeldQuiet DEF Quiet
<1>4. InFlight' = InFlight
  BY <1>1, <1>2, <1>3, FlightSame DEF Quiet
<1>5. user[c] = Nil /\ user'[c] \in Users /\ \A d \in Conns : d # c => user'[d] = user[d]
  BY <1>1 DEF Started
<1>6. user'[c] # Nil /\ KeyOf[user'[c]] \in Keys
  BY <1>5, NilAssumption, KeyOfAssumption
<1>7. Owner[c] = Nil /\ Owner' = [Owner EXCEPT ![c] = KeyOf[user'[c]]]
  BY <1>5, <1>6 DEF Owner
<1>8. Promise!SignIn(c, KeyOf[user'[c]])
  BY <1>1, <1>4, <1>7 DEF Promise!SignIn, Quiet
<1> QED BY <1>6, <1>8 DEF RelayStep, Promise!Next

LEMMA RelayRead ==
  ASSUME Sound, NEW l \in Loop, RecvRead(l)
  PROVE  RelayStep
<1>1. HasRead(l)
  BY ReadStep
<1>2. TypeOK' /\ recv[l].msg = Nil /\ sent' = sent + 1
  BY <1>1 DEF HasRead
<1>3. Owner' = Owner /\ UNCHANGED <<chPost, send, arrived>>
  BY <1>1, OwnersStay DEF HasRead, sockets
<1>4. PICK m \in Message : /\ m.id = sent + 1 /\ Owner[m.via] = Owner[l[1]]
                           /\ recv'[l].msg = m
  BY <1>1 DEF HasRead
<1>5. \A n \in Loop : n # l => recv'[n] = recv[n]
  BY <1>1 DEF HasRead
<1>6. \A x : x # Nil => (Held(x)' <=> Held(x) \/ x = m)
  BY <1>2, <1>3, <1>4, <1>5 DEF Held, InHand, InChannel
<1>7. m # Nil /\ m.via # Nil
  BY NilAssumption, Numbers
<1>8. \A x : x \in InFlight <=> Truthful(x) /\ Held(x)
  BY Flying DEF Sound
<1>9. \A x : x \in InFlight' <=> Truthful(x)' /\ Held(x)'
  BY <1>2, FlyingNext
<1>10. \A x : (Truthful(x)' <=> Truthful(x)) /\ (Truthful(x) => x # Nil)
  BY <1>3 DEF Truthful
<1>11. CASE Truthful(m)
  <2>1. \A x : x \in InFlight' <=> x \in InFlight \/ x = m
    BY <1>6, <1>8, <1>9, <1>10, <1>11
  <2>2. InFlight' = InFlight \cup {m}
    BY <2>1 DEF InFlight
  <2>3. m \in Promise!Mail
    <3>1. Owner[l[1]] # Nil
      BY <1>1, Pairs DEF HasRead, Sound, Identity
    <3>2. m.from \in Keys
      BY <1>4, <1>11, <3>1 DEF Truthful, Message
    <3> QED BY <3>2 DEF Promise!Mail, Message
  <2>4. Promise!Take(m)
    BY <1>2, <1>3, <1>4, <1>11, <2>2 DEF Promise!Take, Truthful
  <2> QED BY <2>3, <2>4 DEF RelayStep, Promise!Next
<1>12. CASE ~Truthful(m)
  <2>1. \A x : x \in InFlight' <=> x \in InFlight
    BY <1>6, <1>8, <1>9, <1>10, <1>12
  <2>2. InFlight' = InFlight
    BY <2>1 DEF InFlight
  <2>3. Promise!Refuse
    BY <1>2, <1>3, <2>2 DEF Promise!Refuse
  <2> QED BY <2>3 DEF RelayStep, Promise!Next
<1> QED BY <1>11, <1>12

LEMMA RelayPost ==
  ASSUME Sound, NEW l \in Loop, RecvPost(l)
  PROVE  RelayStep
<1> DEFINE m == recv[l].msg
           u == recv[l].to
<1>1. HasPosted(l)
  BY PostStep
<1>2. /\ TypeOK' /\ m \in Parcel /\ u \in Users /\ Post(u, m)
      /\ \A n \in Loop : n # l => recv'[n] = recv[n]
      /\ Room(u) => recv'[l].msg = Nil
      /\ ~Room(u) => recv'[l].msg = m
  BY <1>1 DEF HasPosted, Parcel
<1>3. Owner' = Owner /\ UNCHANGED <<send, sent, arrived>>
  BY <1>1, OwnersStay DEF HasPosted, sockets
<1>4. TypeOK
  BY DEF Sound
<1> HIDE DEF u
<1>5. CASE Room(u)
  <2>1. \A x : InChannel(x)' <=> InChannel(x) \/ x = m
    BY <1>2, <1>4, <1>5, ChannelPost
  <2>2. \A x : x # Nil => (InHand(x) <=> InHand(x)' \/ x = m)
    BY <1>2, <1>3, <1>5 DEF InHand
  <2>3. \A x : x # Nil => (Held(x)' <=> Held(x))
    BY <2>1, <2>2 DEF Held
  <2>4. InFlight' = InFlight
    BY <1>2, <1>3, <2>3, FlightSame
  <2> QED BY <1>3, <2>4, RelayStutter
<1>6. CASE ~Room(u)
  <2>1. chPost' = chPost
    BY <1>2, <1>4, <1>6, PostEffect
  <2>2. \A n \in Loop : recv'[n].msg = recv[n].msg /\ send'[n].msg = send[n].msg
    BY <1>2, <1>3, <1>6
  <2>3. \A x : Held(x)' <=> Held(x)
    BY <2>1, <2>2, HeldQuiet
  <2>4. InFlight' = InFlight
    BY <1>2, <1>3, <2>3, FlightSame
  <2> QED BY <1>3, <2>4, RelayStutter
<1> QED BY <1>5, <1>6

LEMMA RelayRefuse ==
  ASSUME Sound, Unique, NEW l \in Loop, RecvRefuse(l)
  PROVE  RelayStep
<1> DEFINE m == recv[l].msg
<1>1. HasRefused(l)
  BY RefuseStep
<1>2. /\ TypeOK' /\ m \in Message /\ Own(l) \in Users /\ recv'[l].msg = Nil
      /\ \A n \in Loop : n # l => recv'[n] = recv[n]
  BY <1>1 DEF HasRefused
<1>3. Owner' = Owner /\ UNCHANGED <<send, sent, arrived>>
  BY <1>1, OwnersStay DEF HasRefused, sockets
<1>4. PICK e \in Error : Post(Own(l), e)
  BY <1>1 DEF HasRefused
<1>5. e \in Parcel /\ e.via = Nil
  BY DEF Parcel, Error
<1>6. TypeOK
  BY DEF Sound
<1>7. \A x : InChannel(x)' <=> InChannel(x) \/ (Room(Own(l)) /\ x = e)
  <2>1. CASE Room(Own(l))
    BY <1>2, <1>4, <1>5, <1>6, <2>1, ChannelPost
  <2>2. CASE ~Room(Own(l))
    <3>1. chPost' = chPost
      BY <1>2, <1>4, <1>5, <1>6, <2>2, PostEffect
    <3> QED BY <2>2, <3>1 DEF InChannel
  <2> QED BY <2>1, <2>2
<1>8. /\ ~InChannel(m)
      /\ \A n \in Loop : (n # l => recv[n].msg # m) /\ send[n].msg # m
  BY <1>2, OnlyHere
<1>9. \A x : x # Nil => (InHand(x)' <=> InHand(x) /\ x # m)
  BY <1>2, <1>3, <1>8 DEF InHand
<1>10. \A x : x # Nil /\ x.via # Nil => (Held(x)' <=> Held(x) /\ x # m)
  BY <1>5, <1>7, <1>8, <1>9 DEF Held
<1>11. m # Nil /\ m.via # Nil
  BY <1>2, NilAssumption, Numbers
<1>12. InFlight' = InFlight \ {m}
  BY <1>2, <1>3, <1>10, <1>11, FlightLess
<1> QED BY <1>3, <1>12, RelayDrop

LEMMA RelayTake ==
  ASSUME Sound, NEW l \in Loop, SendTake(l)
  PROVE  RelayStep
<1> DEFINE m == chPost[Own(l)][1]
<1>1. HasTaken(l)
  BY TakeStep
<1>2. /\ TypeOK' /\ send[l].msg = Nil /\ send'[l].msg = m
      /\ \A n \in Loop : n # l => send'[n] = send[n]
  BY <1>1 DEF HasTaken
<1>3. Owner' = Owner /\ UNCHANGED <<recv, sent, arrived>>
  BY <1>1, OwnersStay DEF HasTaken, sockets
<1>4. \A x : InChannel(x) <=> InChannel(x)' \/ x = m
  BY <1>1, ChannelTake DEF Sound
<1> HIDE DEF m
<1>5. \A x : x # Nil => (InHand(x)' <=> InHand(x) \/ x = m)
  BY <1>2, <1>3 DEF InHand
<1>6. \A x : x # Nil => (Held(x)' <=> Held(x))
  BY <1>4, <1>5 DEF Held
<1>7. InFlight' = InFlight
  BY <1>2, <1>3, <1>6, FlightSame
<1> QED BY <1>3, <1>7, RelayStutter

\* A send loop lets its message go.
LEMMA SendLets ==
  ASSUME Sound, Unique, TypeOK', NEW l \in Loop, send[l].msg \in Message,
         send'[l].msg = Nil,
         \A n \in Loop : n # l => send'[n] = send[n],
         Owner' = Owner, UNCHANGED <<recv, chPost>>
  PROVE  InFlight' = InFlight \ {send[l].msg}
<1> DEFINE m == send[l].msg
<1>1. m \in Message
  OBVIOUS
<1>2. \A n \in Loop : (n # l => send[n].msg # m) /\ recv[n].msg # m
  BY <1>1, OnlyHere
<1>3. ~InChannel(m)
  BY <1>1, OnlyHere
<1>4. \A x : x # Nil => (InHand(x)' <=> InHand(x) /\ x # m)
  BY <1>2 DEF InHand
<1>5. \A x : InChannel(x)' <=> InChannel(x)
  BY DEF InChannel
<1>6. \A x : x # Nil /\ x.via # Nil => (Held(x)' <=> Held(x) /\ x # m)
  BY <1>3, <1>4, <1>5 DEF Held
<1>7. m # Nil /\ m.via # Nil
  BY <1>1, NilAssumption, Numbers
<1> HIDE DEF m
<1>8. InFlight' = InFlight \ {m}
  BY <1>6, <1>7, FlightLess
<1> QED BY <1>8 DEF m

\* What it lets go may have been an error message, which nobody sent.
LEMMA RelayLets ==
  ASSUME Sound, Unique, TypeOK', NEW l \in Loop, send[l].msg \in Parcel,
         send'[l].msg = Nil,
         \A n \in Loop : n # l => send'[n] = send[n],
         Owner' = Owner, UNCHANGED <<recv, chPost, sent, arrived>>
  PROVE  RelayStep
<1>1. CASE send[l].msg \in Message
  <2>1. InFlight' = InFlight \ {send[l].msg}
    BY <1>1, SendLets
  <2> QED BY <2>1, RelayDrop
<1>2. CASE send[l].msg \in Error
  <2>1. send[l].msg.via = Nil
    BY <1>2 DEF Error
  <2>2. \A x : x # Nil /\ x.via # Nil => (InHand(x)' <=> InHand(x))
    BY <2>1 DEF InHand
  <2>3. \A x : InChannel(x)' <=> InChannel(x)
    BY DEF InChannel
  <2>4. \A x : x # Nil /\ x.via # Nil => (Held(x)' <=> Held(x))
    BY <2>2, <2>3 DEF Held
  <2>5. InFlight' = InFlight
    BY <2>4, FlightSame
  <2> QED BY <2>5, RelayStutter
<1> QED BY <1>1, <1>2 DEF Parcel

LEMMA RelayCheck ==
  ASSUME Sound, Unique, NEW l \in Loop, SendCheck(l)
  PROVE  RelayStep
<1>1. HasChecked(l)
  BY CheckStep
<1>2. /\ TypeOK' /\ send[l].msg \in Parcel
      /\ send'[l].msg = send[l].msg \/ send'[l].msg = Nil
      /\ \A n \in Loop : n # l => send'[n] = send[n]
  BY <1>1 DEF HasChecked
<1>3. Owner' = Owner /\ UNCHANGED <<recv, chPost, sent, arrived>>
  BY <1>1, OwnersStay DEF HasChecked, sockets
<1>4. CASE send'[l].msg = send[l].msg
  <2>1. \A n \in Loop : recv'[n].msg = recv[n].msg /\ send'[n].msg = send[n].msg
    BY <1>2, <1>3, <1>4
  <2>2. \A x : Held(x)' <=> Held(x)
    BY <1>3, <2>1, HeldQuiet
  <2>3. InFlight' = InFlight
    BY <1>2, <1>3, <2>2, FlightSame
  <2> QED BY <1>3, <2>3, RelayStutter
<1>5. CASE send'[l].msg = Nil
  BY <1>2, <1>3, <1>5, RelayLets
<1> QED BY <1>2, <1>4, <1>5

LEMMA RelayWrite ==
  ASSUME Sound, Unique, NEW l \in Loop, SendWrite(l)
  PROVE  RelayStep
<1> DEFINE m == send[l].msg
           c == connection[l[1]]
<1>1. HasWritten(l)
  BY WriteStep
<1>2. /\ TypeOK' /\ m \in Message /\ c \in Conns /\ send'[l].msg = Nil
      /\ send[l].at = "write"
      /\ \A n \in Loop : n # l => send'[n] = send[n]
  BY <1>1 DEF HasWritten
<1>3. Owner' = Owner /\ UNCHANGED <<recv, chPost, sent>>
  BY <1>1, OwnersStay DEF HasWritten, sockets
<1>4. InFlight' = InFlight \ {m}
  BY <1>2, <1>3, SendLets
<1>5. CASE conn[c] # "open"
  <2>1. arrived' = arrived
    BY <1>1, <1>5 DEF HasWritten
  <2> QED BY <1>3, <1>4, <2>1, RelayDrop
<1>6. CASE conn[c] = "open"
  <2>1. arrived' = [arrived EXCEPT ![c] = Append(@, m)]
    BY <1>1, <1>6 DEF HasWritten
  <2>2. m \in InFlight
    <3>1. Truthful(m)
      BY <1>2, NilAssumption, Numbers DEF Sound, Contents, SendHolds, Genuine, Truthful
    <3>2. Held(m)
      BY DEF Held, InHand
    <3> QED BY <3>1, <3>2, Flying DEF Sound
  <2>3. m.to = Owner[c]
    <3>1. m.to = Owner[l[1]]
      BY <1>2, NilAssumption DEF Sound, Contents, SendHolds
    <3>2. Owner[c] = Owner[l[1]]
      <4>1. CASE c = l[1]
        BY <4>1
      <4>2. CASE c # l[1]
        <5>1. <<l[1], c>> \in Loop /\ l[1] \in Conns /\ <<l[1], c>>[1] = l[1]
              /\ <<l[1], c>>[2] = c
          BY <1>2, Pairs
        <5>2. recv[<<l[1], c>>].at # "none"
          BY <4>2, <5>1 DEF Sound, Identity
        <5> QED BY <5>1, <5>2 DEF Sound, Identity
      <4> QED BY <4>1, <4>2
    <3> QED BY <3>1, <3>2
  <2> HIDE DEF m, c
  <2>4. Promise!Write(m, c)
    BY <1>3, <1>4, <2>1, <2>2, <2>3 DEF Promise!Write
  <2> QED BY <1>2, <2>2, <2>4 DEF RelayStep, Promise!Next
<1> QED BY <1>5, <1>6

LEMMA RelayPanic ==
  ASSUME Sound, Unique, NEW l \in Loop, SendPanic(l)
  PROVE  RelayStep
<1>1. HasPanicked(l)
  BY PanicStep
<1>2. /\ TypeOK' /\ send[l].msg \in Parcel /\ send'[l].msg = Nil
      /\ \A n \in Loop : n # l => send'[n] = send[n]
  BY <1>1 DEF HasPanicked
<1>3. Owner' = Owner /\ UNCHANGED <<recv, chPost, sent, arrived>>
  BY <1>1, OwnersStay DEF HasPanicked
<1> QED BY <1>2, <1>3, RelayLets

\* A message that recv loses in a panic has not been posted.
LEMMA RelayFall ==
  ASSUME Sound, Unique, NEW l \in Loop, RecvPanic(l)
  PROVE  RelayStep
<1> DEFINE m == recv[l].msg
<1>1. HasFallen(l)
  BY FallStep
<1>2. /\ TypeOK' /\ m \in Message /\ recv'[l].msg = Nil
      /\ \A n \in Loop : n # l => recv'[n] = recv[n]
  BY <1>1 DEF HasFallen
<1>3. Owner' = Owner /\ UNCHANGED <<send, chPost, sent, arrived>>
  BY <1>1, OwnersStay DEF HasFallen
<1>4. /\ ~InChannel(m)
      /\ \A n \in Loop : (n # l => recv[n].msg # m) /\ send[n].msg # m
  BY <1>2, OnlyHere
<1>5. \A x : x # Nil => (InHand(x)' <=> InHand(x) /\ x # m)
  BY <1>2, <1>3, <1>4 DEF InHand
<1>6. \A x : InChannel(x)' <=> InChannel(x)
  BY <1>3 DEF InChannel
<1>7. \A x : x # Nil /\ x.via # Nil => (Held(x)' <=> Held(x) /\ x # m)
  BY <1>4, <1>5, <1>6 DEF Held
<1>8. m # Nil /\ m.via # Nil
  BY <1>2, NilAssumption, Numbers
<1>9. InFlight' = InFlight \ {m}
  BY <1>2, <1>3, <1>7, <1>8, FlightLess
<1> QED BY <1>3, <1>9, RelayDrop

LEMMA RelayNext == Sound /\ Unique /\ [Next]_vars => RelayStep
<1> SUFFICES ASSUME Sound, Unique, [Next]_vars PROVE RelayStep
  OBVIOUS
<1>1. ASSUME NEW l \in Loop, RecvLookup(l) PROVE RelayStep
  <2>1. HasLookedUp(l)
    BY <1>1, LookupStep
  <2>2. TypeOK' /\ sent' = sent
    BY <2>1 DEF HasLookedUp
  <2>3. \A n \in Loop : recv'[n].msg = recv[n].msg /\ send'[n].msg = send[n].msg
    BY <2>1, QuietLookup
  <2>4. UNCHANGED <<chPost, arrived>> /\ Owner' = Owner
    BY <2>1, QuietLookup
  <2>5. \A x : Held(x)' <=> Held(x)
    BY <2>3, <2>4, HeldQuiet
  <2>6. InFlight' = InFlight
    BY <2>2, <2>4, <2>5, FlightSame
  <2> QED BY <2>2, <2>4, <2>6, RelayStutter
<1>2. ASSUME \/ \E u \in Users : SignUp(u) \/ Install(u) \/ GuestAdds(u)
             \/ \E k \in Keys : Expire(k)
             \/ \E c \in Conns : HangUp(c)
             \/ \E l \in Loop : RecvStop(l) \/ SendStop(l)
             \/ GuestAdded
      PROVE  RelayStep
  <2>1. Rested
    BY <1>2, OtherStep
  <2>2. TypeOK' /\ Owner' = Owner
    BY <2>1, OwnersStay DEF Rested
  <2> QED BY <2>1, <2>2, QuietRest, RelayQuiet
<1>3. ASSUME NEW c \in Conns, Serve(c) PROVE RelayStep
  <2>1. Attached(c)
    BY <1>3, ServeStep DEF Sound
  <2>2. TypeOK' /\ Owner' = Owner
    BY <2>1, OwnersStay DEF Attached
  <2> QED BY <1>3, <2>2, QuietServe, RelayQuiet
<1>4. CASE UNCHANGED vars
  <2>1. Owner' = Owner
    BY <1>4, OwnersStay DEF vars, sockets
  <2>2. InFlight' = InFlight
    BY <1>4, <2>1 DEF InFlight, Hands, vars, loops
  <2> QED BY <1>4, <2>1, <2>2, RelayStutter DEF vars
<1> QED BY <1>1, <1>2, <1>3, <1>4, RelaySignIn, RelayRead, RelayPost, RelayRefuse, RelayTake,
           RelayCheck, RelayWrite, RelayPanic, RelayFall
        DEF Next, RecvStep, RecvHandle, SendStep

LEMMA RelayInit == Init => Promise!Init
<1> SUFFICES ASSUME Init PROVE Promise!Init
  OBVIOUS
<1>1. \A u \in Users : Len(chPost[u]) = 0
  BY EmptySeq DEF Init
<1>2. \A l \in Loop : recv[l].msg = Nil /\ send[l].msg = Nil
  BY DEF Init
<1>3. \A x : Held(x) => x = Nil
  BY <1>1, <1>2 DEF Held, InHand, InChannel
<1>4. \A x : x \notin InFlight
  BY <1>3, TypeInit, Flying DEF Truthful
<1>5. InFlight = {}
  BY <1>4
<1>6. Owner = [c \in Conns |-> Nil]
  BY DEF Owner, Init
<1> QED BY <1>5, <1>6 DEF Promise!Init, Init

\* The relay keeps its promise: what is written to a connection was read from one
\* whose key it names, is written once, and is addressed to the key that is signed
\* in there, whatever expires, registers, joins and closes meanwhile.
THEOREM RelayKeepsItsPromise == Spec => Implements
<1>1. Init => Unique
  BY UniqueInit
<1>2. RelayStep <=> [Promise!Next]_(Promise!relayVars)
  BY DEF RelayStep
<1>3. Sound /\ Unique /\ [Next]_vars => [Promise!Next]_(Promise!relayVars)
  BY <1>2, RelayNext
<1>4. Spec => [](Sound /\ Unique)
  BY <1>1, SoundInit, SoundNext, UniqueNext, PTL DEF Spec
<1>5. Spec => Promise!Spec
  BY <1>3, <1>4, RelayInit, PTL DEF Spec, Promise!Spec
<1> QED BY <1>5 DEF Implements

-----------------------------------------------------------------------------
(* Messages keep their order *)

LEMMA MovedClosedNext == Sound /\ MovedClosed /\ [Next]_vars => MovedClosed'
<1> SUFFICES ASSUME Sound, MovedClosed, [Next]_vars PROVE MovedClosed'
  OBVIOUS
<1>1. TypeOK /\ Identity
  BY DEF Sound
<1>2. ASSUME NEW c \in Conns, Start(c) PROVE MovedClosed'
  <2>1. connection' = connection /\ conn' = [conn EXCEPT ![c] = "open"]
    BY <1>2 DEF Start
  <2>2. connection[c] = c
    <3>1. recv[<<c, c>>].at = "none" /\ Owner[c] = Nil
      BY <1>1, <1>2, StartStep, Owners DEF Started
    <3>2. ASSUME connection[c] # c PROVE FALSE
      <4>1. connection[c] \in Conns /\ recv[<<c, connection[c]>>].at # "none"
        BY <1>1, <3>2 DEF Identity, TypeOK
      <4>2. <<c, connection[c]>> \in Loop /\ <<c, connection[c]>>[1] = c
        BY <4>1, Pairs
      <4> QED BY <1>1, <3>1, <4>1, <4>2 DEF Identity
    <3> QED BY <3>2
  <2> QED BY <1>1, <2>1, <2>2 DEF MovedClosed, TypeOK
<1>3. ASSUME NEW c \in Conns, Serve(c) PROVE MovedClosed'
  <2>1. \/ UNCHANGED <<connection, conn>>
        \/ Join(slot[registry[KeyOf[user[c]]]], c) /\ slot[registry[KeyOf[user[c]]]] # Nil
           /\ registry[KeyOf[user[c]]] # Nil
    BY <1>3 DEF Serve
  <2>2. CASE UNCHANGED <<connection, conn>>
    BY <2>2 DEF MovedClosed
  <2>3. CASE /\ Join(slot[registry[KeyOf[user[c]]]], c)
             /\ slot[registry[KeyOf[user[c]]]] # Nil
             /\ registry[KeyOf[user[c]]] # Nil
    <3> DEFINE s == slot[registry[KeyOf[user[c]]]]
    <3>1. user[c] \in Users
      BY <1>1, <1>3 DEF Serve, Identity, TypeOK
    <3>2. s \in Conns
      BY <1>1, <2>3, <3>1, KeyOfAssumption DEF TypeOK
    <3>3. conn' = Closed(s) /\ connection' = [connection EXCEPT ![s] = c]
      BY <2>3 DEF Join
    <3> HIDE DEF s
    <3> QED BY <1>1, <3>2, <3>3 DEF MovedClosed, Closed, TypeOK
  <2> QED BY <2>1, <2>2, <2>3
<1>4. ASSUME NEW c \in Conns, HangUp(c) PROVE MovedClosed'
  BY <1>1, <1>4 DEF HangUp, MovedClosed, TypeOK
<1>5. ASSUME NEW l \in Loop, SendPanic(l) PROVE MovedClosed'
  <2>1. conn' = Closed(l[1]) /\ connection' = connection /\ l[1] \in Conns
    BY <1>5, Pairs DEF SendPanic
  <2> QED BY <1>1, <2>1 DEF Closed, MovedClosed, TypeOK
<1>8. ASSUME NEW l \in Loop, RecvPanic(l) PROVE MovedClosed'
  <2>1. conn' = Closed(l[1]) /\ connection' = connection /\ l[1] \in Conns
    BY <1>8, Pairs DEF RecvPanic
  <2> QED BY <1>1, <2>1 DEF Closed, MovedClosed, TypeOK
<1>6. ASSUME UNCHANGED <<connection, conn>> PROVE MovedClosed'
  BY <1>6 DEF MovedClosed
<1>7. ASSUME \/ \E u \in Users : SignUp(u) \/ Install(u) \/ GuestAdds(u)
             \/ \E k \in Keys : Expire(k)
             \/ \E l \in Loop : RecvStop(l) \/ SendStop(l)
             \/ GuestAdded
             \/ \E l \in Loop : RecvRead(l) \/ RecvLookup(l) \/ RecvPost(l) \/ RecvRefuse(l)
             \/ \E l \in Loop : SendTake(l) \/ SendCheck(l) \/ SendWrite(l)
             \/ UNCHANGED vars
      PROVE  MovedClosed'
  <2>1. UNCHANGED <<connection, conn>>
    BY <1>7 DEF SignUp, Install, GuestAdds, Expire, RecvStop, SendStop, GuestAdded,
                RecvRead, RecvLookup, RecvPost, RecvRefuse, SendTake, SendCheck, SendWrite,
                vars, sockets
  <2> QED BY <2>1, <1>6
<1> QED BY <1>2, <1>3, <1>4, <1>5, <1>7, <1>8 DEF Next, RecvStep, RecvHandle, SendStep

LEMMA AloneStays ==
  ASSUME \A l \in Loop : recv'[l].at = "none" => recv[l].at = "none"
  PROVE  \A c \in Conns : Alone(c)' => Alone(c)
BY Pairs DEF Alone

\* Nil has no order.
LEMMA Unordered ==
  /\ \A d, x : Before(d, Nil, x) /\ Before(d, x, Nil) /\ ~Of(d, Nil)
  /\ \A d, x, y : x.via # d \/ y.via # d => Before(d, x, y)
BY DEF Before, Of

\* The loop of a message's connection, while no other session has joined that.
LEMMA ReadersOwn ==
  ASSUME Sound, MovedClosed, NEW l \in Loop, HasRead(l), NEW d \in Conns, Alone(d),
         Of(d, recv'[l].msg)
  PROVE  l = <<d, d>>
<1>1. TypeOK /\ Identity
  BY DEF Sound
<1>2. /\ recv[<<l[1], d>>].at # "none" /\ conn[d] = "open" /\ recv[l].at = "read"
  BY DEF HasRead, Of
<1>3. l[1] \in Conns /\ l[2] \in Conns /\ l = <<l[1], l[2]>>
  BY Pairs
<1>4. l[1] = d
  BY <1>2, <1>3 DEF Alone
<1>5. connection[d] = d
  BY <1>2 DEF MovedClosed
<1>6. l[2] = d
  BY <1>1, <1>2, <1>3, <1>4, <1>5 DEF Identity
<1> QED BY <1>3, <1>4, <1>6

LEMMA WayLess ==
  ASSUME NEW d \in Conns, OnTheWay(d),
         \A l \in Loop : recv'[l].msg \in {recv[l].msg, Nil},
         \A l \in Loop : send'[l].msg \in {send[l].msg, Nil},
         \A l \in Loop : send'[l].msg # Nil => Own(l)' = Own(l),
         UNCHANGED chPost
  PROVE  OnTheWay(d)'
<1>1. \A l \in Loop : Of(d, recv'[l].msg) => l = <<d, d>>
  BY Unordered DEF OnTheWay
<1>2. \A u \in Users : \A i, j \in 1..Len(chPost[u]) :
        i < j => Before(d, chPost[u][i], chPost[u][j])
  BY DEF OnTheWay
<1>3. ASSUME NEW u \in Users, NEW i \in 1..Len(chPost[u]), NEW l \in Loop
      PROVE  /\ Before(d, chPost[u][i], recv'[l].msg)
             /\ Own(l)' = u => Before(d, send'[l].msg, chPost[u][i])
  BY Unordered DEF OnTheWay
<1>4. \A l, n \in Loop : Before(d, send'[l].msg, recv'[n].msg)
  BY Unordered DEF OnTheWay
<1> QED BY <1>1, <1>2, <1>3, <1>4 DEF OnTheWay

LEMMA ArrivedLess ==
  ASSUME NEW c \in Conns, NEW d \in Conns, ArrivedFrom(c, d),
         \A l \in Loop : recv'[l].msg \in {recv[l].msg, Nil},
         \A l \in Loop : send'[l].msg \in {send[l].msg, Nil},
         arrived'[c] = arrived[c], UNCHANGED chPost,
         Len(arrived[c]) = 0 \/ user'[c] = user[c]
  PROVE  ArrivedFrom(c, d)'
<1>1. \A i, j \in 1..Len(arrived[c]) : i < j => Before(d, arrived[c][i], arrived[c][j])
  BY DEF ArrivedFrom
<1>2. ASSUME NEW i \in 1..Len(arrived[c])
      PROVE  /\ \A l \in Loop : Before(d, arrived[c][i], recv'[l].msg)
             /\ Before(d, arrived[c][i], send'[<<c, c>>].msg)
             /\ \A u \in Users : user'[c] = u =>
                  \A j \in 1..Len(chPost[u]) : Before(d, arrived[c][i], chPost[u][j])
  <2>1. \A l \in Loop : Before(d, arrived[c][i], recv'[l].msg)
    BY Unordered DEF ArrivedFrom
  <2>2. Before(d, arrived[c][i], send'[<<c, c>>].msg)
    BY Unordered, Pairs DEF ArrivedFrom
  <2>3. user'[c] = user[c]
    OBVIOUS
  <2> QED BY <2>1, <2>2, <2>3 DEF ArrivedFrom
<1> QED BY <1>1, <1>2 DEF ArrivedFrom

LEMMA WayRead ==
  ASSUME Sound, Unique, MovedClosed, NEW l \in Loop, HasRead(l), NEW d \in Conns, Alone(d),
         OnTheWay(d)
  PROVE  OnTheWay(d)'
<1>1. TypeOK
  BY DEF Sound
<1>2. /\ recv'[l].msg \in Message /\ recv'[l].msg.id = sent + 1 /\ sent \in Nat
      /\ \A n \in Loop : n # l => recv'[n] = recv[n]
      /\ UNCHANGED <<chPost, send, user>>
  BY <1>1, NumbersAreNat DEF HasRead, sockets
<1>3. \A n \in Loop : Of(d, recv'[n].msg) => n = <<d, d>>
  BY <1>2, ReadersOwn DEF OnTheWay
<1>4. \A u \in Users : \A i \in 1..Len(chPost[u]) : Before(d, chPost[u][i], recv'[l].msg)
  <2> SUFFICES ASSUME NEW u \in Users, NEW i \in 1..Len(chPost[u]), Of(d, chPost[u][i])
               PROVE  chPost[u][i].id < sent + 1
    BY <1>2 DEF Before
  <2>1. chPost[u][i] \in Message
    BY <1>1, NumbersAreNat, NilAssumption DEF Of, Parcel, Error
  <2> QED BY <1>2, <2>1, Numbers DEF Unique, Bounded
<1>5. \A n \in Loop : Before(d, send[n].msg, recv'[l].msg)
  <2> SUFFICES ASSUME NEW n \in Loop, Of(d, send[n].msg)
               PROVE  send[n].msg.id < sent + 1
    BY <1>2 DEF Before
  <2>1. send[n].msg \in Message
    BY <1>1, LoopParts, NilAssumption DEF Of, Parcel, Error
  <2> QED BY <1>2, <2>1, Numbers DEF Unique, Bounded
<1>6. \A u \in Users : \A i \in 1..Len(chPost[u]) : \A n \in Loop :
        Before(d, chPost[u][i], recv'[n].msg)
  BY <1>2, <1>4 DEF OnTheWay
<1>7. \A n, k \in Loop : Before(d, send[n].msg, recv'[k].msg)
  BY <1>2, <1>5 DEF OnTheWay
<1> QED BY <1>2, <1>3, <1>6, <1>7 DEF OnTheWay, Own

LEMMA ArrivedRead ==
  ASSUME Sound, Arrivals, NEW l \in Loop, HasRead(l), NEW c \in Conns, NEW d \in Conns,
         ArrivedFrom(c, d)
  PROVE  ArrivedFrom(c, d)'
<1>1. TypeOK
  BY DEF Sound
<1>2. /\ recv'[l].msg \in Message /\ recv'[l].msg.id = sent + 1 /\ sent \in Nat
      /\ \A n \in Loop : n # l => recv'[n] = recv[n]
      /\ UNCHANGED <<chPost, send, user, arrived>>
  BY <1>1, NumbersAreNat DEF HasRead, sockets
<1>3. \A i \in 1..Len(arrived[c]) : Before(d, arrived[c][i], recv'[l].msg)
  BY <1>2, Numbers DEF Arrivals, Before
<1>4. \A i \in 1..Len(arrived[c]) : \A n \in Loop : Before(d, arrived[c][i], recv'[n].msg)
  BY <1>2, <1>3 DEF ArrivedFrom
<1> QED BY <1>2, <1>4 DEF ArrivedFrom

\* The message m goes from l's hand, if it is not an error, to the end of u's channel.
Moved(l, u, m) ==
    /\ Post(u, m)
    /\ m.via = Nil \/ m = recv[l].msg
    /\ recv'[l].msg = Nil
    /\ \A n \in Loop : n # l => recv'[n] = recv[n]
    /\ UNCHANGED <<send, user, arrived>>

LEMMA WayPost ==
  ASSUME TypeOK, NEW l \in Loop, NEW u \in Users, NEW m \in Parcel, Moved(l, u, m), Room(u),
         NEW d \in Conns, OnTheWay(d)
  PROVE  OnTheWay(d)'
<1>1. /\ \A v \in Users : v # u => chPost'[v] = chPost[v]
      /\ Len(chPost'[u]) = Len(chPost[u]) + 1 /\ Len(chPost[u]) \in Nat
      /\ chPost'[u][Len(chPost[u]) + 1] = m
      /\ \A i \in 1..Len(chPost[u]) : chPost'[u][i] = chPost[u][i]
  BY PostEffect, NumbersAreNat DEF Moved
<1> DEFINE k == Len(chPost[u]) + 1
           Old(v, i) == i \in 1..Len(chPost[v]) /\ chPost'[v][i] = chPost[v][i]
           New(v, i) == v = u /\ i = k /\ chPost'[v][i] = m
<1>2. \A v \in Users : \A i \in 1..Len(chPost'[v]) : Old(v, i) \/ New(v, i)
  BY <1>1
<1>3. /\ recv'[l].msg = Nil /\ \A n \in Loop : n # l => recv'[n].msg = recv[n].msg
      /\ UNCHANGED <<send, user>>
  BY DEF Moved
<1>4. Of(d, m) => l = <<d, d>> /\ m = recv[l].msg
  BY NilAssumption DEF Moved, Of, OnTheWay
<1>5. \A n \in Loop : Of(d, recv'[n].msg) => n = <<d, d>> /\ n # l
  BY <1>3, Unordered DEF OnTheWay
<1>6. ASSUME Of(d, m)
      PROVE  \A n \in Loop : ~Of(d, recv'[n].msg) /\ Before(d, send[n].msg, m)
  BY <1>4, <1>5, <1>6 DEF OnTheWay
<1>7. \A u1 \in Users : \A i \in 1..Len(chPost[u1]) : Before(d, chPost[u1][i], m)
  BY <1>4 DEF OnTheWay, Before
<1>8. \A v \in Users : \A i, j \in 1..Len(chPost'[v]) :
        i < j => Before(d, chPost'[v][i], chPost'[v][j])
  <2> SUFFICES ASSUME NEW v \in Users, NEW i \in 1..Len(chPost'[v]),
                      NEW j \in 1..Len(chPost'[v]), i < j
               PROVE  Before(d, chPost'[v][i], chPost'[v][j])
    OBVIOUS
  <2>1. Old(v, i)
    BY <1>1, <1>2
  <2>2. CASE Old(v, j)
    BY <2>1, <2>2 DEF OnTheWay
  <2>3. CASE New(v, j)
    BY <2>1, <2>3, <1>7
  <2> QED BY <1>2, <2>2, <2>3
<1>9. ASSUME NEW v \in Users, NEW i \in 1..Len(chPost'[v]), NEW n \in Loop
      PROVE  /\ Before(d, chPost'[v][i], recv'[n].msg)
             /\ Own(n) = v => Before(d, send[n].msg, chPost'[v][i])
  <2>1. CASE Old(v, i)
    BY <1>3, <2>1, Unordered DEF OnTheWay
  <2>2. CASE New(v, i)
    BY <1>6, <2>2 DEF Before
  <2> QED BY <1>2, <2>1, <2>2
<1>10. \A n, p \in Loop : Before(d, send[n].msg, recv'[p].msg)
  BY <1>3, Unordered DEF OnTheWay
<1> QED BY <1>3, <1>5, <1>8, <1>9, <1>10 DEF OnTheWay, Own

LEMMA ArrivedPost ==
  ASSUME TypeOK, NEW l \in Loop, NEW u \in Users, NEW m \in Parcel, Moved(l, u, m), Room(u),
         NEW c \in Conns, NEW d \in Conns, ArrivedFrom(c, d)
  PROVE  ArrivedFrom(c, d)'
<1>1. /\ \A v \in Users : v # u => chPost'[v] = chPost[v]
      /\ Len(chPost'[u]) = Len(chPost[u]) + 1 /\ Len(chPost[u]) \in Nat
      /\ chPost'[u][Len(chPost[u]) + 1] = m
      /\ \A i \in 1..Len(chPost[u]) : chPost'[u][i] = chPost[u][i]
  BY PostEffect, NumbersAreNat DEF Moved
<1>2. /\ recv'[l].msg = Nil /\ \A n \in Loop : n # l => recv'[n].msg = recv[n].msg
      /\ UNCHANGED <<send, user, arrived>>
  BY DEF Moved
<1>3. m.via = d => m = recv[l].msg
  BY NilAssumption DEF Moved
<1>4. \A i \in 1..Len(arrived[c]) : Before(d, arrived[c][i], m)
  BY <1>3 DEF ArrivedFrom, Before, Of
<1>5. ASSUME NEW i \in 1..Len(arrived[c])
      PROVE  /\ \A n \in Loop : Before(d, arrived[c][i], recv'[n].msg)
             /\ Before(d, arrived[c][i], send[<<c, c>>].msg)
             /\ \A v \in Users : user[c] = v =>
                  \A j \in 1..Len(chPost'[v]) : Before(d, arrived[c][i], chPost'[v][j])
  <2>1. \A n \in Loop : Before(d, arrived[c][i], recv'[n].msg)
    BY <1>2, Unordered DEF ArrivedFrom
  <2>2. ASSUME NEW v \in Users, user[c] = v, NEW j \in 1..Len(chPost'[v])
        PROVE  Before(d, arrived[c][i], chPost'[v][j])
    <3>1. CASE j \in 1..Len(chPost[v]) /\ chPost'[v][j] = chPost[v][j]
      BY <2>2, <3>1 DEF ArrivedFrom
    <3>2. CASE chPost'[v][j] = m
      BY <1>4, <3>2
    <3> QED BY <1>1, <3>1, <3>2
  <2>3. Before(d, arrived[c][i], send[<<c, c>>].msg)
    BY DEF ArrivedFrom
  <2> QED BY <2>1, <2>2, <2>3
<1>6. \A i, j \in 1..Len(arrived[c]) : i < j => Before(d, arrived[c][i], arrived[c][j])
  BY DEF ArrivedFrom
<1> QED BY <1>2, <1>5, <1>6 DEF ArrivedFrom

\* What the receive of send does to the channels, and where what is left came from.
Shifted(l, u, x) ==
    /\ x = chPost[u][1] /\ u = Own(l) /\ send'[l].msg = x
    /\ \A n \in Loop : n # l => send'[n].msg = send[n].msg
    /\ 1 \in 1..Len(chPost[u])
    /\ \A v \in Users : \A i \in 1..Len(chPost'[v]) :
         \E k \in 1..Len(chPost[v]) :
           /\ k = (IF v = u THEN i + 1 ELSE i)
           /\ chPost'[v][i] = chPost[v][k]
           /\ v = u => 1 < k
    /\ UNCHANGED <<recv, user, arrived>>

LEMMA Shift ==
  ASSUME TypeOK, NEW l \in Loop, HasTaken(l)
  PROVE  Shifted(l, Own(l), chPost[Own(l)][1])
<1> DEFINE u == Own(l)
<1>1. /\ u \in Users /\ Len(chPost[u]) \in Nat \ {0}
      /\ send'[l].msg = chPost[u][1]
      /\ \A m \in Loop : m # l => send'[m].msg = send[m].msg
      /\ Len(chPost'[u]) = Len(chPost[u]) - 1
      /\ \A i \in 1..Len(chPost'[u]) : chPost'[u][i] = chPost[u][i + 1]
      /\ \A v \in Users : v # u => chPost'[v] = chPost[v]
      /\ UNCHANGED <<recv, user, arrived>>
  BY DEF HasTaken, sockets
<1>2. ASSUME NEW v \in Users, NEW i \in 1..Len(chPost'[v])
      PROVE  \E k \in 1..Len(chPost[v]) :
               /\ k = (IF v = u THEN i + 1 ELSE i)
               /\ chPost'[v][i] = chPost[v][k]
               /\ v = u => 1 < k
  <2>1. CASE v = u
    BY <1>1, <2>1
  <2>2. CASE v # u
    BY <1>1, <2>2
  <2> QED BY <2>1, <2>2
<1>3. 1 \in 1..Len(chPost[u])
  BY <1>1
<1> HIDE DEF u
<1> QED BY <1>1, <1>2, <1>3 DEF u, Shifted

LEMMA WayTake ==
  ASSUME TypeOK, NEW l \in Loop, HasTaken(l), NEW d \in Conns, OnTheWay(d)
  PROVE  OnTheWay(d)'
<1> DEFINE u == Own(l)
           x == chPost[u][1]
<1>1. Shifted(l, u, x) /\ u \in Users
  BY Shift DEF HasTaken
<1> HIDE DEF u, x
<1>2. \A n \in Loop : Own(n)' = Own(n)
  BY <1>1 DEF Shifted, Own
<1>3. \A n \in Loop : Of(d, recv'[n].msg) => n = <<d, d>>
  BY <1>1 DEF Shifted, OnTheWay
<1>4. ASSUME NEW v \in Users, NEW i \in 1..Len(chPost'[v]), NEW j \in 1..Len(chPost'[v]), i < j
      PROVE  Before(d, chPost'[v][i], chPost'[v][j])
  <2>1. PICK p \in 1..Len(chPost[v]) :
          p = (IF v = u THEN i + 1 ELSE i) /\ chPost'[v][i] = chPost[v][p]
    BY <1>1 DEF Shifted
  <2>2. PICK q \in 1..Len(chPost[v]) :
          q = (IF v = u THEN j + 1 ELSE j) /\ chPost'[v][j] = chPost[v][q]
    BY <1>1 DEF Shifted
  <2>3. p < q
    BY <1>4, <2>1, <2>2
  <2> QED BY <2>1, <2>2, <2>3 DEF OnTheWay
<1>5. ASSUME NEW v \in Users, NEW i \in 1..Len(chPost'[v]), NEW n \in Loop
      PROVE  /\ Before(d, chPost'[v][i], recv'[n].msg)
             /\ Own(n) = v => Before(d, send'[n].msg, chPost'[v][i])
  <2>1. PICK p \in 1..Len(chPost[v]) :
          chPost'[v][i] = chPost[v][p] /\ (v = u => 1 < p)
    BY <1>1 DEF Shifted
  <2>2. Before(d, chPost[v][p], recv'[n].msg)
    BY <1>1 DEF Shifted, OnTheWay
  <2>3. CASE n # l
    <3>1. send'[n].msg = send[n].msg
      BY <1>1, <2>3 DEF Shifted
    <3>2. Own(n) = v => Before(d, send[n].msg, chPost[v][p])
      BY DEF OnTheWay
    <3> QED BY <2>1, <2>2, <3>1, <3>2
  <2>4. CASE n = l
    <3>1. send'[n].msg = chPost[u][1] /\ Own(n) = u /\ 1 \in 1..Len(chPost[u])
      BY <1>1, <2>4 DEF Shifted
    <3>2. Own(n) = v => Before(d, chPost[v][1], chPost[v][p])
      BY <1>1, <2>1, <3>1 DEF OnTheWay
    <3> QED BY <2>1, <2>2, <3>1, <3>2
  <2> QED BY <2>3, <2>4
<1>6. ASSUME NEW n \in Loop, NEW p \in Loop
      PROVE  Before(d, send'[n].msg, recv'[p].msg)
  <2>1. recv' = recv /\ (n # l => send'[n].msg = send[n].msg)
    BY <1>1 DEF Shifted
  <2>2. n = l => send'[n].msg = chPost[u][1] /\ 1 \in 1..Len(chPost[u])
    BY <1>1 DEF Shifted
  <2> QED BY <1>1, <2>1, <2>2 DEF OnTheWay
<1> QED BY <1>2, <1>3, <1>4, <1>5, <1>6 DEF OnTheWay

LEMMA ArrivedTake ==
  ASSUME TypeOK, NEW l \in Loop, HasTaken(l), NEW c \in Conns, NEW d \in Conns,
         ArrivedFrom(c, d)
  PROVE  ArrivedFrom(c, d)'
<1> DEFINE u == Own(l)
           x == chPost[u][1]
<1>1. Shifted(l, u, x) /\ u \in Users
  BY Shift DEF HasTaken
<1> HIDE DEF u, x
<1>2. UNCHANGED <<recv, user, arrived>>
  BY <1>1 DEF Shifted
<1>3. ASSUME NEW i \in 1..Len(arrived[c])
      PROVE  Before(d, arrived[c][i], send'[<<c, c>>].msg)
  <2>1. CASE l # <<c, c>>
    <3>1. send'[<<c, c>>].msg = send[<<c, c>>].msg
      BY <1>1, <2>1, Pairs DEF Shifted
    <3> QED BY <3>1 DEF ArrivedFrom
  <2>2. CASE l = <<c, c>>
    <3>1. user[c] = u /\ send'[<<c, c>>].msg = chPost[u][1] /\ 1 \in 1..Len(chPost[u])
      BY <1>1, <2>2, Pairs DEF Shifted, Own
    <3> QED BY <1>1, <3>1 DEF ArrivedFrom
  <2> QED BY <2>1, <2>2
<1>4. ASSUME NEW i \in 1..Len(arrived[c]), NEW v \in Users, user[c] = v,
             NEW j \in 1..Len(chPost'[v])
      PROVE  Before(d, arrived[c][i], chPost'[v][j])
  <2>1. PICK p \in 1..Len(chPost[v]) : chPost'[v][j] = chPost[v][p]
    BY <1>1 DEF Shifted
  <2> QED BY <1>4, <2>1 DEF ArrivedFrom
<1>5. /\ \A i, j \in 1..Len(arrived[c]) : i < j => Before(d, arrived[c][i], arrived[c][j])
      /\ \A i \in 1..Len(arrived[c]) : \A n \in Loop : Before(d, arrived[c][i], recv[n].msg)
  BY DEF ArrivedFrom
<1> QED BY <1>2, <1>3, <1>4, <1>5 DEF ArrivedFrom

\* What a write does to what has arrived.
LEMMA ArrivedEffect ==
  ASSUME TypeOK, NEW c \in Conns, NEW m \in Parcel,
         arrived' = [arrived EXCEPT ![c] = Append(@, m)]
  PROVE  /\ \A b \in Conns : b # c => arrived'[b] = arrived[b]
         /\ Len(arrived[c]) \in Nat /\ Len(arrived'[c]) = Len(arrived[c]) + 1
         /\ arrived'[c][Len(arrived[c]) + 1] = m
         /\ \A i \in 1..Len(arrived[c]) : arrived'[c][i] = arrived[c][i]
<1> DEFINE q == arrived[c]
           r == Append(q, m)
<1>1. q \in Seq(Parcel) /\ arrived \in [Conns -> Seq(Parcel)]
  BY DEF TypeOK, Parcel
<1>2. /\ Len(q) \in Nat /\ Len(r) = Len(q) + 1 /\ r[Len(q) + 1] = m
      /\ \A i \in 1..Len(q) : r[i] = q[i]
  BY <1>1, AppendProperties, LenProperties
<1>3. arrived' = [arrived EXCEPT ![c] = r]
  OBVIOUS
<1> HIDE DEF r
<1>4. arrived'[c] = r /\ \A b \in Conns : b # c => arrived'[b] = arrived[b]
  BY <1>1, <1>3
<1> QED BY <1>2, <1>4

\* Only its own loop writes to a connection that no other session has joined.
LEMMA WritersOwn ==
  ASSUME Sound, NEW l \in Loop, send[l].at # "none", NEW c \in Conns, Alone(c),
         connection[l[1]] = c
  PROVE  l = <<c, c>>
<1>1. TypeOK /\ Identity
  BY DEF Sound
<1>2. l[1] \in Conns /\ l[2] \in Conns /\ l = <<l[1], l[2]>>
  BY Pairs
<1>3. l[1] = c
  <2>1. l[1] # c => recv[<<l[1], c>>].at # "none"
    BY <1>1, <1>2 DEF Identity
  <2>2. l[1] # c => recv[<<l[1], c>>].at = "none"
    BY <1>2 DEF Alone
  <2> QED BY <2>1, <2>2
<1>4. recv[l].at # "none"
  BY <1>1 DEF Identity
<1>5. l[2] = c
  BY <1>1, <1>2, <1>3, <1>4 DEF Identity
<1> QED BY <1>2, <1>3, <1>5

LEMMA ArrivedWrite ==
  ASSUME Sound, NEW l \in Loop, HasWritten(l), NEW c \in Conns, NEW d \in Conns, Alone(c),
         ArrivedFrom(c, d), OnTheWay(d)
  PROVE  ArrivedFrom(c, d)'
<1> DEFINE m == send[l].msg
<1>1. /\ TypeOK /\ m \in Parcel /\ send[l].at = "write" /\ send'[l].msg = Nil
      /\ \A n \in Loop : n # l => send'[n] = send[n]
      /\ UNCHANGED <<chPost, recv, user>>
  BY DEF HasWritten, Sound, Parcel, sockets
<1>2. CASE arrived'[c] = arrived[c]
  BY <1>1, <1>2, ArrivedLess
<1>3. CASE arrived'[c] # arrived[c]
  <2>1. arrived' = [arrived EXCEPT ![connection[l[1]]] = Append(@, m)]
    BY <1>3 DEF HasWritten
  <2>2. connection[l[1]] \in Conns
    BY DEF HasWritten
  <2>3. connection[l[1]] = c
    BY <1>1, <1>3, <2>1, <2>2, ArrivedEffect
  <2>4. l = <<c, c>>
    BY <1>1, <2>3, WritersOwn
  <2> DEFINE k == Len(arrived[c]) + 1
  <2>5. /\ Len(arrived[c]) \in Nat /\ Len(arrived'[c]) = k
        /\ arrived'[c][k] = m
        /\ \A i \in 1..Len(arrived[c]) : arrived'[c][i] = arrived[c][i]
    <3>1. arrived' = [arrived EXCEPT ![c] = Append(@, m)]
      BY <2>1, <2>3
    <3> QED BY <1>1, <3>1, ArrivedEffect
  <2>6. \A i \in 1..Len(arrived[c]) : Before(d, arrived[c][i], m)
    BY <2>4 DEF ArrivedFrom
  <2>7. \A n \in Loop : Before(d, m, recv[n].msg)
    BY DEF OnTheWay
  <2>8. \A u \in Users : user[c] = u => \A j \in 1..Len(chPost[u]) : Before(d, m, chPost[u][j])
    BY <2>4, Pairs DEF OnTheWay, Own
  <2> HIDE DEF k, m
  <2>9. \A i \in 1..Len(arrived'[c]) :
          \/ i \in 1..Len(arrived[c]) /\ arrived'[c][i] = arrived[c][i]
          \/ i = k /\ arrived'[c][i] = m
    BY <2>5 DEF k
  <2>10. ASSUME NEW i \in 1..Len(arrived'[c]), NEW j \in 1..Len(arrived'[c]), i < j
         PROVE  Before(d, arrived'[c][i], arrived'[c][j])
    <3>1. i \in 1..Len(arrived[c]) /\ arrived'[c][i] = arrived[c][i]
      BY <2>5, <2>9, <2>10 DEF k
    <3> QED BY <2>6, <2>9, <2>10, <3>1 DEF ArrivedFrom
  <2>11. ASSUME NEW i \in 1..Len(arrived'[c])
         PROVE  /\ \A n \in Loop : Before(d, arrived'[c][i], recv[n].msg)
                /\ Before(d, arrived'[c][i], send'[<<c, c>>].msg)
                /\ \A u \in Users : user[c] = u =>
                     \A j \in 1..Len(chPost[u]) : Before(d, arrived'[c][i], chPost[u][j])
    <3>1. send'[<<c, c>>].msg = Nil
      BY <1>1, <2>4
    <3> QED BY <2>7, <2>8, <2>9, <3>1, Unordered DEF ArrivedFrom
  <2> QED BY <1>1, <2>10, <2>11 DEF ArrivedFrom
<1> QED BY <1>2, <1>3

\* Nothing arrives anew.
LEMMA ArrivalsSame ==
  ASSUME Arrivals, sent \in Nat, sent' \in Nat, sent <= sent', arrived' = arrived,
         \A c \in Conns : user[c] # Nil => user'[c] = user[c]
  PROVE  Arrivals'
<1> SUFFICES ASSUME NEW c \in Conns
             PROVE  /\ arrived'[c] # << >> => user'[c] # Nil
                    /\ \A i \in 1..Len(arrived'[c]) :
                         arrived'[c][i] \in Message /\ arrived'[c][i].id <= sent'
  BY DEF Arrivals
<1>1. arrived'[c] # << >> => user'[c] # Nil
  BY DEF Arrivals
<1>2. ASSUME NEW i \in 1..Len(arrived[c])
      PROVE  arrived[c][i] \in Message /\ arrived[c][i].id <= sent'
  <2>1. arrived[c][i] \in Message /\ arrived[c][i].id <= sent /\ arrived[c][i].id \in Nat
    BY Numbers DEF Arrivals
  <2> QED BY <2>1
<1> QED BY <1>1, <1>2

LEMMA ArrivalsWrite ==
  ASSUME Sound, Unique, Arrivals, NEW l \in Loop, HasWritten(l)
  PROVE  Arrivals'
<1> DEFINE c == connection[l[1]]
           m == send[l].msg
<1>1. /\ TypeOK /\ Identity /\ m \in Message /\ m \in Parcel /\ c \in Conns
      /\ send[l].at = "write" /\ UNCHANGED <<user, sent>>
  BY DEF HasWritten, Sound, Parcel, sockets
<1>2. CASE conn[c] # "open"
  <2>1. arrived' = arrived
    BY <1>2 DEF HasWritten
  <2> QED BY <1>1, <2>1, ArrivalsSame, NumbersAreNat
<1>3. CASE conn[c] = "open"
  <2>1. arrived' = [arrived EXCEPT ![c] = Append(@, m)]
    BY <1>3 DEF HasWritten
  <2>2. m.id <= sent
    BY <1>1, Numbers DEF Unique, Bounded
  <2>3. user[c] # Nil
    <3>1. l[1] \in Conns /\ l[2] \in Conns /\ recv[l].at # "none" /\ Owner[l[1]] # Nil
      BY <1>1, Pairs DEF Identity
    <3>2. CASE c = l[1]
      BY <1>1, <3>1, <3>2, Owners
    <3>3. CASE c # l[1]
      <4>1. recv[<<l[1], c>>].at # "none" /\ <<l[1], c>> \in Loop /\ <<l[1], c>>[2] = c
        BY <1>1, <3>1, <3>3, Pairs DEF Identity
      <4>2. Owner[c] # Nil
        BY <1>1, <4>1, <3>1, Pairs DEF Identity
      <4> QED BY <1>1, <4>2, Owners
    <3> QED BY <3>2, <3>3
  <2> HIDE DEF c, m
  <2>4. /\ \A b \in Conns : b # c => arrived'[b] = arrived[b]
        /\ Len(arrived[c]) \in Nat /\ Len(arrived'[c]) = Len(arrived[c]) + 1
        /\ arrived'[c][Len(arrived[c]) + 1] = m
        /\ \A i \in 1..Len(arrived[c]) : arrived'[c][i] = arrived[c][i]
    BY <1>1, <2>1, ArrivedEffect
  <2>5. \A i \in 1..Len(arrived'[c]) :
          \/ i \in 1..Len(arrived[c]) /\ arrived'[c][i] = arrived[c][i]
          \/ arrived'[c][i] = m
    BY <2>4
  <2>6. \A i \in 1..Len(arrived'[c]) :
          arrived'[c][i] \in Message /\ arrived'[c][i].id <= sent
    BY <1>1, <2>2, <2>5 DEF Arrivals
  <2> QED BY <1>1, <2>3, <2>4, <2>6 DEF Arrivals
<1> QED BY <1>2, <1>3

\* A step keeps the order, connection by connection.
LEMMA LinedStep ==
  ASSUME Lined, MovedClosed', Arrivals',
         \A l \in Loop : recv'[l].at = "none" => recv[l].at = "none",
         \A d \in Conns : Alone(d) /\ OnTheWay(d) => OnTheWay(d)',
         \A c, d \in Conns :
           Alone(c) /\ Alone(d) /\ OnTheWay(d) /\ ArrivedFrom(c, d) => ArrivedFrom(c, d)'
  PROVE  Lined'
<1>1. \A c \in Conns : Alone(c)' => Alone(c)
  BY AloneStays
<1> QED BY <1>1 DEF Lined

\* Nothing is posted, taken or written, or something goes.
LEMMA LinedLess ==
  ASSUME Sound, Lined, MovedClosed',
         \A l \in Loop : recv'[l].at = "none" => recv[l].at = "none",
         \A l \in Loop : recv'[l].msg \in {recv[l].msg, Nil},
         \A l \in Loop : send'[l].msg \in {send[l].msg, Nil},
         \A c \in Conns : user[c] # Nil => user'[c] = user[c],
         UNCHANGED <<chPost, sent, arrived>>
  PROVE  Lined'
<1>1. TypeOK /\ Arrivals
  BY DEF Sound, Lined
<1>2. Arrivals'
  BY <1>1, ArrivalsSame, NumbersAreNat
<1>3. \A l \in Loop : send'[l].msg # Nil => Own(l)' = Own(l)
  <2> SUFFICES ASSUME NEW l \in Loop, send'[l].msg # Nil
               PROVE  user'[l[1]] = user[l[1]]
    BY DEF Own
  <2>1. send[l].msg # Nil
    OBVIOUS
  <2>2. send[l].at # "none" /\ l[1] \in Conns
    BY <2>1, Pairs DEF Sound, Contents, SendHolds
  <2>3. user[l[1]] # Nil
    BY <1>1, <2>2, Owners DEF Sound, Identity
  <2> QED BY <2>2, <2>3
<1>4. \A c \in Conns : Len(arrived[c]) = 0 \/ user'[c] = user[c]
  <2> SUFFICES ASSUME NEW c \in Conns, user[c] = Nil PROVE Len(arrived[c]) = 0
    OBVIOUS
  <2>1. arrived[c] = << >>
    BY <1>1 DEF Arrivals
  <2> QED BY <2>1, EmptySeq
<1>5. ASSUME NEW d \in Conns, OnTheWay(d) PROVE OnTheWay(d)'
  BY <1>3, <1>5, WayLess
<1>6. ASSUME NEW c \in Conns, NEW d \in Conns, ArrivedFrom(c, d) PROVE ArrivedFrom(c, d)'
  BY <1>4, <1>6, ArrivedLess
<1> QED BY <1>2, <1>5, <1>6, LinedStep

LEMMA LinedRead ==
  ASSUME Sound, Unique, Lined, MovedClosed', NEW l \in Loop, HasRead(l),
         \A n \in Loop : recv'[n].at = "none" => recv[n].at = "none"
  PROVE  Lined'
<1>1. TypeOK /\ MovedClosed /\ Arrivals
  BY DEF Sound, Lined
<1>2. sent' = sent + 1 /\ UNCHANGED <<arrived, user>>
  BY DEF HasRead, sockets
<1>3. sent \in Nat /\ sent' \in Nat /\ sent <= sent'
  BY <1>1, <1>2, NumbersAreNat
<1>4. Arrivals'
  BY <1>1, <1>2, <1>3, ArrivalsSame
<1>5. ASSUME NEW d \in Conns, Alone(d), OnTheWay(d) PROVE OnTheWay(d)'
  BY <1>1, <1>5, WayRead
<1>6. ASSUME NEW c \in Conns, NEW d \in Conns, ArrivedFrom(c, d) PROVE ArrivedFrom(c, d)'
  BY <1>1, <1>6, ArrivedRead
<1> QED BY <1>4, <1>5, <1>6, LinedStep

LEMMA LinedPost ==
  ASSUME Sound, Lined, MovedClosed', NEW l \in Loop, NEW u \in Users, NEW m \in Parcel,
         Moved(l, u, m), Room(u), UNCHANGED sent,
         \A n \in Loop : recv'[n].at = "none" => recv[n].at = "none"
  PROVE  Lined'
<1>1. TypeOK /\ Arrivals /\ UNCHANGED <<arrived, user>>
  BY DEF Sound, Lined, Moved
<1>2. Arrivals'
  BY <1>1, ArrivalsSame, NumbersAreNat
<1>3. ASSUME NEW d \in Conns, OnTheWay(d) PROVE OnTheWay(d)'
  BY <1>1, <1>3, WayPost
<1>4. ASSUME NEW c \in Conns, NEW d \in Conns, ArrivedFrom(c, d) PROVE ArrivedFrom(c, d)'
  BY <1>1, <1>4, ArrivedPost
<1> QED BY <1>2, <1>3, <1>4, LinedStep

LEMMA LinedTake ==
  ASSUME Sound, Lined, MovedClosed', NEW l \in Loop, HasTaken(l)
  PROVE  Lined'
<1>1. TypeOK /\ Arrivals /\ UNCHANGED <<recv, sent, arrived, user>>
  BY DEF Sound, Lined, HasTaken, sockets
<1>2. Arrivals'
  BY <1>1, ArrivalsSame, NumbersAreNat
<1>3. ASSUME NEW d \in Conns, OnTheWay(d) PROVE OnTheWay(d)'
  BY <1>1, <1>3, WayTake
<1>4. ASSUME NEW c \in Conns, NEW d \in Conns, ArrivedFrom(c, d) PROVE ArrivedFrom(c, d)'
  BY <1>1, <1>4, ArrivedTake
<1> QED BY <1>1, <1>2, <1>3, <1>4, LinedStep

LEMMA LinedWrite ==
  ASSUME Sound, Unique, Lined, MovedClosed', NEW l \in Loop, HasWritten(l)
  PROVE  Lined'
<1>1. Arrivals /\ UNCHANGED <<recv, user, chPost>>
  BY DEF Lined, HasWritten, sockets
<1>2. Arrivals'
  BY <1>1, ArrivalsWrite
<1>3. \A n \in Loop : send'[n].msg \in {send[n].msg, Nil} /\ Own(n)' = Own(n)
  BY <1>1 DEF HasWritten, Own
<1>4. ASSUME NEW d \in Conns, OnTheWay(d) PROVE OnTheWay(d)'
  BY <1>1, <1>3, <1>4, WayLess
<1>5. ASSUME NEW c \in Conns, NEW d \in Conns, Alone(c), OnTheWay(d), ArrivedFrom(c, d)
      PROVE  ArrivedFrom(c, d)'
  BY <1>5, ArrivedWrite
<1> QED BY <1>1, <1>2, <1>4, <1>5, LinedStep

LEMMA LinedInit == Init => Lined
<1> SUFFICES ASSUME Init PROVE Lined
  OBVIOUS
<1>1. \A c \in Conns : arrived[c] = << >> /\ Len(arrived[c]) = 0 /\ connection[c] = c
  BY EmptySeq DEF Init
<1>2. \A u \in Users : Len(chPost[u]) = 0
  BY EmptySeq DEF Init
<1>3. \A l \in Loop : recv[l].msg = Nil /\ send[l].msg = Nil
  BY DEF Init
<1>4. MovedClosed /\ Arrivals
  BY <1>1 DEF MovedClosed, Arrivals
<1>5. \A d \in Conns : OnTheWay(d)
  BY <1>2, <1>3, Unordered DEF OnTheWay
<1>6. \A c, d \in Conns : ArrivedFrom(c, d)
  BY <1>1 DEF ArrivedFrom
<1> QED BY <1>4, <1>5, <1>6 DEF Lined

LEMMA LinedNext == Sound /\ Unique /\ Lined /\ [Next]_vars => Lined'
<1> SUFFICES ASSUME Sound, Unique, Lined, [Next]_vars PROVE Lined'
  OBVIOUS
<1>1. TypeOK /\ MovedClosed
  BY DEF Sound, Lined
<1>2. MovedClosed'
  BY <1>1, MovedClosedNext
<1>3. ASSUME NEW l \in Loop, RecvRead(l) PROVE Lined'
  <2>1. HasRead(l)
    BY <1>3, ReadStep
  <2>2. \A n \in Loop : recv'[n].at = "none" => recv[n].at = "none"
    <3>1. \A n \in Loop : n # l => recv'[n] = recv[n]
      BY <2>1 DEF HasRead
    <3>2. recv'[l].at # "none"
      BY <2>1 DEF HasRead
    <3> QED BY <3>1, <3>2
  <2> QED BY <1>2, <2>1, <2>2, LinedRead
<1>4. ASSUME NEW l \in Loop, RecvLookup(l) PROVE Lined'
  <2>1. HasLookedUp(l)
    BY <1>4, LookupStep
  <2>2. \A n \in Loop : recv'[n].at = "none" => recv[n].at = "none"
    BY <2>1 DEF HasLookedUp
  <2> QED BY <1>2, <2>1, <2>2, QuietLookup, LinedLess
<1>5. ASSUME NEW l \in Loop, RecvPost(l) PROVE Lined'
  <2>1. HasPosted(l)
    BY <1>5, PostStep
  <2>2. /\ recv[l].msg \in Parcel /\ recv[l].to \in Users
        /\ UNCHANGED <<send, user, arrived, sent>>
    BY <2>1 DEF HasPosted, Parcel, sockets
  <2>3. \A n \in Loop : recv'[n].at = "none" => recv[n].at = "none"
    BY <2>1 DEF HasPosted
  <2>4. CASE Room(recv[l].to)
    <3>1. Moved(l, recv[l].to, recv[l].msg)
      BY <2>1, <2>2, <2>4 DEF HasPosted, Moved
    <3> QED BY <1>2, <2>2, <2>3, <2>4, <3>1, LinedPost
  <2>5. CASE ~Room(recv[l].to)
    <3>1. chPost' = chPost
      BY <1>1, <2>1, <2>2, <2>5, PostEffect DEF HasPosted
    <3>2. \A n \in Loop : recv'[n].msg = recv[n].msg
      BY <2>1, <2>5 DEF HasPosted
    <3> QED BY <1>2, <2>2, <2>3, <3>1, <3>2, LinedLess
  <2> QED BY <2>4, <2>5
<1>6. ASSUME NEW l \in Loop, RecvRefuse(l) PROVE Lined'
  <2>1. HasRefused(l)
    BY <1>6, RefuseStep
  <2>2. PICK m \in Error : Post(Own(l), m)
    BY <2>1 DEF HasRefused
  <2>3. /\ m \in Parcel /\ m.via = Nil /\ Own(l) \in Users /\ recv'[l].msg = Nil
        /\ \A n \in Loop : n # l => recv'[n] = recv[n]
        /\ UNCHANGED <<send, user, arrived, sent>>
    BY <2>1 DEF HasRefused, Parcel, Error, sockets
  <2>4. \A n \in Loop : recv'[n].at = "none" => recv[n].at = "none"
    BY <2>1 DEF HasRefused
  <2>5. CASE Room(Own(l))
    <3>1. Moved(l, Own(l), m)
      BY <2>2, <2>3 DEF Moved
    <3> QED BY <1>2, <2>3, <2>4, <2>5, <3>1, LinedPost
  <2>6. CASE ~Room(Own(l))
    <3>1. chPost' = chPost
      BY <1>1, <2>2, <2>3, <2>6, PostEffect
    <3>2. \A n \in Loop : recv'[n].msg \in {recv[n].msg, Nil}
      BY <2>3
    <3> QED BY <1>2, <2>3, <2>4, <3>1, <3>2, LinedLess
  <2> QED BY <2>5, <2>6
<1>7. ASSUME NEW l \in Loop, SendTake(l) PROVE Lined'
  BY <1>2, <1>7, TakeStep, LinedTake
<1>8. ASSUME NEW l \in Loop, SendWrite(l) PROVE Lined'
  BY <1>2, <1>8, WriteStep, LinedWrite
<1>9. ASSUME NEW l \in Loop, SendCheck(l) \/ SendPanic(l) PROVE Lined'
  <2>1. HasChecked(l) \/ HasPanicked(l)
    BY <1>9, CheckStep, PanicStep
  <2>2. /\ \A n \in Loop : send'[n].msg \in {send[n].msg, Nil}
        /\ UNCHANGED <<recv, chPost, sent, arrived, user>>
    BY <2>1 DEF HasChecked, HasPanicked, sockets
  <2> QED BY <1>2, <2>2, LinedLess
<1>10. ASSUME Quiet PROVE Lined'
  <2>1. \A n \in Loop : recv'[n].at = "none" => recv[n].at = "none"
    BY <1>10 DEF Quiet
  <2> QED BY <1>2, <1>10, <2>1, LinedLess DEF Quiet
<1>11. CASE UNCHANGED vars
  BY <1>2, <1>11, LinedLess DEF vars, loops, sockets
<1>12. ASSUME \/ \E u \in Users : SignUp(u) \/ Install(u) \/ GuestAdds(u)
              \/ \E k \in Keys : Expire(k)
              \/ \E c \in Conns : HangUp(c)
              \/ \E l \in Loop : RecvStop(l) \/ SendStop(l)
              \/ GuestAdded
       PROVE  Lined'
  BY <1>10, <1>12, OtherStep, QuietRest
<1>13. ASSUME NEW c \in Conns, Start(c) \/ Serve(c) PROVE Lined'
  BY <1>10, <1>13, QuietStart, QuietServe
<1>14. ASSUME NEW l \in Loop, RecvPanic(l) PROVE Lined'
  <2>1. HasFallen(l)
    BY <1>14, FallStep
  <2>2. /\ \A n \in Loop : recv'[n].msg \in {recv[n].msg, Nil}
        /\ \A n \in Loop : recv'[n].at = "none" => recv[n].at = "none"
        /\ UNCHANGED <<send, chPost, sent, arrived, user>>
    BY <2>1 DEF HasFallen
  <2> QED BY <1>2, <2>2, LinedLess
<1> QED BY <1>3, <1>4, <1>5, <1>6, <1>7, <1>8, <1>9, <1>11, <1>12, <1>13, <1>14
        DEF Next, RecvStep, RecvHandle, SendStep

LEMMA LinedIsOrdered == TypeOK /\ Lined => Ordered
<1> SUFFICES ASSUME TypeOK, Lined, NEW c \in Conns, Alone(c),
                    NEW i \in DOMAIN arrived[c], NEW j \in DOMAIN arrived[c],
                    i < j, arrived[c][i].via = arrived[c][j].via,
                    Alone(arrived[c][i].via)
             PROVE  arrived[c][i].id < arrived[c][j].id
  BY DEF Ordered
<1>1. arrived[c] \in Seq(Parcel)
  BY DEF TypeOK, Parcel
<1>2. i \in 1..Len(arrived[c]) /\ j \in 1..Len(arrived[c])
  BY <1>1, LenProperties
<1>3. arrived[c][i] \in Message /\ arrived[c][j] \in Message
  BY <1>2 DEF Lined, Arrivals
<1>4. arrived[c][i].via \in Conns /\ arrived[c][i] # Nil /\ arrived[c][j] # Nil
  BY <1>3, Numbers, NilAssumption
<1>5. ArrivedFrom(c, arrived[c][i].via)
  BY <1>4 DEF Lined
<1> QED BY <1>2, <1>4, <1>5 DEF ArrivedFrom, Before, Of

\* Messages from one connection to another arrive in the order in which recv read
\* them as long as no other session has joined either: whatever user objects the
\* registry holds meanwhile, and whatever else the channel carries.
THEOREM MessagesKeepOrder == Spec => []Ordered
<1>1. Spec => [](Sound /\ Unique /\ Lined)
  BY SoundInit, SoundNext, UniqueInit, UniqueNext, LinedInit, LinedNext, PTL DEF Spec
<1>2. Sound /\ Unique /\ Lined => Ordered
  BY LinedIsOrdered DEF Sound
<1> QED BY <1>1, <1>2, PTL

=============================================================================

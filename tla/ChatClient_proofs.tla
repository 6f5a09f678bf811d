------------------------- MODULE ChatClient_proofs -------------------------
(***************************************************************************)
(* Proofs about ChatClient, for every set of clients, whoever works at the *)
(* console and whatever the bounds: its types, and that every session is   *)
(* agreed on by both of its clients.                                       *)
(*                                                                         *)
(* A session is made out of a pack that has come over the network, so the  *)
(* argument is about the packs.  Each one, wherever it is, leads to a      *)
(* message in the archive of that message's author, and its two ends are   *)
(* the author and the addressee of that message.  Archives and messages    *)
(* only grow, so this cannot change under way.                             *)
(***************************************************************************)
EXTENDS ChatClient, FiniteSetTheorems, SequenceTheorems, TLAPS

\* The requests that wait for a listener of client c.
Queued(c) == {requested[c].eventqueue[i] : i \in DOMAIN requested[c].eventqueue}

TriggerOK ==
    /\ requested \in [Clients -> [listener : Clients \cup {None}, eventqueue : Seq(Pack)]]

\* The msgIds fit: what is archived and what is still to be sent has been made.
ArchiveFits ==
    \A c \in Clients :
        /\ \A n \in unsent[c] : n \in DOMAIN messages /\ messages[n].from = c
        /\ Len(archive[c]) + Cardinality(unsent[c]) <= Len(messages)

\* The message with msgId id of author a is one to b.
About(id, a, b) ==
    /\ id \in DOMAIN archive[a]
    /\ archive[a][id] \in DOMAIN messages
    /\ messages[archive[a][id]].from = a
    /\ messages[archive[a][id]].to = b

\* What is known of pack k: the message it carries is the archived one; a
\* receipt answers a message, and one that says RECEIVED comes from somebody
\* who knows the author.
PackOK(k) ==
    /\ k.type = "MESSAGE" => About(k.id, k.from, k.to) /\ archive[k.from][k.id] = k.n
    /\ k.type # "MESSAGE" => About(k.id, k.to, k.from)
    /\ k.type = "RECEIVED" => k.to \in contacts[k.from]

PacksOK == \A k \in outbox \cup network \cup decrypting \cup asking : PackOK(k)

\* What waits in a trigger is as good as what it has given to the user.
QueuesOK == \A c \in Clients : \A k \in Queued(c) : PackOK(k)

Inquired(k) == k.type = "MESSAGE" /\ k.n \in Requests

\* What a user is asked about is a request.
InquiryOK ==
    /\ \A k \in decrypting : k.type = "MESSAGE"
    /\ \A k \in asking : Inquired(k)
    /\ \A c \in Clients : \A k \in Queued(c) : Inquired(k)

\* Whoever writes to somebody knows him.
AddresseeIsKnown ==
    \A n \in DOMAIN messages : messages[n].to \in contacts[messages[n].from]

\* Whoever knows somebody has asked him, or has accepted his request.
ContactIsWanted ==
    \A c, p \in Clients : p \in contacts[c] =>
        Asked(c, p) \/ (<<c, p>> \in accepted /\ Asked(p, c))

Inv ==
    /\ TypeOK /\ TriggerOK /\ ArchiveFits
    /\ PacksOK /\ QueuesOK /\ InquiryOK
    /\ AddresseeIsKnown
    /\ SessionIsMutual
    /\ ContactIsWanted

-----------------------------------------------------------------------------

\* What no step takes back.
Grows ==
    /\ \A n \in DOMAIN messages :
         /\ n \in DOMAIN messages'
         /\ messages'[n].from = messages[n].from
         /\ messages'[n].to = messages[n].to
         /\ messages'[n].kind = messages[n].kind
    /\ \A c \in Clients : \A i \in DOMAIN archive[c] :
         i \in DOMAIN archive'[c] /\ archive'[c][i] = archive[c][i]
    /\ \A c \in Clients : contacts[c] \subseteq contacts'[c]
    /\ accepted \subseteq accepted'

\* What is true of a pack, of a request and of an asker therefore stays true.
LEMMA GrowthKeeps ==
  ASSUME Grows
  PROVE  /\ \A k \in Pack : PackOK(k) => PackOK(k)'
         /\ \A k \in Pack : Inquired(k) => Inquired(k)'
         /\ \A c, p \in Clients : Asked(c, p) => Asked(c, p)'
  <1>1. \A n \in Requests : n \in Requests'
    BY DEF Grows, Requests
  <1>2. ASSUME NEW id, NEW a \in Clients, NEW b, About(id, a, b)
        PROVE  About(id, a, b)' /\ archive'[a][id] = archive[a][id]
    BY <1>2 DEF Grows, About
  <1>3. \A k \in Pack : k.from \in Clients /\ k.to \in Clients
    BY DEF Pack
  <1>4. ASSUME NEW k \in Pack, PackOK(k)
        PROVE  PackOK(k)'
    <2>1. CASE k.type = "MESSAGE"
      BY <1>2, <1>3, <1>4, <2>1 DEF PackOK
    <2>2. CASE k.type # "MESSAGE"
      <3>1. About(k.id, k.to, k.from)'
        BY <1>2, <1>3, <1>4, <2>2 DEF PackOK
      <3>2. k.type = "RECEIVED" => k.to \in contacts'[k.from]
        BY <1>3, <1>4 DEF PackOK, Grows
      <3> QED BY <2>2, <3>1, <3>2 DEF PackOK
    <2> QED BY <2>1, <2>2
  <1>5. \A k \in Pack : Inquired(k) => Inquired(k)'
    BY <1>1 DEF Inquired
  <1>6. \A c, p \in Clients : Asked(c, p) => Asked(c, p)'
    BY <1>1 DEF Asked, Grows, Requests
  <1> QED BY <1>4, <1>5, <1>6

\* Where a step leaves contacts and acceptances alone, they stay wanted.
LEMMA WantedStays ==
  ASSUME TypeOK, ContactIsWanted, Grows, UNCHANGED contacts
  PROVE  ContactIsWanted'
  <1> SUFFICES ASSUME NEW c \in Clients, NEW p \in Clients, p \in contacts[c]
               PROVE  Asked(c, p)' \/ (<<c, p>> \in accepted' /\ Asked(p, c)')
    BY DEF ContactIsWanted
  <1>1. Asked(c, p) \/ (<<c, p>> \in accepted /\ Asked(p, c))
    BY DEF ContactIsWanted
  <1> QED BY <1>1, GrowthKeeps DEF Grows

\* Packs that were there before are as good as they were.
LEMMA OldPacksOK ==
  ASSUME Inv, Grows
  PROVE  /\ \A k \in outbox \cup network \cup decrypting \cup asking : PackOK(k)'
         /\ \A k \in asking : Inquired(k)'
         /\ \A c \in Clients : \A k \in Queued(c) : k \in Pack /\ PackOK(k)' /\ Inquired(k)'
  <1>1. \A c \in Clients : \A k \in Queued(c) : k \in Pack
    BY DEF Inv, TriggerOK, Queued
  <1> QED BY <1>1, GrowthKeeps DEF Inv, TypeOK, PacksOK, QueuesOK, InquiryOK

\* A new message in the list of all messages.
LEMMA MakeGrows ==
  ASSUME Inv, NEW c \in Clients, NEW p \in Clients, NEW kind \in {"request", "text"},
         Make(c, p, kind), UNCHANGED <<archive, accepted>>,
         \A d \in Clients : contacts[d] \subseteq contacts'[d],
         p \in contacts'[c]
  PROVE  /\ Grows /\ ArchiveFits' /\ AddresseeIsKnown'
         /\ messages' \in Seq(Message) /\ Len(messages') <= MaxMessages
         /\ Len(messages') = Len(messages) + 1
         /\ messages'[Len(messages) + 1] =
               [from |-> c, to |-> p, kind |-> kind, state |-> "pending"]
         /\ unsent' \in [Clients -> SUBSET Numbers]
  <1> DEFINE n == Len(messages) + 1
             m == [from |-> c, to |-> p, kind |-> kind, state |-> "pending"]
  <1>1. messages \in Seq(Message) /\ Len(messages) \in Nat /\ DOMAIN messages = 1..Len(messages)
    BY DEF Inv, TypeOK
  <1>2. m \in Message
    BY DEF Message
  <1>3. messages' = Append(messages, m) /\ Len(messages) < MaxMessages
    BY DEF Make
  <1>4. /\ messages' \in Seq(Message) /\ Len(messages') = n
        /\ DOMAIN messages' = 1..n /\ messages'[n] = m
        /\ \A i \in DOMAIN messages : messages'[i] = messages[i]
    BY <1>1, <1>2, <1>3
  <1>5. n \in Numbers /\ n <= MaxMessages
    BY <1>1, <1>3, BoundsAssumption DEF Numbers
  <1>6. unsent' = [unsent EXCEPT ![c] = @ \cup {n}]
    BY DEF Make
  <1> HIDE DEF n, m
  <1>7. unsent' \in [Clients -> SUBSET Numbers]
    BY <1>5, <1>6 DEF Inv, TypeOK
  <1>8. Grows
    <2>1. DOMAIN messages \subseteq DOMAIN messages'
      BY <1>1, <1>4 DEF n
    <2> QED BY <1>4, <2>1 DEF Grows
  <1>9. ArchiveFits'
    <2> SUFFICES ASSUME NEW d \in Clients
                 PROVE  /\ \A k \in unsent'[d] : k \in DOMAIN messages' /\ messages'[k].from = d
                        /\ Len(archive[d]) + Cardinality(unsent'[d]) <= Len(messages')
      BY DEF ArchiveFits
    <2>1. /\ \A k \in unsent[d] : k \in DOMAIN messages /\ messages[k].from = d
          /\ Len(archive[d]) + Cardinality(unsent[d]) <= Len(messages)
          /\ Len(archive[d]) \in Nat
      BY DEF Inv, ArchiveFits, TypeOK
    <2>2. IsFiniteSet(unsent[d]) /\ Cardinality(unsent[d]) \in Nat
      <3>1. unsent[d] \subseteq 1..Len(messages)
        BY <1>1, <2>1
      <3>2. IsFiniteSet(1..Len(messages))
        BY <1>1, FS_Interval
      <3> QED BY <3>1, <3>2, FS_Subset, FS_CardinalityType
    <2>3. n \notin unsent[d]
      BY <1>1, <2>1 DEF n
    <2>4. Cardinality(unsent[d] \cup {n}) = Cardinality(unsent[d]) + 1
      BY <2>2, <2>3, FS_AddElement
    <2>5. \A k \in unsent[d] : k \in DOMAIN messages' /\ messages'[k].from = d
      BY <1>8, <2>1 DEF Grows
    <2>6. CASE d = c
      <3>1. unsent'[d] = unsent[d] \cup {n}
        BY <1>6, <2>6 DEF Inv, TypeOK
      <3>2. n \in DOMAIN messages' /\ messages'[n].from = d
        BY <1>1, <1>4, <2>6 DEF n, m
      <3> QED BY <1>1, <1>4, <2>1, <2>2, <2>4, <2>5, <3>1, <3>2 DEF n
    <2>7. CASE d # c
      <3>1. unsent'[d] = unsent[d]
        BY <1>6, <2>7 DEF Inv, TypeOK
      <3> QED BY <1>1, <1>4, <2>1, <2>2, <2>5, <3>1 DEF n
    <2> QED BY <2>6, <2>7
  <1>10. AddresseeIsKnown'
    <2> SUFFICES ASSUME NEW i \in DOMAIN messages'
                 PROVE  messages'[i].to \in contacts'[messages'[i].from]
      BY DEF AddresseeIsKnown
    <2>1. CASE i = n
      BY <1>4, <2>1 DEF m
    <2>2. CASE i # n
      <3>1. i \in DOMAIN messages /\ messages'[i] = messages[i]
        BY <1>1, <1>4, <2>2 DEF n
      <3>2. messages[i].from \in Clients
        <4>1. messages[i] \in Message
          BY <1>1, <3>1
        <4> QED BY <4>1 DEF Message
      <3> QED BY <3>1, <3>2 DEF Inv, AddresseeIsKnown
    <2> QED BY <2>1, <2>2
  <1> QED BY <1>4, <1>5, <1>7, <1>8, <1>9, <1>10 DEF n, m

\* A step that makes no message and sends none.
LEMMA FrameGrows ==
  ASSUME Inv, UNCHANGED <<archive, unsent>>,
         Len(messages') = Len(messages) /\ DOMAIN messages' = DOMAIN messages,
         \A n \in DOMAIN messages :
            /\ messages'[n].from = messages[n].from
            /\ messages'[n].to = messages[n].to
            /\ messages'[n].kind = messages[n].kind,
         \A d \in Clients : contacts[d] \subseteq contacts'[d],
         accepted \subseteq accepted'
  PROVE  Grows /\ ArchiveFits' /\ AddresseeIsKnown'
  <1>1. Grows
    BY DEF Grows
  <1>2. ArchiveFits'
    BY DEF Inv, ArchiveFits
  <1>3. AddresseeIsKnown'
    <2> SUFFICES ASSUME NEW n \in DOMAIN messages
                 PROVE  messages'[n].to \in contacts'[messages'[n].from]
      BY DEF AddresseeIsKnown
    <2>1. messages[n] \in Message
      BY DEF Inv, TypeOK
    <2>2. messages[n].from \in Clients
      BY <2>1 DEF Message
    <2> QED BY <2>2 DEF Inv, AddresseeIsKnown
  <1> QED BY <1>1, <1>2, <1>3

\* The packs after a step are old ones or as good.
LEMMA PacksMove ==
  ASSUME Inv, Grows,
         \A k \in outbox' \cup network' \cup decrypting' \cup asking' :
            k \in outbox \cup network \cup decrypting \cup asking \/ PackOK(k)'
  PROVE  PacksOK'
  <1>1. \A k \in outbox \cup network \cup decrypting \cup asking : PackOK(k)'
    BY OldPacksOK
  <1>2. PacksOK' <=> \A k \in outbox' \cup network' \cup decrypting' \cup asking' : PackOK(k)'
    BY DEF PacksOK
  <1> QED BY <1>1, <1>2

\* A step on which no request reaches a trigger or a user.
LEMMA InquiryStays ==
  ASSUME Inv, Grows, UNCHANGED requested, asking' \subseteq asking,
         \A k \in decrypting' : k \in decrypting \/ k.type = "MESSAGE"
  PROVE  TriggerOK' /\ QueuesOK' /\ InquiryOK'
  <1>1. TriggerOK'
    BY DEF Inv, TriggerOK
  <1>2. \A c \in Clients : Queued(c)' = Queued(c)
    BY DEF Queued
  <1>3. QueuesOK'
    BY <1>2, OldPacksOK DEF QueuesOK
  <1>4. InquiryOK'
    <2>1. \A k \in decrypting' : k.type = "MESSAGE"
      BY DEF Inv, InquiryOK
    <2>2. \A k \in asking' : Inquired(k)'
      BY OldPacksOK
    <2>3. \A c \in Clients : \A k \in Queued(c)' : Inquired(k)'
      BY <1>2, OldPacksOK
    <2> QED BY <2>1, <2>2, <2>3 DEF InquiryOK
  <1> QED BY <1>1, <1>3, <1>4

\* Sessions that are new have been agreed on.
LEMMA SessionsStayMutual ==
  ASSUME Inv, Grows,
         \A c, p \in Clients : HasSession(c, p)' =>
            HasSession(c, p) \/ (p \in contacts'[c] /\ c \in contacts'[p])
  PROVE  SessionIsMutual'
  BY DEF Inv, SessionIsMutual, Grows

-----------------------------------------------------------------------------
(* One lemma for each action.                                              *)

LEMMA ContactRequestKeeps ==
  ASSUME Inv, NEW c \in Clients, NEW p \in Clients, ContactRequest(c, p)
  PROVE  Inv' /\ Grows
  <1>1. /\ Make(c, p, "request")
        /\ contacts' = [contacts EXCEPT ![c] = @ \cup {p}]
        /\ UNCHANGED <<sessions, archive, held, inquiry, lost, accepted, early>>
    BY DEF ContactRequest
  <1>2. contacts' \in [Clients -> SUBSET Clients]
    BY <1>1 DEF Inv, TypeOK
  <1>3. (\A d \in Clients : contacts[d] \subseteq contacts'[d]) /\ p \in contacts'[c]
    BY <1>1 DEF Inv, TypeOK
  <1>4. /\ Grows /\ ArchiveFits' /\ AddresseeIsKnown'
        /\ messages' \in Seq(Message) /\ Len(messages') <= MaxMessages
        /\ Len(messages') = Len(messages) + 1
        /\ messages'[Len(messages) + 1] =
              [from |-> c, to |-> p, kind |-> "request", state |-> "pending"]
        /\ unsent' \in [Clients -> SUBSET Numbers]
    BY <1>1, <1>3, MakeGrows
  <1>5. TypeOK'
    BY <1>1, <1>2, <1>4 DEF Inv, TypeOK, held, inquiry
  <1>6. PacksOK'
    BY <1>1, <1>4, PacksMove DEF held, inquiry
  <1>7. TriggerOK' /\ QueuesOK' /\ InquiryOK'
    BY <1>1, <1>4, InquiryStays DEF inquiry
  <1>8. SessionIsMutual'
    BY <1>1, <1>4, SessionsStayMutual DEF HasSession
  <1>9. ContactIsWanted'
    <2>1. Asked(c, p)'
      <3>1. Len(messages) + 1 \in DOMAIN messages'
        BY <1>4 DEF Inv, TypeOK
      <3> QED BY <1>4, <3>1 DEF Asked, Requests
    <2> SUFFICES ASSUME NEW d \in Clients, NEW q \in Clients, q \in contacts'[d]
                 PROVE  Asked(d, q)' \/ (<<d, q>> \in accepted' /\ Asked(q, d)')
      BY DEF ContactIsWanted
    <2>2. CASE d = c /\ q = p
      BY <2>1, <2>2
    <2>3. CASE ~(d = c /\ q = p)
      <3>1. q \in contacts[d]
        BY <1>1, <2>3 DEF Inv, TypeOK
      <3>2. Asked(d, q) \/ (<<d, q>> \in accepted /\ Asked(q, d))
        BY <3>1 DEF Inv, ContactIsWanted
      <3> QED BY <1>4, <3>2, GrowthKeeps DEF Grows
    <2> QED BY <2>2, <2>3
  <1> QED BY <1>4, <1>5, <1>6, <1>7, <1>8, <1>9 DEF Inv

LEMMA SessionSendKeeps ==
  ASSUME Inv, NEW c \in Clients, NEW i \in DOMAIN sessions[c], SessionSend(c, i)
  PROVE  Inv' /\ Grows
  <1> DEFINE p == sessions[c][i].with
  <1>0. sessions[c][i] \in Session /\ p \in Clients /\ sessions[c] \in Seq(Session)
    <2>1. sessions[c] \in Seq(Session)
      BY DEF Inv, TypeOK
    <2>2. sessions[c][i] \in Session
      BY <2>1
    <2> QED BY <2>1, <2>2 DEF Session
  <1>1. /\ Make(c, p, "text")
        /\ sessions' = [sessions EXCEPT ![c][i].messages = Append(@, Len(messages) + 1)]
        /\ UNCHANGED <<contacts, archive, held, inquiry, lost, accepted, early>>
    BY DEF SessionSend
  <1>2. p \in contacts[c]
    <2>1. HasSession(c, p)
      BY DEF HasSession
    <2> QED BY <1>0, <2>1 DEF Inv, SessionIsMutual
  <1> HIDE DEF p
  <1>3. /\ Grows /\ ArchiveFits' /\ AddresseeIsKnown'
        /\ messages' \in Seq(Message) /\ Len(messages') <= MaxMessages
        /\ Len(messages') = Len(messages) + 1
        /\ unsent' \in [Clients -> SUBSET Numbers]
    BY <1>0, <1>1, <1>2, MakeGrows
  <1>4. Len(messages) + 1 \in Numbers
    BY <1>3, BoundsAssumption DEF Inv, TypeOK, Numbers
  <1>5. /\ sessions' \in [Clients -> Seq(Session)]
        /\ \A d \in Clients : DOMAIN sessions'[d] = DOMAIN sessions[d]
        /\ \A d \in Clients : \A j \in DOMAIN sessions[d] :
              sessions'[d][j].with = sessions[d][j].with
    <2>a. PICK e : e = [sessions[c][i] EXCEPT !.messages = Append(@, Len(messages) + 1)]
      OBVIOUS
    <2>b. PICK new : new = [sessions[c] EXCEPT ![i] = e]
      OBVIOUS
    <2>1. sessions' = [sessions EXCEPT ![c] = new]
      BY <1>1, <2>a, <2>b
    <2>2. Append(sessions[c][i].messages, Len(messages) + 1) \in Seq(Numbers)
      BY <1>0, <1>4 DEF Session
    <2>3. e \in Session /\ e.with = sessions[c][i].with
      BY <1>0, <2>2, <2>a DEF Session
    <2>4. /\ new \in Seq(Session) /\ DOMAIN new = DOMAIN sessions[c]
          /\ \A j \in DOMAIN sessions[c] : new[j].with = sessions[c][j].with
      <3>1. i \in 1..Len(sessions[c])
        BY <1>0
      <3>2. new \in Seq(Session)
        BY <1>0, <2>3, <2>b, <3>1, ExceptSeq
      <3> QED BY <2>3, <2>b, <3>2
    <2> QED BY <2>1, <2>4 DEF Inv, TypeOK
  <1>6. TypeOK'
    BY <1>1, <1>3, <1>5 DEF Inv, TypeOK, held, inquiry
  <1>7. PacksOK'
    BY <1>1, <1>3, PacksMove DEF held, inquiry
  <1>8. TriggerOK' /\ QueuesOK' /\ InquiryOK'
    BY <1>1, <1>3, InquiryStays DEF inquiry
  <1>9. SessionIsMutual'
    BY <1>3, <1>5, SessionsStayMutual DEF HasSession
  <1>10. ContactIsWanted'
    BY <1>1, <1>3, WantedStays DEF Inv
  <1> QED BY <1>3, <1>6, <1>7, <1>8, <1>9, <1>10 DEF Inv

LEMMA SendKeeps ==
  ASSUME Inv, NEW c \in Clients, NEW n \in unsent[c], Send(c, n)
  PROVE  Inv' /\ Grows
  <1>a. PICK id : id = Len(archive[c]) + 1
    OBVIOUS
  <1>b. PICK k : k = [from |-> c, to |-> messages[n].to, type |-> "MESSAGE", id |-> id, n |-> n]
    OBVIOUS
  <1>1. /\ unsent' = [unsent EXCEPT ![c] = @ \ {n}]
        /\ archive' = [archive EXCEPT ![c] = Append(@, n)]
        /\ outbox' = outbox \cup {k}
        /\ UNCHANGED <<messages, contacts, sessions, network, inquiry, lost, accepted, early>>
    BY <1>a, <1>b DEF Send
  <1>2. /\ n \in DOMAIN messages /\ messages[n].from = c
        /\ messages[n] \in Message /\ n \in Numbers
        /\ Len(archive[c]) + Cardinality(unsent[c]) <= Len(messages)
        /\ archive[c] \in Seq(Numbers) /\ Len(archive[c]) \in Nat
    BY DEF Inv, ArchiveFits, TypeOK
  <1>3. /\ IsFiniteSet(unsent[c]) /\ Cardinality(unsent[c]) \in Nat
        /\ Cardinality(unsent[c] \ {n}) = Cardinality(unsent[c]) - 1
        /\ Cardinality(unsent[c]) # 0
    <2>1. unsent[c] \subseteq 1..Len(messages)
      BY DEF Inv, ArchiveFits, TypeOK
    <2>2. IsFiniteSet(1..Len(messages))
      BY FS_Interval DEF Inv, TypeOK
    <2>3. IsFiniteSet(unsent[c])
      BY <2>1, <2>2, FS_Subset
    <2> QED BY <2>3, FS_CardinalityType, FS_RemoveElement, FS_EmptySet
  <1>4. id \in Numbers
    BY <1>a, <1>2, <1>3, BoundsAssumption DEF Inv, TypeOK, Numbers
  <1>5. k \in Pack
    BY <1>b, <1>2, <1>4 DEF Pack, Message
  <1>6. /\ archive' \in [Clients -> Seq(Numbers)]
        /\ archive'[c] = Append(archive[c], n)
        /\ \A d \in Clients : d # c => archive'[d] = archive[d]
    <2>1. Append(archive[c], n) \in Seq(Numbers)
      BY <1>2
    <2> QED BY <1>1, <2>1 DEF Inv, TypeOK
  <1>7. id \in DOMAIN archive'[c] /\ archive'[c][id] = n /\ Len(archive'[c]) = id
    BY <1>a, <1>2, <1>6
  <1>8. Grows
    <2>1. \A j \in DOMAIN archive[c] : j \in DOMAIN archive'[c] /\ archive'[c][j] = archive[c][j]
      BY <1>2, <1>6
    <2> QED BY <1>1, <1>6, <2>1 DEF Grows
  <1>9. ArchiveFits'
    <2> SUFFICES ASSUME NEW d \in Clients
                 PROVE  /\ \A m \in unsent'[d] : m \in DOMAIN messages /\ messages[m].from = d
                        /\ Len(archive'[d]) + Cardinality(unsent'[d]) <= Len(messages)
      BY <1>1 DEF ArchiveFits
    <2>1. \A m \in unsent[d] : m \in DOMAIN messages /\ messages[m].from = d
      BY DEF Inv, ArchiveFits
    <2>2. CASE d = c
      <3>1. unsent'[d] = unsent[d] \ {n}
        BY <1>1, <2>2 DEF Inv, TypeOK
      <3> QED BY <1>a, <1>2, <1>3, <1>7, <2>1, <2>2, <3>1 DEF Inv, TypeOK
    <2>3. CASE d # c
      <3>1. unsent'[d] = unsent[d] /\ archive'[d] = archive[d]
        BY <1>1, <1>6, <2>3 DEF Inv, TypeOK
      <3> QED BY <2>1, <3>1 DEF Inv, ArchiveFits
    <2> QED BY <2>2, <2>3
  <1>10. TypeOK'
    <2>1. unsent' \in [Clients -> SUBSET Numbers]
      BY <1>1 DEF Inv, TypeOK
    <2> QED BY <1>1, <1>5, <1>6, <2>1 DEF Inv, TypeOK, inquiry
  <1>11. PacksOK'
    <2>1. PackOK(k)'
      BY <1>b, <1>1, <1>2, <1>7 DEF PackOK, About
    <2> QED BY <1>1, <1>8, <2>1, PacksMove DEF inquiry
  <1>12. TriggerOK' /\ QueuesOK' /\ InquiryOK'
    BY <1>1, <1>8, InquiryStays DEF inquiry
  <1>13. AddresseeIsKnown'
    BY <1>1 DEF Inv, AddresseeIsKnown
  <1>14. SessionIsMutual'
    BY <1>1, <1>8, SessionsStayMutual DEF HasSession
  <1>15. ContactIsWanted'
    BY <1>1, <1>8, WantedStays DEF Inv
  <1> QED BY <1>8, <1>9, <1>10, <1>11, <1>12, <1>13, <1>14, <1>15 DEF Inv

LEMMA SendPackKeeps ==
  ASSUME Inv, NEW k \in outbox, SendPack(k)
  PROVE  Inv' /\ Grows
  <1>1. /\ outbox' = outbox \ {k} /\ network' = network \cup {k}
        /\ UNCHANGED <<messages, contacts, sessions, archive, unsent, inquiry, lost,
                       accepted, early>>
    BY DEF SendPack
  <1>2. Grows /\ ArchiveFits' /\ AddresseeIsKnown'
    BY <1>1, FrameGrows
  <1>3. TypeOK'
    BY <1>1 DEF Inv, TypeOK, inquiry
  <1>4. PacksOK'
    BY <1>1, <1>2, PacksMove DEF inquiry
  <1>5. TriggerOK' /\ QueuesOK' /\ InquiryOK'
    BY <1>1, <1>2, InquiryStays DEF inquiry
  <1>6. SessionIsMutual'
    BY <1>1, <1>2, SessionsStayMutual DEF HasSession
  <1>7. ContactIsWanted'
    BY <1>1, <1>2, WantedStays DEF Inv
  <1> QED BY <1>2, <1>3, <1>4, <1>5, <1>6, <1>7 DEF Inv

LEMMA LoseKeeps ==
  ASSUME Inv, NEW k \in network, Lose(k)
  PROVE  Inv' /\ Grows
  <1>1. /\ network' = network \ {k} /\ lost < MaxLost /\ lost' = lost + 1
        /\ UNCHANGED <<messages, contacts, sessions, archive, unsent, outbox, inquiry,
                       accepted, early>>
    BY DEF Lose
  <1>2. Grows /\ ArchiveFits' /\ AddresseeIsKnown'
    BY <1>1, FrameGrows
  <1>3. TypeOK'
    <2>1. lost' \in 0..MaxLost
      BY <1>1, BoundsAssumption DEF Inv, TypeOK
    <2> QED BY <1>1, <2>1 DEF Inv, TypeOK, inquiry
  <1>4. PacksOK'
    BY <1>1, <1>2, PacksMove DEF inquiry
  <1>5. TriggerOK' /\ QueuesOK' /\ InquiryOK'
    BY <1>1, <1>2, InquiryStays DEF inquiry
  <1>6. SessionIsMutual'
    BY <1>1, <1>2, SessionsStayMutual DEF HasSession
  <1>7. ContactIsWanted'
    BY <1>1, <1>2, WantedStays DEF Inv
  <1> QED BY <1>2, <1>3, <1>4, <1>5, <1>6, <1>7 DEF Inv

\* A receipt for a pack whose ends both know the other is as good as the pack.
LEMMA ReceiptIsOK ==
  ASSUME Inv, NEW k \in Pack, k.type = "MESSAGE", PackOK(k)',
         NEW type \in {"RECEIVED", "REJECT"},
         type = "RECEIVED" => k.from \in contacts'[k.to]
  PROVE  Receipt(k, type) \in Pack /\ PackOK(Receipt(k, type))'
  <1>1. Receipt(k, type) \in Pack
    BY DEF Receipt, Pack
  <1>2. /\ Receipt(k, type).from = k.to /\ Receipt(k, type).to = k.from
        /\ Receipt(k, type).id = k.id /\ Receipt(k, type).type = type
    BY DEF Receipt
  <1>3. About(k.id, k.from, k.to)'
    BY DEF PackOK
  <1> QED BY <1>1, <1>2, <1>3 DEF PackOK

LEMMA NewSessionType ==
  ASSUME NEW p \in Clients
  PROVE  NewSession(p) \in Session /\ NewSession(p).with = p /\ NewSession(p).messages = << >>
  BY EmptySeq DEF Session, NewSession

\* A session with p is added to those of c.
LEMMA SessionIsAdded ==
  ASSUME TypeOK, NEW c \in Clients, NEW p \in Clients,
         sessions' = [sessions EXCEPT ![c] = Append(@, NewSession(p))]
  PROVE  /\ sessions' \in [Clients -> Seq(Session)]
         /\ \A d, q \in Clients : HasSession(d, q)' => HasSession(d, q) \/ (d = c /\ q = p)
  <1>1. sessions[c] \in Seq(Session) /\ NewSession(p) \in Session /\ NewSession(p).with = p
    BY NewSessionType DEF TypeOK
  <1>2. PICK new : new = Append(sessions[c], NewSession(p))
    OBVIOUS
  <1>3. /\ new \in Seq(Session)
        /\ \A j \in DOMAIN new :
             (j \in DOMAIN sessions[c] /\ new[j] = sessions[c][j]) \/ new[j].with = p
    BY <1>1, <1>2
  <1>4. sessions' = [sessions EXCEPT ![c] = new]
    BY <1>2
  <1> QED BY <1>3, <1>4 DEF HasSession, TypeOK

LEMMA HandleMessageKeeps ==
  ASSUME Inv, NEW k \in network, HandleMessage(k)
  PROVE  Inv' /\ Grows
  <1>0. k \in Pack /\ k.from \in Clients /\ k.to \in Clients /\ PackOK(k)
    BY DEF Inv, TypeOK, PacksOK, Pack
  <1>a. PICK c : c = k.to
    OBVIOUS
  <1>b. PICK there : there = IF SessionWith(c, k.from) <= Len(sessions[c]) THEN sessions[c]
                             ELSE Append(sessions[c], NewSession(k.from))
    OBVIOUS
  <1>c. PICK i : i = SessionWith(c, k.from)
    OBVIOUS
  <1>d. PICK new : new = [there EXCEPT ![i].messages = Append(@, k.n)]
    OBVIOUS
  <1>1. /\ k.type = "MESSAGE" /\ k.from \in contacts[c]
        /\ network' = network \ {k}
        /\ outbox' = outbox \cup {Receipt(k, "RECEIVED")}
        /\ sessions' = [sessions EXCEPT ![c] = new]
        /\ early' \subseteq early \cup {<<c, k.from>>}
        /\ UNCHANGED <<messages, contacts, archive, unsent, inquiry, lost, accepted>>
    BY <1>a, <1>b, <1>c, <1>d DEF HandleMessage
  <1>2. /\ there \in Seq(Session)
        /\ \A j \in DOMAIN there :
             (j \in DOMAIN sessions[c] /\ there[j].with = sessions[c][j].with)
             \/ there[j].with = k.from
    <2>1. sessions[c] \in Seq(Session) /\ NewSession(k.from) \in Session
      BY <1>0, <1>a, NewSessionType DEF Inv, TypeOK
    <2>2. CASE there = sessions[c]
      BY <2>1, <2>2
    <2>3. CASE there = Append(sessions[c], NewSession(k.from))
      <3>1. NewSession(k.from).with = k.from
        BY DEF NewSession
      <3> QED BY <2>1, <2>3, <3>1
    <2> QED BY <1>b, <2>2, <2>3
  <1>3. k.n \in Numbers
    <2>1. archive[k.from] \in Seq(Numbers)
      BY <1>0 DEF Inv, TypeOK
    <2> QED BY <1>0, <1>1, <2>1 DEF PackOK, About
  <1>4. /\ new \in Seq(Session)
        /\ DOMAIN new = DOMAIN there
        /\ \A j \in DOMAIN there : new[j].with = there[j].with
    <2>1. CASE i \in DOMAIN there
      <3>1. PICK e : e = [there[i] EXCEPT !.messages = Append(@, k.n)]
        OBVIOUS
      <3>2. there[i] \in Session /\ i \in 1..Len(there)
        BY <1>2, <2>1
      <3>3. e \in Session /\ e.with = there[i].with
        <4>1. there[i].messages \in Seq(Numbers)
          BY <3>2 DEF Session
        <4>2. Append(there[i].messages, k.n) \in Seq(Numbers)
          BY <1>3, <4>1
        <4> QED BY <3>1, <3>2, <4>2 DEF Session
      <3>4. new = [there EXCEPT ![i] = e]
        BY <1>d, <3>1
      <3>5. new \in Seq(Session)
        BY <1>2, <3>2, <3>3, <3>4, ExceptSeq
      <3> QED BY <3>3, <3>4, <3>5
    <2>2. CASE i \notin DOMAIN there
      <3>1. DOMAIN there = 1..Len(there) /\ Len(there) \in Nat
        BY <1>2
      <3>2. PICK e : e = [there[i] EXCEPT !.messages = Append(@, k.n)]
        OBVIOUS
      <3>3. new = [there EXCEPT ![i] = e]
        BY <1>d, <3>2
      <3>4. \A j \in DOMAIN there : there[j] \in Session
        BY <1>2
      <3>5. new \in [1..Len(there) -> Session] /\ \A j \in DOMAIN there : new[j] = there[j]
        BY <1>2, <2>2, <3>1, <3>3, <3>4
      <3> QED BY <3>1, <3>5, SeqDef
    <2> QED BY <2>1, <2>2
  <1>5. Grows /\ ArchiveFits' /\ AddresseeIsKnown'
    BY <1>1, FrameGrows
  <1>6. PackOK(k)'
    BY <1>0, <1>5, GrowthKeeps
  <1>7. Receipt(k, "RECEIVED") \in Pack /\ PackOK(Receipt(k, "RECEIVED"))'
    BY <1>0, <1>1, <1>a, <1>6, ReceiptIsOK
  <1>8. TypeOK'
    <2>1. sessions' \in [Clients -> Seq(Session)]
      BY <1>1, <1>4 DEF Inv, TypeOK
    <2>2. early' \subseteq Clients \X Clients
      BY <1>0, <1>a, <1>1 DEF Inv, TypeOK
    <2> QED BY <1>1, <1>7, <2>1, <2>2 DEF Inv, TypeOK, inquiry
  <1>9. PacksOK'
    BY <1>1, <1>5, <1>7, PacksMove DEF inquiry
  <1>10. TriggerOK' /\ QueuesOK' /\ InquiryOK'
    BY <1>1, <1>5, InquiryStays DEF inquiry
  <1>11. SessionIsMutual'
    <2>1. \A d, q \in Clients : HasSession(d, q)' => HasSession(d, q) \/ (d = c /\ q = k.from)
      BY <1>1, <1>2, <1>4 DEF Inv, TypeOK, HasSession
    <2>2. c \in contacts[k.from]
      BY <1>0, <1>1, <1>a DEF PackOK, About, Inv, AddresseeIsKnown
    <2> QED BY <1>1, <1>5, <2>1, <2>2, SessionsStayMutual
  <1>12. ContactIsWanted'
    BY <1>1, <1>5, WantedStays DEF Inv
  <1> QED BY <1>5, <1>8, <1>9, <1>10, <1>11, <1>12 DEF Inv

LEMMA HandleStrangerKeeps ==
  ASSUME Inv, NEW k \in network, HandleStranger(k)
  PROVE  Inv' /\ Grows
  <1>1. /\ k.type = "MESSAGE" /\ network' = network \ {k}
        /\ decrypting' = decrypting \cup {k}
        /\ UNCHANGED <<messages, contacts, sessions, archive, unsent, outbox,
                       requested, asking, prompt, lost, accepted, early>>
    BY DEF HandleStranger
  <1>2. Grows /\ ArchiveFits' /\ AddresseeIsKnown'
    BY <1>1, FrameGrows
  <1>3. TypeOK'
    BY <1>1 DEF Inv, TypeOK
  <1>4. PacksOK'
    BY <1>1, <1>2, PacksMove
  <1>5. TriggerOK' /\ QueuesOK' /\ InquiryOK'
    BY <1>1, <1>2, InquiryStays
  <1>6. SessionIsMutual'
    BY <1>1, <1>2, SessionsStayMutual DEF HasSession
  <1>7. ContactIsWanted'
    BY <1>1, <1>2, WantedStays DEF Inv
  <1> QED BY <1>2, <1>3, <1>4, <1>5, <1>6, <1>7 DEF Inv

LEMMA HandleReceiptKeeps ==
  ASSUME Inv, NEW k \in network, HandleReceipt(k)
  PROVE  Inv' /\ Grows
  <1>0. k \in Pack /\ k.from \in Clients /\ k.to \in Clients /\ PackOK(k)
    BY DEF Inv, TypeOK, PacksOK, Pack
  <1>a. PICK c : c = k.to
    OBVIOUS
  <1>b. PICK n : n = archive[c][k.id]
    OBVIOUS
  <1>1. /\ k.type # "MESSAGE" /\ network' = network \ {k}
        /\ messages' = IF messages[n].state = "pending"
                       THEN [messages EXCEPT ![n].state =
                               IF k.type = "RECEIVED" THEN "received" ELSE "failed"]
                       ELSE messages
        /\ sessions' = IF messages[n].kind = "request" /\ k.type = "RECEIVED"
                       THEN [sessions EXCEPT ![c] = Append(@, NewSession(messages[n].to))]
                       ELSE sessions
        /\ UNCHANGED <<contacts, archive, unsent, outbox, inquiry, lost, accepted, early>>
    BY <1>a, <1>b DEF HandleReceipt
  <1>2. /\ n \in DOMAIN messages /\ messages[n].from = c /\ messages[n].to = k.from
        /\ k.type = "RECEIVED" => c \in contacts[k.from]
    BY <1>0, <1>1, <1>a, <1>b DEF PackOK, About
  <1>3. /\ messages' \in Seq(Message) /\ Len(messages') = Len(messages)
        /\ DOMAIN messages' = DOMAIN messages
        /\ \A j \in DOMAIN messages :
             /\ messages'[j].from = messages[j].from
             /\ messages'[j].to = messages[j].to
             /\ messages'[j].kind = messages[j].kind
    <2>1. PICK m : m = [messages[n] EXCEPT
                          !.state = IF k.type = "RECEIVED" THEN "received" ELSE "failed"]
      OBVIOUS
    <2>2. messages \in Seq(Message) /\ n \in 1..Len(messages) /\ messages[n] \in Message
      BY <1>2 DEF Inv, TypeOK
    <2>3. /\ m \in Message /\ m.from = messages[n].from
          /\ m.to = messages[n].to /\ m.kind = messages[n].kind
      BY <2>1, <2>2 DEF Message
    <2>4. CASE messages' = [messages EXCEPT ![n] = m]
      <3>1. messages' \in Seq(Message) /\ Len(messages') = Len(messages)
        BY <2>2, <2>3, <2>4, ExceptSeq
      <3> QED BY <2>3, <2>4, <3>1
    <2>5. CASE messages' = messages
      BY <2>2, <2>5
    <2> QED BY <1>1, <2>1, <2>4, <2>5
  <1>4. Grows /\ ArchiveFits' /\ AddresseeIsKnown'
    BY <1>1, <1>3, FrameGrows
  <1>5. /\ sessions' \in [Clients -> Seq(Session)]
        /\ \A d, q \in Clients : HasSession(d, q)' =>
             HasSession(d, q) \/ (k.type = "RECEIVED" /\ d = c /\ q = k.from)
    <2>1. CASE sessions' = sessions
      BY <2>1 DEF Inv, TypeOK, HasSession
    <2>2. CASE /\ k.type = "RECEIVED"
               /\ sessions' = [sessions EXCEPT ![c] = Append(@, NewSession(k.from))]
      BY <1>0, <1>a, <2>2, SessionIsAdded DEF Inv
    <2> QED BY <1>1, <1>2, <2>1, <2>2
  <1>6. TypeOK'
    BY <1>1, <1>3, <1>5 DEF Inv, TypeOK, inquiry
  <1>7. PacksOK'
    BY <1>1, <1>4, PacksMove DEF inquiry
  <1>8. TriggerOK' /\ QueuesOK' /\ InquiryOK'
    BY <1>1, <1>4, InquiryStays DEF inquiry
  <1>9. SessionIsMutual'
    <2>1. k.from \in contacts[c]
      BY <1>2 DEF Inv, AddresseeIsKnown
    <2> QED BY <1>1, <1>2, <1>4, <1>5, <2>1, SessionsStayMutual
  <1>10. ContactIsWanted'
    BY <1>1, <1>4, WantedStays DEF Inv
  <1> QED BY <1>4, <1>6, <1>7, <1>8, <1>9, <1>10 DEF Inv

\* The user is asked about the packs of a sequence.
LEMMA AskAdds ==
  ASSUME TypeOK, NEW c \in Clients, NEW ks \in Seq(Pack), Ask(c, ks)
  PROVE  /\ prompt' \in [Clients -> Pack \cup {None}]
         /\ \A k \in asking' : k \in asking \/ \E i \in DOMAIN ks : k = ks[i]
         /\ asking' \subseteq Pack
  <1>1. /\ asking' = asking \cup {ks[i] : i \in DOMAIN ks}
        /\ prompt' = IF c \in Console /\ ks # << >>
                     THEN [prompt EXCEPT ![c] = ks[Len(ks)]] ELSE prompt
    BY DEF Ask
  <1>2. ks # << >> => ks[Len(ks)] \in Pack
    OBVIOUS
  <1>3. \A i \in DOMAIN ks : ks[i] \in Pack
    OBVIOUS
  <1> QED BY <1>1, <1>2, <1>3 DEF TypeOK

LEMMA DecryptedKeeps ==
  ASSUME Inv, NEW k \in decrypting, Decrypted(k)
  PROVE  Inv' /\ Grows
  <1>0. k \in Pack /\ k.to \in Clients /\ PackOK(k) /\ k.type = "MESSAGE"
    BY DEF Inv, TypeOK, PacksOK, InquiryOK, Pack
  <1>a. PICK c : c = k.to
    OBVIOUS
  <1>b. PICK ks : ks = IF k.n \in Requests /\ requested[c].listener # None THEN <<k>> ELSE << >>
    OBVIOUS
  <1>1. /\ decrypting' = decrypting \ {k}
        /\ UNCHANGED <<messages, contacts, sessions, archive, unsent, held, lost, accepted, early>>
    BY DEF Decrypted
  <1>2. Grows /\ ArchiveFits' /\ AddresseeIsKnown'
    BY <1>1, FrameGrows
  <1>3. PackOK(k)'
    BY <1>0, <1>2, GrowthKeeps
  <1>4. /\ requested' \in [Clients -> [listener : Clients \cup {None}, eventqueue : Seq(Pack)]]
        /\ \A d \in Clients : \A q \in Queued(d)' :
             q \in Queued(d) \/ (q = k /\ k.n \in Requests)
    <2>1. CASE k.n \in Requests
      <3>1. PICK t : t = E!Trigger(requested[c], k)
        OBVIOUS
      <3>2. requested' = [requested EXCEPT ![c] = t]
        BY <1>a, <2>1, <3>1 DEF Decrypted
      <3>3. /\ requested[c] \in [listener : Clients \cup {None}, eventqueue : Seq(Pack)]
            /\ requested[c].eventqueue \in Seq(Pack)
        BY <1>0, <1>a DEF Inv, TriggerOK
      <3>4. PICK new : new = Append(requested[c].eventqueue, k)
        OBVIOUS
      <3>5. /\ new \in Seq(Pack)
            /\ \A j \in DOMAIN new :
                  new[j] = k \/ (j \in DOMAIN requested[c].eventqueue
                                 /\ new[j] = requested[c].eventqueue[j])
        BY <1>0, <3>3, <3>4
      <3>6. /\ t \in [listener : Clients \cup {None}, eventqueue : Seq(Pack)]
            /\ t.eventqueue = new \/ t.eventqueue = requested[c].eventqueue
        BY <3>1, <3>3, <3>4, <3>5 DEF E!Trigger
      <3>7. requested' \in [Clients -> [listener : Clients \cup {None}, eventqueue : Seq(Pack)]]
        BY <3>2, <3>6 DEF Inv, TriggerOK
      <3>8. \A d \in Clients : d # c => requested'[d] = requested[d]
        BY <3>2 DEF Inv, TriggerOK
      <3>9. requested'[c] = t
        BY <1>0, <1>a, <3>2 DEF Inv, TriggerOK
      <3>10. \A d \in Clients : d # c => Queued(d)' = Queued(d)
        BY <3>8 DEF Queued
      <3>11. \A q \in Queued(c)' : q \in Queued(c) \/ q = k
        <4>1. CASE t.eventqueue = new
          <5> SUFFICES ASSUME NEW j \in DOMAIN new PROVE new[j] \in Queued(c) \/ new[j] = k
            BY <3>9, <4>1 DEF Queued
          <5> QED BY <3>5 DEF Queued
        <4>2. CASE t.eventqueue = requested[c].eventqueue
          BY <3>9, <4>2 DEF Queued
        <4> QED BY <3>6, <4>1, <4>2
      <3> QED BY <2>1, <3>7, <3>10, <3>11
    <2>2. CASE k.n \notin Requests
      <3>1. UNCHANGED requested
        BY <2>2 DEF Decrypted
      <3> QED BY <3>1 DEF Inv, TriggerOK, Queued
    <2> QED BY <2>1, <2>2
  <1>5. /\ prompt' \in [Clients -> Pack \cup {None}] /\ asking' \subseteq Pack
        /\ \A q \in asking' : q \in asking \/ (q = k /\ k.n \in Requests)
    <2>1. CASE k.n \in Requests
      <3>1. Ask(c, ks)
        BY <1>a, <1>b, <2>1 DEF Decrypted, E!Dispatched
      <3>2. ks \in Seq(Pack) /\ \A i \in DOMAIN ks : ks[i] = k
        BY <1>0, <1>b
      <3> QED BY <1>0, <1>a, <2>1, <3>1, <3>2, AskAdds DEF Inv
    <2>2. CASE k.n \notin Requests
      BY <2>2 DEF Decrypted, Inv, TypeOK
    <2> QED BY <2>1, <2>2
  <1>6. k.n \in Requests => Inquired(k)'
    BY <1>0, <1>2, GrowthKeeps DEF Inquired
  <1>7. TypeOK'
    BY <1>1, <1>5 DEF Inv, TypeOK, held
  <1>8. PacksOK'
    BY <1>1, <1>2, <1>3, <1>5, PacksMove DEF held
  <1>9. TriggerOK' /\ QueuesOK' /\ InquiryOK'
    <2>1. TriggerOK'
      BY <1>4 DEF TriggerOK
    <2>2. QueuesOK'
      BY <1>2, <1>3, <1>4, OldPacksOK DEF QueuesOK
    <2>3. \A q \in decrypting' : q.type = "MESSAGE"
      BY <1>1 DEF Inv, InquiryOK
    <2>4. \A q \in asking' : Inquired(q)'
      BY <1>2, <1>5, <1>6, OldPacksOK
    <2>5. \A d \in Clients : \A q \in Queued(d)' : Inquired(q)'
      BY <1>2, <1>4, <1>6, OldPacksOK
    <2>6. InquiryOK'
      BY <2>3, <2>4, <2>5 DEF InquiryOK
    <2> QED BY <2>1, <2>2, <2>6
  <1>10. SessionIsMutual'
    BY <1>1, <1>2, SessionsStayMutual DEF HasSession
  <1>11. ContactIsWanted'
    BY <1>1, <1>2, WantedStays DEF Inv
  <1> QED BY <1>2, <1>7, <1>8, <1>9, <1>10, <1>11 DEF Inv

LEMMA ListenKeeps ==
  ASSUME Inv, NEW c \in Clients, Listen(c)
  PROVE  Inv' /\ Grows
  <1>a. PICK ks : ks = requested[c].eventqueue
    OBVIOUS
  <1>1. /\ requested' = [requested EXCEPT ![c] = E!On(@, c)]
        /\ Ask(c, ks)
        /\ UNCHANGED <<messages, contacts, sessions, archive, unsent, held, decrypting,
                       lost, accepted, early>>
    BY <1>a DEF Listen, E!DispatchedOn
  <1>2. Grows /\ ArchiveFits' /\ AddresseeIsKnown'
    BY <1>1, FrameGrows
  <1>3. ks \in Seq(Pack)
    BY <1>a DEF Inv, TriggerOK
  <1>4. /\ prompt' \in [Clients -> Pack \cup {None}] /\ asking' \subseteq Pack
        /\ \A q \in asking' : q \in asking \/ q \in Queued(c)
    BY <1>1, <1>3, <1>a, AskAdds DEF Inv, Queued
  <1>5. TriggerOK' /\ \A d \in Clients : Queued(d)' \subseteq Queued(d)
    <2>1. PICK t : t = E!On(requested[c], c)
      OBVIOUS
    <2>2. /\ t \in [listener : Clients \cup {None}, eventqueue : Seq(Pack)]
          /\ t.eventqueue = << >>
      BY <2>1, EmptySeq DEF E!On
    <2>3. requested' = [requested EXCEPT ![c] = t]
      BY <1>1, <2>1
    <2>4. TriggerOK'
      BY <2>2, <2>3 DEF Inv, TriggerOK
    <2>5. requested'[c] = t /\ \A d \in Clients : d # c => requested'[d] = requested[d]
      BY <2>3 DEF Inv, TriggerOK
    <2> QED BY <2>2, <2>4, <2>5 DEF Queued
  <1>6. TypeOK'
    BY <1>1, <1>4 DEF Inv, TypeOK, held
  <1>7. PacksOK'
    BY <1>1, <1>2, <1>4, OldPacksOK, PacksMove DEF held
  <1>8. QueuesOK' /\ InquiryOK'
    <2>1. QueuesOK'
      BY <1>2, <1>5, OldPacksOK DEF QueuesOK
    <2>2. \A q \in decrypting' : q.type = "MESSAGE"
      BY <1>1 DEF Inv, InquiryOK
    <2>3. \A q \in asking' : Inquired(q)'
      BY <1>2, <1>4, OldPacksOK
    <2>4. \A d \in Clients : \A q \in Queued(d)' : Inquired(q)'
      BY <1>2, <1>5, OldPacksOK
    <2> QED BY <2>1, <2>2, <2>3, <2>4 DEF InquiryOK
  <1>9. SessionIsMutual'
    BY <1>1, <1>2, SessionsStayMutual DEF HasSession
  <1>10. ContactIsWanted'
    BY <1>1, <1>2, WantedStays DEF Inv
  <1> QED BY <1>2, <1>5, <1>6, <1>7, <1>8, <1>9, <1>10 DEF Inv

LEMMA AcceptKeeps ==
  ASSUME Inv, NEW k \in asking, Accept(k)
  PROVE  Inv' /\ Grows
  <1>0. /\ k \in Pack /\ k.from \in Clients /\ k.to \in Clients /\ PackOK(k)
        /\ k.type = "MESSAGE" /\ k.n \in Requests
    BY DEF Inv, TypeOK, PacksOK, InquiryOK, Inquired, Pack
  <1>a. PICK c : c = k.to
    OBVIOUS
  <1>b. PICK p : p = k.from
    OBVIOUS
  <1>1. /\ asking' = asking \ {k}
        /\ prompt' = IF k.to \in Console THEN [prompt EXCEPT ![k.to] = None] ELSE prompt
        /\ contacts' = [contacts EXCEPT ![c] = @ \cup {p}]
        /\ outbox' = outbox \cup {Receipt(k, "RECEIVED")}
        /\ sessions' = [sessions EXCEPT ![c] = Append(@, NewSession(p))]
        /\ accepted' = accepted \cup {<<c, p>>}
        /\ UNCHANGED <<messages, archive, unsent, network, decrypting, requested, lost, early>>
    BY <1>a, <1>b DEF Accept, Answered
  <1>2. /\ contacts' \in [Clients -> SUBSET Clients] /\ p \in contacts'[c]
        /\ \A d \in Clients : contacts[d] \subseteq contacts'[d]
        /\ \A d, q \in Clients : q \in contacts'[d] => q \in contacts[d] \/ (d = c /\ q = p)
    BY <1>0, <1>a, <1>b, <1>1 DEF Inv, TypeOK
  <1>3. Grows /\ ArchiveFits' /\ AddresseeIsKnown'
    BY <1>1, <1>2, FrameGrows
  <1>4. PackOK(k)'
    BY <1>0, <1>3, GrowthKeeps
  <1>5. Receipt(k, "RECEIVED") \in Pack /\ PackOK(Receipt(k, "RECEIVED"))'
    BY <1>0, <1>2, <1>a, <1>b, <1>4, ReceiptIsOK
  <1>6. /\ sessions' \in [Clients -> Seq(Session)]
        /\ \A d, q \in Clients : HasSession(d, q)' => HasSession(d, q) \/ (d = c /\ q = p)
    BY <1>0, <1>a, <1>b, <1>1, SessionIsAdded DEF Inv
  <1>7. TypeOK'
    <2>1. accepted' \subseteq Clients \X Clients
      BY <1>0, <1>a, <1>b, <1>1 DEF Inv, TypeOK
    <2>2. prompt' \in [Clients -> Pack \cup {None}]
      BY <1>1 DEF Inv, TypeOK
    <2> QED BY <1>1, <1>2, <1>5, <1>6, <2>1, <2>2 DEF Inv, TypeOK
  <1>8. PacksOK'
    BY <1>1, <1>3, <1>5, PacksMove
  <1>9. TriggerOK' /\ QueuesOK' /\ InquiryOK'
    BY <1>1, <1>3, InquiryStays
  <1>10. /\ k.n \in DOMAIN messages /\ messages[k.n].from = p /\ messages[k.n].to = c
    BY <1>0, <1>a, <1>b DEF PackOK, About
  <1>11. SessionIsMutual'
    <2>1. c \in contacts'[p]
      BY <1>0, <1>2, <1>10, <1>b DEF Inv, AddresseeIsKnown
    <2> QED BY <1>2, <1>3, <1>6, <2>1, SessionsStayMutual
  <1>12. ContactIsWanted'
    <2>1. Asked(p, c)'
      <3>1. Asked(p, c)
        BY <1>0, <1>10 DEF Asked
      <3> QED BY <1>0, <1>a, <1>b, <1>3, <3>1, GrowthKeeps
    <2> SUFFICES ASSUME NEW d \in Clients, NEW q \in Clients, q \in contacts'[d]
                 PROVE  Asked(d, q)' \/ (<<d, q>> \in accepted' /\ Asked(q, d)')
      BY DEF ContactIsWanted
    <2>2. CASE d = c /\ q = p
      BY <1>1, <2>1, <2>2
    <2>3. CASE q \in contacts[d]
      <3>1. Asked(d, q) \/ (<<d, q>> \in accepted /\ Asked(q, d))
        BY <2>3 DEF Inv, ContactIsWanted
      <3> QED BY <1>1, <1>3, <3>1, GrowthKeeps
    <2> QED BY <1>2, <2>2, <2>3
  <1> QED BY <1>3, <1>7, <1>8, <1>9, <1>11, <1>12 DEF Inv

LEMMA RejectKeeps ==
  ASSUME Inv, NEW k \in asking, Reject(k)
  PROVE  Inv' /\ Grows
  <1>0. k \in Pack /\ PackOK(k) /\ k.type = "MESSAGE"
    BY DEF Inv, TypeOK, PacksOK, InquiryOK, Inquired
  <1>1. /\ asking' = asking \ {k}
        /\ prompt' = IF k.to \in Console THEN [prompt EXCEPT ![k.to] = None] ELSE prompt
        /\ outbox' = outbox \cup {Receipt(k, "REJECT")}
        /\ UNCHANGED <<messages, contacts, sessions, archive, unsent, network, decrypting,
                       requested, lost, accepted, early>>
    BY DEF Reject, Answered
  <1>2. Grows /\ ArchiveFits' /\ AddresseeIsKnown'
    BY <1>1, FrameGrows
  <1>3. PackOK(k)'
    BY <1>0, <1>2, GrowthKeeps
  <1>4. Receipt(k, "REJECT") \in Pack /\ PackOK(Receipt(k, "REJECT"))'
    BY <1>0, <1>3, ReceiptIsOK
  <1>5. TypeOK'
    <2>1. prompt' \in [Clients -> Pack \cup {None}]
      BY <1>1 DEF Inv, TypeOK
    <2> QED BY <1>1, <1>4, <2>1 DEF Inv, TypeOK
  <1>6. PacksOK'
    BY <1>1, <1>2, <1>4, PacksMove
  <1>7. TriggerOK' /\ QueuesOK' /\ InquiryOK'
    BY <1>1, <1>2, InquiryStays
  <1>8. SessionIsMutual'
    BY <1>1, <1>2, SessionsStayMutual DEF HasSession
  <1>9. ContactIsWanted'
    BY <1>1, <1>2, WantedStays DEF Inv
  <1> QED BY <1>2, <1>5, <1>6, <1>7, <1>8, <1>9 DEF Inv

-----------------------------------------------------------------------------

LEMMA InvInit == Init => Inv
  <1> SUFFICES ASSUME Init PROVE Inv
    OBVIOUS
  <1>1. TypeOK
    BY EmptySeq, BoundsAssumption DEF Init, TypeOK
  <1>2. TriggerOK
    BY EmptySeq DEF Init, TriggerOK, E!NewTrigger
  <1>3. ArchiveFits
    BY FS_EmptySet DEF Init, ArchiveFits
  <1>4. PacksOK /\ AddresseeIsKnown /\ SessionIsMutual /\ ContactIsWanted
    BY DEF Init, PacksOK, AddresseeIsKnown, SessionIsMutual, ContactIsWanted, HasSession
  <1>5. \A c \in Clients : Queued(c) = {}
    BY DEF Init, Queued, E!NewTrigger
  <1>6. QueuesOK /\ InquiryOK
    BY <1>5 DEF Init, QueuesOK, InquiryOK
  <1> QED BY <1>1, <1>2, <1>3, <1>4, <1>6 DEF Inv

LEMMA InvStutter == Inv /\ UNCHANGED vars => Inv' /\ Grows
  <1> SUFFICES ASSUME Inv, UNCHANGED vars PROVE Inv' /\ Grows
    OBVIOUS
  <1>1. UNCHANGED <<messages, contacts, sessions, archive, unsent, outbox, network, decrypting,
                    requested, asking, prompt, lost, accepted, early>>
    BY DEF vars, held, inquiry
  <1>2. Grows /\ ArchiveFits' /\ AddresseeIsKnown'
    BY <1>1, FrameGrows
  <1>3. TypeOK'
    BY <1>1 DEF Inv, TypeOK
  <1>4. PacksOK'
    BY <1>1, <1>2, PacksMove
  <1>5. TriggerOK' /\ QueuesOK' /\ InquiryOK'
    BY <1>1, <1>2, InquiryStays
  <1>6. SessionIsMutual'
    BY <1>1, <1>2, SessionsStayMutual DEF HasSession
  <1>7. ContactIsWanted'
    BY <1>1, <1>2, WantedStays DEF Inv
  <1> QED BY <1>2, <1>3, <1>4, <1>5, <1>6, <1>7 DEF Inv

LEMMA InvNext == Inv /\ [Next]_vars => Inv'
  <1> SUFFICES ASSUME Inv, Next PROVE Inv'
    BY InvStutter
  <1>1. CASE \E c \in Clients : \E p \in Clients \ {c} : ContactRequest(c, p)
    BY <1>1, ContactRequestKeeps
  <1>2. CASE \E c \in Clients : \E i \in DOMAIN sessions[c] : SessionSend(c, i)
    BY <1>2, SessionSendKeeps
  <1>3. CASE \E c \in Clients : \E n \in unsent[c] : Send(c, n)
    BY <1>3, SendKeeps
  <1>4. CASE \E c \in Clients : Listen(c)
    BY <1>4, ListenKeeps
  <1>5. CASE \E k \in outbox : SendPack(k)
    BY <1>5, SendPackKeeps
  <1>6. CASE \E k \in network : Receive(k) \/ Lose(k)
    BY <1>6, HandleMessageKeeps, HandleStrangerKeeps, HandleReceiptKeeps, LoseKeeps DEF Receive
  <1>7. CASE \E k \in decrypting : Decrypted(k)
    BY <1>7, DecryptedKeeps
  <1>8. CASE \E k \in asking : Accept(k) \/ Reject(k)
    BY <1>8, AcceptKeeps, RejectKeeps
  <1> QED BY <1>1, <1>2, <1>3, <1>4, <1>5, <1>6, <1>7, <1>8 DEF Next

\* The argument of this module: packs lead to the messages they are about.
THEOREM Invariance == Spec => []Inv
  <1> QED BY InvInit, InvNext, PTL DEF Spec

\* The variables of ChatClient keep their types; above all, the msgIds that
\* send hands out stay below the number of messages.
THEOREM ClientTypes == Spec => []TypeOK
  <1>1. Inv => TypeOK
    BY DEF Inv
  <1> QED BY <1>1, Invariance, PTL

\* contactRequest, Session.send, msgHandler and receiptHandler make and use
\* sessions only between clients that know each other and have both wanted it:
\* no order or loss of packs gives a client a session its peer has not agreed to.
THEOREM Agreement == Spec => []SessionIsAgreed
  <1>1. Inv => SessionIsAgreed
    <2> SUFFICES ASSUME Inv PROVE SessionIsAgreed
      OBVIOUS
    <2>1. SessionIsMutual
      BY DEF Inv
    <2>2. Consent
      BY <2>1 DEF Inv, Consent, SessionIsMutual, ContactIsWanted
    <2> QED BY <2>1, <2>2 DEF SessionIsAgreed
  <1> QED BY <1>1, Invariance, PTL

=============================================================================

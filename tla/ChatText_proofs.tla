-------------------------- MODULE ChatText_proofs --------------------------
(***************************************************************************)
(* Proof that ChatClient implements Conversation, for every set of clients *)
(* and all bounds: the texts users send are heard at most once, and        *)
(* confirmed only when they have been heard.  Then, with the same          *)
(* invariant, that nobody gets two sessions out of one request.            *)
(*                                                                         *)
(* A text is in one place: with its sender, in one pack, or in a session   *)
(* of its receiver.  The way from one to the next leaves the place before, *)
(* and a receipt about a text is made where the text is put on display.    *)
(***************************************************************************)
EXTENDS ChatClient_proofs, WellFoundedInduction

\* The places in a list of sessions at which message n is displayed.
At(ss, n) ==
    {p \in UNION {{<<i, j>> : j \in DOMAIN ss[i].messages} : i \in DOMAIN ss} :
        ss[p[1]].messages[p[2]] = n}

\* Where text n is shown to its receiver.
Shown(n) == At(sessions[messages[n].to], n)

Carries(k, n) == k.type = "MESSAGE" /\ k.n = n

NotToSelf == \A n \in DOMAIN messages : messages[n].from # messages[n].to

\* Only messages that have been made are displayed.
DisplayedIsMade ==
    \A c \in Clients : \A i \in DOMAIN sessions[c] : \A j \in DOMAIN sessions[c][i].messages :
        sessions[c][i].messages[j] \in DOMAIN messages

\* A text that has not been sent is in no pack and shown to nobody.
UnsentIsUnseen ==
    \A c \in Clients : \A n \in unsent[c] :
        /\ \A k \in outbox \cup network : ~Carries(k, n)
        /\ n \in Texts => Shown(n) = {}

\* Two packs do not carry the same message, and one is in one place.
OnePack ==
    /\ \A k, q \in outbox \cup network : k.type = "MESSAGE" /\ Carries(q, k.n) => k = q
    /\ \A k \in outbox : k.type = "MESSAGE" => k \notin network

\* What a pack still carries is not shown yet.
CarriedIsUnseen ==
    \A k \in outbox \cup network : k.type = "MESSAGE" /\ k.n \in Texts => Shown(k.n) = {}

ShownOnce == \A n \in Texts : \A p, q \in Shown(n) : p = q

\* A receipt about a text is only on its way once the text is shown; so is the
\* author told only then.
ReceiptIsTrue ==
    \A k \in outbox \cup network : \A n \in Texts :
        k.type = "RECEIVED" /\ archive[k.to][k.id] = n => Shown(n) # {}
ConfirmedIsShown == \A n \in Texts : messages[n].state = "received" => Shown(n) # {}

TextInv ==
    /\ NotToSelf /\ DisplayedIsMade /\ UnsentIsUnseen
    /\ OnePack /\ CarriedIsUnseen /\ ShownOnce
    /\ ReceiptIsTrue /\ ConfirmedIsShown

-----------------------------------------------------------------------------
(* Lists of sessions.                                                      *)

LEMMA AtHas ==
  ASSUME NEW ss, NEW n, NEW p
  PROVE  p \in At(ss, n) <=>
           \E i \in DOMAIN ss : \E j \in DOMAIN ss[i].messages :
              p = <<i, j>> /\ ss[i].messages[j] = n
  BY DEF At

LEMMA HeardIsShown ==
  \A n : TimesHeard(n) = IF n \in Texts THEN Cardinality(Shown(n)) ELSE 0
  BY DEF TimesHeard, Places, Shown, At

LEMMA AtNewSession ==
  ASSUME NEW ss \in Seq(Session), NEW p \in Clients, NEW n
  PROVE  At(Append(ss, NewSession(p)), n) = At(ss, n)
  <1>1. PICK new : new = Append(ss, NewSession(p))
    OBVIOUS
  <1>2. NewSession(p) \in Session /\ NewSession(p).messages = << >>
    BY NewSessionType
  <1>3. /\ DOMAIN new = DOMAIN ss \cup {Len(ss) + 1}
        /\ \A i \in DOMAIN ss : new[i] = ss[i]
        /\ new[Len(ss) + 1].messages = << >>
    BY <1>1, <1>2
  <1>4. \A q : q \in At(new, n) <=> q \in At(ss, n)
    <2> TAKE q
    <2>1. DOMAIN << >> = {}
      OBVIOUS
    <2>2. (\E i \in DOMAIN new : \E j \in DOMAIN new[i].messages :
             q = <<i, j>> /\ new[i].messages[j] = n)
          <=> \E i \in DOMAIN ss : \E j \in DOMAIN ss[i].messages :
             q = <<i, j>> /\ ss[i].messages[j] = n
      BY <1>3, <2>1
    <2> QED BY <2>2, AtHas
  <1>5. At(new, n) = At(ss, n)
    BY <1>4
  <1> QED BY <1>1, <1>5

LEMMA AtNewMessage ==
  ASSUME NEW ss \in Seq(Session), NEW i \in DOMAIN ss, NEW x \in Numbers, NEW new,
         DOMAIN new = DOMAIN ss, new[i].messages = Append(ss[i].messages, x),
         \A h \in DOMAIN ss : h # i => new[h] = ss[h]
  PROVE  /\ \A n : n # x => At(new, n) = At(ss, n)
         /\ At(new, x) = At(ss, x) \cup {<<i, Len(ss[i].messages) + 1>>}
         /\ \A h \in DOMAIN new : \A j \in DOMAIN new[h].messages :
              \/ new[h].messages[j] = x
              \/ /\ h \in DOMAIN ss /\ j \in DOMAIN ss[h].messages
                 /\ new[h].messages[j] = ss[h].messages[j]
  <1>1. PICK ms : ms = ss[i].messages
    OBVIOUS
  <1>2. PICK l : l = Len(ms) + 1
    OBVIOUS
  <1>3. ms \in Seq(Numbers) /\ ss[i] \in Session
    <2>1. ss[i] \in Session
      OBVIOUS
    <2> QED BY <1>1, <2>1 DEF Session
  <1>4. PICK more : more = Append(ms, x)
    OBVIOUS
  <1>5. /\ DOMAIN more = DOMAIN ms \cup {l} /\ l \notin DOMAIN ms /\ more[l] = x
        /\ \A j \in DOMAIN ms : more[j] = ms[j]
    BY <1>2, <1>3, <1>4
  <1>6. /\ DOMAIN new = DOMAIN ss /\ new[i].messages = more
        /\ \A h \in DOMAIN ss : h # i => new[h] = ss[h]
    BY <1>1, <1>4
  <1>7. \A n, q : q \in At(new, n) <=> q \in At(ss, n) \/ (n = x /\ q = <<i, l>>)
    <2> TAKE n, q
    <2>1. ASSUME q \in At(new, n)
          PROVE  q \in At(ss, n) \/ (n = x /\ q = <<i, l>>)
      <3>b. q \in At(new, n) <=>
              \E h \in DOMAIN new : \E j \in DOMAIN new[h].messages :
                 q = <<h, j>> /\ new[h].messages[j] = n
        BY DEF At
      <3>a. PICK h \in DOMAIN new : \E j \in DOMAIN new[h].messages :
              q = <<h, j>> /\ new[h].messages[j] = n
        BY <2>1, <3>b
      <3>1. PICK j \in DOMAIN new[h].messages : q = <<h, j>> /\ new[h].messages[j] = n
        BY <3>a
      <3>2. CASE h = i /\ j = l
        BY <1>5, <1>6, <3>1, <3>2
      <3>3. CASE h = i /\ j # l
        <4>1. j \in DOMAIN ss[h].messages /\ ss[h].messages[j] = n
          BY <1>1, <1>5, <1>6, <3>1, <3>3
        <4> QED BY <1>6, <3>1, <4>1, AtHas
      <3>4. CASE h # i
        BY <1>6, <3>1, <3>4, AtHas
      <3> QED BY <3>2, <3>3, <3>4
    <2>2. ASSUME q \in At(ss, n)
          PROVE  q \in At(new, n)
      <3>a. PICK h \in DOMAIN ss : \E j \in DOMAIN ss[h].messages :
              q = <<h, j>> /\ ss[h].messages[j] = n
        BY <2>2, AtHas
      <3>1. PICK j \in DOMAIN ss[h].messages : q = <<h, j>> /\ ss[h].messages[j] = n
        BY <3>a
      <3>2. j \in DOMAIN new[h].messages /\ new[h].messages[j] = n
        BY <1>1, <1>5, <1>6, <3>1
      <3> QED BY <1>6, <3>1, <3>2, AtHas
    <2>3. ASSUME n = x, q = <<i, l>>
          PROVE  q \in At(new, n)
      <3>1. i \in DOMAIN new /\ l \in DOMAIN new[i].messages /\ new[i].messages[l] = n
        BY <1>5, <1>6, <2>3
      <3> QED BY <2>3, <3>1, AtHas
    <2> QED BY <2>1, <2>2, <2>3
  <1>8. ASSUME NEW n, n # x PROVE At(new, n) = At(ss, n)
    <2>1. \A q : q \in At(new, n) <=> q \in At(ss, n)
      BY <1>7, <1>8
    <2> QED BY <2>1
  <1>9. At(new, x) = At(ss, x) \cup {<<i, l>>}
    BY <1>7
  <1>10. ASSUME NEW h \in DOMAIN new, NEW j \in DOMAIN new[h].messages
         PROVE  \/ new[h].messages[j] = x
                \/ /\ h \in DOMAIN ss /\ j \in DOMAIN ss[h].messages
                   /\ new[h].messages[j] = ss[h].messages[j]
    BY <1>1, <1>5, <1>6
  <1> QED BY <1>1, <1>2, <1>8, <1>9, <1>10

LEMMA LeastExists ==
  ASSUME NEW T \in SUBSET Nat, T # {}
  PROVE  \E x \in T : \A y \in T : x <= y
  <1>1. PICK x \in T : \A y \in T : ~(<<y, x>> \in OpToRel(<, Nat))
    BY NatLessThanWellFounded, WFMin
  <1>2. \A y \in T : ~(y < x)
    BY <1>1 DEF OpToRel
  <1> QED BY <1>2

\* The session a message goes to is the sender's, or the next that is made.
LEMMA SessionWithIs ==
  ASSUME TypeOK, NEW c \in Clients, NEW p, NEW i, i = SessionWith(c, p)
  PROVE  /\ \/ i \in DOMAIN sessions[c] /\ sessions[c][i].with = p
            \/ i = Len(sessions[c]) + 1
         /\ HasSession(c, p) => i \in DOMAIN sessions[c]
  <1>1. sessions[c] \in Seq(Session)
    BY DEF TypeOK
  <1>2. CASE \E j \in DOMAIN sessions[c] : sessions[c][j].with = p
    <2> DEFINE T == {j \in DOMAIN sessions[c] : sessions[c][j].with = p}
    <2>1. T \in SUBSET Nat /\ T # {}
      BY <1>1, <1>2
    <2>2. PICK x \in T : \A y \in T : x <= y
      BY <2>1, LeastExists
    <2>3. \A j \in 1..(x - 1) : sessions[c][j].with # p
      BY <1>1, <2>1, <2>2
    <2> QED BY <1>2, <2>2, <2>3 DEF SessionWith
  <1>3. CASE ~ \E j \in DOMAIN sessions[c] : sessions[c][j].with = p
    BY <1>3 DEF SessionWith, HasSession
  <1> QED BY <1>2, <1>3

-----------------------------------------------------------------------------
(* Steps that put nothing on display.                                      *)

LEMMA TextsStay ==
  ASSUME Grows
  PROVE  \A n \in DOMAIN messages : n \in Texts' <=> n \in Texts
  BY DEF Grows, Texts, Requests

\* An empty session shows nothing.
LEMMA SessionsStill ==
  ASSUME Inv, TextInv, Grows,
         \/ UNCHANGED sessions
         \/ \E c, p \in Clients : sessions' = [sessions EXCEPT ![c] = Append(@, NewSession(p))]
  PROVE  /\ DisplayedIsMade'
         /\ \A n \in DOMAIN messages : Shown(n)' = Shown(n)
  <1>1. \A n \in DOMAIN messages : messages[n].to \in Clients /\ messages'[n].to = messages[n].to
    <2> SUFFICES ASSUME NEW n \in DOMAIN messages
                 PROVE  messages[n].to \in Clients /\ messages'[n].to = messages[n].to
      OBVIOUS
    <2>1. messages[n] \in Message
      BY DEF Inv, TypeOK
    <2> QED BY <2>1 DEF Message, Grows
  <1>2. CASE UNCHANGED sessions
    BY <1>1, <1>2 DEF TextInv, DisplayedIsMade, Grows, Shown
  <1>3. ASSUME NEW c \in Clients, NEW p \in Clients,
               sessions' = [sessions EXCEPT ![c] = Append(@, NewSession(p))]
        PROVE  /\ DisplayedIsMade'
               /\ \A n \in DOMAIN messages : Shown(n)' = Shown(n)
    <2>1. sessions[c] \in Seq(Session)
      BY DEF Inv, TypeOK
    <2>2. PICK new : new = Append(sessions[c], NewSession(p))
      OBVIOUS
    <2>3. sessions' = [sessions EXCEPT ![c] = new]
      BY <1>3, <2>2
    <2>4. sessions'[c] = new /\ \A d \in Clients : d # c => sessions'[d] = sessions[d]
      BY <2>3 DEF Inv, TypeOK
    <2>5. \A n : At(new, n) = At(sessions[c], n)
      BY <2>1, <2>2, AtNewSession
    <2>6. \A n \in DOMAIN messages : Shown(n)' = Shown(n)
      BY <1>1, <2>4, <2>5 DEF Shown
    <2>7. \A i \in DOMAIN new :
            \/ new[i].messages = << >>
            \/ i \in DOMAIN sessions[c] /\ new[i] = sessions[c][i]
      BY <2>1, <2>2, NewSessionType
    <2>8. DisplayedIsMade'
      <3> SUFFICES ASSUME NEW d \in Clients, NEW i \in DOMAIN sessions'[d],
                          NEW j \in DOMAIN sessions'[d][i].messages
                   PROVE  sessions'[d][i].messages[j] \in DOMAIN messages'
        BY DEF DisplayedIsMade
      <3>1. DOMAIN << >> = {}
        OBVIOUS
      <3>2. i \in DOMAIN sessions[d] /\ sessions'[d][i] = sessions[d][i]
        BY <2>4, <2>7, <3>1
      <3> QED BY <3>2 DEF TextInv, DisplayedIsMade, Grows
    <2> QED BY <2>6, <2>8
  <1> QED BY <1>2, <1>3

\* The archive leads an old receipt to the same message as before.
LEMMA OldReceipt ==
  ASSUME Inv, Grows, NEW k \in outbox \cup network, k.type = "RECEIVED"
  PROVE  /\ archive'[k.to][k.id] = archive[k.to][k.id]
         /\ archive[k.to][k.id] \in DOMAIN messages
  <1>1. k \in Pack /\ PackOK(k)
    BY DEF Inv, TypeOK, PacksOK
  <1> QED BY <1>1 DEF PackOK, About, Grows, Pack

LEMMA Quiet ==
  ASSUME Inv, TextInv, Grows, DisplayedIsMade', DOMAIN messages' = DOMAIN messages,
         \A n \in DOMAIN messages : Shown(n)' = Shown(n),
         \A n \in Texts : messages'[n].state = "received" =>
            messages[n].state = "received" \/ Shown(n) # {},
         \A c \in Clients : unsent'[c] \subseteq unsent[c],
         \A k \in outbox' \cup network' : k.type = "MESSAGE" => k \in outbox \cup network,
         \A k \in outbox' : k.type = "MESSAGE" => k \notin network',
         \A k \in outbox' \cup network' : k.type = "RECEIVED" =>
            \/ k \in outbox \cup network
            \/ archive'[k.to][k.id] \in DOMAIN messages \ Texts
  PROVE  TextInv'
  <1>1. NotToSelf'
    BY DEF TextInv, NotToSelf, Grows
  <1>2. \A n \in DOMAIN messages : n \in Texts' <=> n \in Texts
    BY TextsStay
  <1>3. Texts \subseteq DOMAIN messages /\ Texts' = Texts
    <2>1. Texts \subseteq DOMAIN messages /\ Texts' \subseteq DOMAIN messages'
      BY DEF Texts
    <2> QED BY <1>2, <2>1
  <1>4. \A c \in Clients : \A n \in unsent[c] : n \in DOMAIN messages
    BY DEF Inv, ArchiveFits
  <1>5. UnsentIsUnseen'
    <2> SUFFICES ASSUME NEW c \in Clients, NEW n \in unsent'[c]
                 PROVE  /\ \A k \in outbox' \cup network' : ~Carries(k, n)
                        /\ n \in Texts => Shown(n)' = {}
      BY <1>3 DEF UnsentIsUnseen, Carries
    <2>1. n \in unsent[c]
      OBVIOUS
    <2>2. \A k \in outbox' \cup network' : ~Carries(k, n)
      BY <2>1 DEF TextInv, UnsentIsUnseen, Carries
    <2> QED BY <1>3, <2>1, <2>2 DEF TextInv, UnsentIsUnseen
  <1>6. OnePack'
    BY DEF TextInv, OnePack, Carries
  <1>7. CarriedIsUnseen'
    BY <1>3 DEF TextInv, CarriedIsUnseen
  <1>8. ShownOnce'
    BY <1>3 DEF TextInv, ShownOnce
  <1>9. ReceiptIsTrue'
    <2> SUFFICES ASSUME NEW k \in outbox' \cup network', NEW n \in Texts,
                        k.type = "RECEIVED", archive'[k.to][k.id] = n
                 PROVE  Shown(n)' # {}
      BY <1>3 DEF ReceiptIsTrue
    <2>1. k \in outbox \cup network
      BY <1>3
    <2>2. archive[k.to][k.id] = n
      BY <2>1, OldReceipt
    <2> QED BY <1>3, <2>1, <2>2 DEF TextInv, ReceiptIsTrue
  <1>10. ConfirmedIsShown'
    BY <1>3 DEF TextInv, ConfirmedIsShown
  <1> QED BY <1>1, <1>5, <1>6, <1>7, <1>8, <1>9, <1>10 DEF TextInv, DisplayedIsMade

\* A step that says, shows and confirms no text is a stutter of Conversation.
LEMMA AbstractStutter ==
  ASSUME Texts' = Texts,
         \A n \in Texts : Shown(n)' = Shown(n),
         \A n \in Texts : messages'[n].state = "received" <=> messages[n].state = "received"
  PROVE  UNCHANGED Abstract!vars
  <1>1. \A n : TimesHeard(n) = IF n \in Texts THEN Cardinality(Shown(n)) ELSE 0
    BY HeardIsShown
  <1>2. \A n : TimesHeard(n)' = IF n \in Texts' THEN Cardinality(Shown(n)') ELSE 0
    BY DEF TimesHeard, Places, Shown, At
  <1>3. \A n \in Numbers : TimesHeard(n)' = TimesHeard(n)
    BY <1>1, <1>2
  <1>4. [n \in Numbers |-> TimesHeard(n)]' = [n \in Numbers |-> TimesHeard(n)]
    BY <1>3
  <1>5. {n \in Texts : messages[n].state = "received"}'
           = {n \in Texts : messages[n].state = "received"}
    OBVIOUS
  <1> QED BY <1>4, <1>5 DEF Abstract!vars

-----------------------------------------------------------------------------
(* One lemma for each action or for a few that are alike: TextInv stays,   *)
(* and Conversation takes a step or none.                                  *)

Promised == [Abstract!Next]_(Abstract!vars)

\* Steps that only move packs, or drop them, or ask a user.
LEMMA MovesKeep ==
  ASSUME Inv, TextInv, Grows,
         UNCHANGED <<messages, sessions, archive, unsent>>,
         \A k \in outbox' \cup network' : k.type = "REJECT" \/ k \in outbox \cup network,
         \A k \in outbox' : k.type = "MESSAGE" => k \notin network'
  PROVE  TextInv' /\ Promised
  <1>1. DisplayedIsMade' /\ \A n \in DOMAIN messages : Shown(n)' = Shown(n)
    BY SessionsStill
  <1>2. TextInv'
    BY <1>1, Quiet
  <1>3. Texts' = Texts /\ Texts \subseteq DOMAIN messages
    BY DEF Texts, Requests
  <1>4. UNCHANGED Abstract!vars
    BY <1>1, <1>3, AbstractStutter
  <1> QED BY <1>2, <1>4 DEF Promised

LEMMA SilentKeep ==
  ASSUME Inv, TextInv, Grows, NEW k,
         \/ k \in outbox /\ SendPack(k)
         \/ k \in network /\ (Lose(k) \/ HandleStranger(k))
         \/ k \in decrypting /\ Decrypted(k)
         \/ k \in Clients /\ Listen(k)
         \/ k \in asking /\ Reject(k)
         \/ UNCHANGED vars
  PROVE  TextInv' /\ Promised
  <1>1. \A q \in outbox : q.type = "MESSAGE" => q \notin network
    BY DEF TextInv, OnePack
  <1>2. CASE k \in outbox /\ SendPack(k)
    BY <1>1, <1>2, MovesKeep DEF SendPack
  <1>3. CASE k \in network /\ (Lose(k) \/ HandleStranger(k))
    BY <1>1, <1>3, MovesKeep DEF Lose, HandleStranger
  <1>4. CASE k \in decrypting /\ Decrypted(k)
    BY <1>1, <1>4, MovesKeep DEF Decrypted, held
  <1>5. CASE k \in Clients /\ Listen(k)
    BY <1>1, <1>5, MovesKeep DEF Listen, held
  <1>6. CASE k \in asking /\ Reject(k)
    <2>1. /\ outbox' = outbox \cup {Receipt(k, "REJECT")}
          /\ UNCHANGED <<messages, sessions, archive, unsent, network>>
      BY <1>6 DEF Reject, Answered
    <2>2. Receipt(k, "REJECT").type = "REJECT"
      BY DEF Receipt
    <2> QED BY <1>1, <2>1, <2>2, MovesKeep
  <1>7. CASE UNCHANGED vars
    BY <1>1, <1>7, MovesKeep DEF vars, held
  <1> QED BY <1>2, <1>3, <1>4, <1>5, <1>6, <1>7

LEMMA AcceptTells ==
  ASSUME Inv, TextInv, Grows, NEW k \in asking, Accept(k)
  PROVE  TextInv' /\ Promised
  <1>0. /\ k \in Pack /\ k.from \in Clients /\ k.to \in Clients /\ PackOK(k)
        /\ k.type = "MESSAGE" /\ k.n \in Requests
    BY DEF Inv, TypeOK, PacksOK, InquiryOK, Inquired, Pack
  <1>1. /\ outbox' = outbox \cup {Receipt(k, "RECEIVED")}
        /\ sessions' = [sessions EXCEPT ![k.to] = Append(@, NewSession(k.from))]
        /\ UNCHANGED <<messages, archive, unsent, network>>
    BY DEF Accept, Answered
  <1>2. DisplayedIsMade' /\ \A n \in DOMAIN messages : Shown(n)' = Shown(n)
    BY <1>0, <1>1, SessionsStill
  <1>3. /\ Receipt(k, "RECEIVED").type = "RECEIVED"
        /\ Receipt(k, "RECEIVED").to = k.from /\ Receipt(k, "RECEIVED").id = k.id
    BY DEF Receipt
  <1>4. archive[k.from][k.id] \in DOMAIN messages \ Texts
    BY <1>0 DEF PackOK, About, Texts
  <1>5. \A q \in outbox : q.type = "MESSAGE" => q \notin network
    BY DEF TextInv, OnePack
  <1>6. \A q \in outbox' \cup network' : q \in outbox \cup network
          \/ (q.type = "RECEIVED" /\ archive[q.to][q.id] \in DOMAIN messages \ Texts)
    BY <1>1, <1>3, <1>4
  <1>7. TextInv'
    BY <1>1, <1>2, <1>3, <1>5, <1>6, Quiet
  <1>8. Texts' = Texts /\ Texts \subseteq DOMAIN messages
    BY <1>1 DEF Texts, Requests
  <1>9. UNCHANGED Abstract!vars
    BY <1>1, <1>2, <1>8, AbstractStutter
  <1> QED BY <1>7, <1>9 DEF Promised

LEMMA ReceiptConfirms ==
  ASSUME Inv, TextInv, Grows, NEW k \in network, HandleReceipt(k)
  PROVE  TextInv' /\ Promised
  <1>0. k \in Pack /\ k.from \in Clients /\ k.to \in Clients /\ PackOK(k)
    BY DEF Inv, TypeOK, PacksOK, Pack
  <1>a. PICK n : n = archive[k.to][k.id]
    OBVIOUS
  <1>1. /\ k.type # "MESSAGE" /\ network' = network \ {k}
        /\ messages' = IF messages[n].state = "pending"
                       THEN [messages EXCEPT ![n].state =
                               IF k.type = "RECEIVED" THEN "received" ELSE "failed"]
                       ELSE messages
        /\ sessions' = IF messages[n].kind = "request" /\ k.type = "RECEIVED"
                       THEN [sessions EXCEPT ![k.to] = Append(@, NewSession(messages[n].to))]
                       ELSE sessions
        /\ UNCHANGED <<archive, unsent, outbox>>
    BY <1>a DEF HandleReceipt
  <1>2. n \in DOMAIN messages /\ messages[n].to = k.from
    BY <1>0, <1>1, <1>a DEF PackOK, About
  <1>3. DisplayedIsMade' /\ \A m \in DOMAIN messages : Shown(m)' = Shown(m)
    BY <1>0, <1>1, <1>2, SessionsStill
  <1>4. /\ DOMAIN messages' = DOMAIN messages
        /\ \A m \in DOMAIN messages : m # n => messages'[m] = messages[m]
        /\ messages[n].state # "pending" => messages' = messages
    BY <1>1, <1>2
  <1>5. messages[n].state = "pending" =>
           messages'[n].state = IF k.type = "RECEIVED" THEN "received" ELSE "failed"
    <2>1. messages[n] \in Message
      BY <1>2 DEF Inv, TypeOK
    <2> QED BY <1>1, <1>2, <2>1 DEF Message
  <1>6. k.type = "RECEIVED" /\ n \in Texts => Shown(n) # {}
    BY <1>a DEF TextInv, ReceiptIsTrue
  <1>7. Texts' = Texts /\ Texts \subseteq DOMAIN messages
    BY <1>4, TextsStay DEF Texts
  <1>8. \A m \in Texts : messages'[m].state = "received" =>
           messages[m].state = "received" \/ Shown(m) # {}
    BY <1>4, <1>5, <1>6, <1>7
  <1>9. \A q \in outbox : q.type = "MESSAGE" => q \notin network
    BY DEF TextInv, OnePack
  <1>10. TextInv'
    BY <1>1, <1>3, <1>4, <1>8, <1>9, Quiet
  <1>11. CASE n \in Texts /\ k.type = "RECEIVED" /\ messages[n].state = "pending"
    <2>1. n \in Numbers
      BY <1>2, BoundsAssumption DEF Inv, TypeOK, Numbers
    <2>2. TimesHeard(n) = 1
      <3>1. PICK p : Shown(n) = {p}
        BY <1>6, <1>11 DEF TextInv, ShownOnce
      <3> QED BY <1>11, <3>1, HeardIsShown, FS_Singleton
    <2>3. \A m \in Numbers : TimesHeard(m)' = TimesHeard(m)
      <3>1. \A m : TimesHeard(m)' = IF m \in Texts' THEN Cardinality(Shown(m)') ELSE 0
        BY DEF TimesHeard, Places, Shown, At
      <3> QED BY <1>3, <1>7, <3>1, HeardIsShown
    <2>4. {m \in Texts : messages[m].state = "received"}'
            = {m \in Texts : messages[m].state = "received"} \cup {n}
      BY <1>4, <1>5, <1>7, <1>11
    <2>5. n \notin {m \in Texts : messages[m].state = "received"}
      BY <1>11
    <2>6. Abstract!Confirm(n)
      BY <1>7, <2>1, <2>2, <2>3, <2>4, <2>5 DEF Abstract!Confirm
    <2> QED BY <1>10, <2>1, <2>6 DEF Promised, Abstract!Next
  <1>12. CASE ~(n \in Texts /\ k.type = "RECEIVED" /\ messages[n].state = "pending")
    <2>1. \A m \in Texts : messages'[m].state = "received" <=> messages[m].state = "received"
      BY <1>4, <1>5, <1>7, <1>12
    <2>2. UNCHANGED Abstract!vars
      BY <1>3, <1>7, <2>1, AbstractStutter
    <2> QED BY <1>10, <2>2 DEF Promised
  <1> QED BY <1>11, <1>12

\* A message that is made is nowhere yet.
LEMMA NewMessageKeeps ==
  ASSUME Inv, TextInv, Grows, NEW c \in Clients, NEW p \in Clients \ {c},
         NEW kind \in {"request", "text"}, Make(c, p, kind),
         UNCHANGED <<archive, outbox, network>>,
         NEW n, n = Len(messages) + 1,
         DisplayedIsMade', \A m \in DOMAIN messages : Shown(m)' = Shown(m),
         kind = "text" => Shown(n)' = {}
  PROVE  /\ TextInv'
         /\ n \in Numbers /\ n \notin DOMAIN messages
         /\ Texts' = IF kind = "text" THEN Texts \cup {n} ELSE Texts
         /\ \A m \in DOMAIN messages : messages'[m] = messages[m]
         /\ messages'[n].state = "pending"
  <1>a. PICK e : e = [from |-> c, to |-> p, kind |-> kind, state |-> "pending"]
    OBVIOUS
  <1>1. /\ messages' = Append(messages, e) /\ Len(messages) < MaxMessages
        /\ unsent' = [unsent EXCEPT ![c] = @ \cup {n}]
    BY <1>a DEF Make
  <1>2. /\ DOMAIN messages' = DOMAIN messages \cup {n} /\ n \notin DOMAIN messages
        /\ messages'[n] = e /\ n \in Numbers
        /\ \A m \in DOMAIN messages : messages'[m] = messages[m]
    BY <1>1, BoundsAssumption DEF Inv, TypeOK, Numbers
  <1>3. Texts' = IF kind = "text" THEN Texts \cup {n} ELSE Texts
    BY <1>a, <1>2 DEF Texts, Requests
  <1>4. NotToSelf'
    BY <1>a, <1>2 DEF TextInv, NotToSelf
  <1>5. Texts \subseteq DOMAIN messages
    BY DEF Texts
  <1>6. \A k \in outbox \cup network : k.type = "MESSAGE" => k.n \in DOMAIN messages
    BY DEF Inv, PacksOK, PackOK, About
  <1>7. UnsentIsUnseen'
    <2> SUFFICES ASSUME NEW d \in Clients, NEW m \in unsent'[d]
                 PROVE  /\ \A k \in outbox \cup network : ~Carries(k, m)
                        /\ m \in Texts' => Shown(m)' = {}
      BY DEF UnsentIsUnseen, Carries
    <2>1. m = n \/ m \in unsent[d]
      BY <1>1 DEF Inv, TypeOK
    <2>2. CASE m = n
      BY <1>2, <1>3, <1>5, <1>6, <2>2 DEF Carries
    <2>3. CASE m \in unsent[d]
      <3>1. m \in DOMAIN messages
        BY <2>3 DEF Inv, ArchiveFits
      <3>2. m \in Texts' => m \in Texts
        BY <1>2, <1>3, <3>1
      <3> QED BY <2>3, <3>1, <3>2 DEF TextInv, UnsentIsUnseen
    <2> QED BY <2>1, <2>2, <2>3
  <1>8. OnePack'
    BY DEF TextInv, OnePack, Carries
  <1>9. CarriedIsUnseen'
    <2> SUFFICES ASSUME NEW k \in outbox \cup network, k.type = "MESSAGE", k.n \in Texts'
                 PROVE  Shown(k.n)' = {}
      BY DEF CarriedIsUnseen
    <2>1. k.n \in DOMAIN messages /\ k.n \in Texts
      BY <1>2, <1>3, <1>6
    <2> QED BY <2>1 DEF TextInv, CarriedIsUnseen
  <1>10. ShownOnce'
    <2> SUFFICES ASSUME NEW m \in Texts' PROVE \A x, y \in Shown(m)' : x = y
      BY DEF ShownOnce
    <2>1. CASE m \in Texts
      BY <1>5, <2>1 DEF TextInv, ShownOnce
    <2>2. CASE m = n /\ kind = "text"
      BY <2>2
    <2> QED BY <1>3, <2>1, <2>2
  <1>11. ReceiptIsTrue'
    <2> SUFFICES ASSUME NEW k \in outbox \cup network, NEW m \in Texts',
                        k.type = "RECEIVED", archive[k.to][k.id] = m
                 PROVE  Shown(m)' # {}
      BY DEF ReceiptIsTrue
    <2>1. m \in DOMAIN messages
      BY OldReceipt
    <2>2. m \in Texts
      BY <1>2, <1>3, <2>1
    <2> QED BY <2>1, <2>2 DEF TextInv, ReceiptIsTrue
  <1>12. ConfirmedIsShown'
    <2> SUFFICES ASSUME NEW m \in Texts', messages'[m].state = "received"
                 PROVE  Shown(m)' # {}
      BY DEF ConfirmedIsShown
    <2>1. m # n
      BY <1>a, <1>2
    <2>2. m \in Texts /\ m \in DOMAIN messages
      BY <1>3, <1>5, <2>1
    <2> QED BY <1>2, <2>2 DEF TextInv, ConfirmedIsShown
  <1>13. TextInv'
    BY <1>4, <1>7, <1>8, <1>9, <1>10, <1>11, <1>12 DEF TextInv
  <1> QED BY <1>a, <1>2, <1>3, <1>13

LEMMA RequestIsNoText ==
  ASSUME Inv, TextInv, Grows, NEW c \in Clients, NEW p \in Clients \ {c}, ContactRequest(c, p)
  PROVE  TextInv' /\ Promised
  <1>a. PICK n : n = Len(messages) + 1
    OBVIOUS
  <1>1. Make(c, p, "request") /\ UNCHANGED <<archive, sessions, outbox, network>>
    BY DEF ContactRequest, held
  <1>2. DisplayedIsMade' /\ \A m \in DOMAIN messages : Shown(m)' = Shown(m)
    BY <1>1, SessionsStill
  <1>3. /\ TextInv' /\ Texts' = Texts
        /\ \A m \in DOMAIN messages : messages'[m] = messages[m]
    BY <1>a, <1>1, <1>2, NewMessageKeeps
  <1>4. Texts \subseteq DOMAIN messages
    BY DEF Texts
  <1>5. UNCHANGED Abstract!vars
    BY <1>2, <1>3, <1>4, AbstractStutter
  <1> QED BY <1>3, <1>5 DEF Promised

LEMMA SendSays ==
  ASSUME Inv, TextInv, Grows, NEW c \in Clients, NEW i \in DOMAIN sessions[c], SessionSend(c, i)
  PROVE  TextInv' /\ Promised
  <1>a. PICK n : n = Len(messages) + 1
    OBVIOUS
  <1>b. PICK p : p = sessions[c][i].with
    OBVIOUS
  <1>c. PICK new : new = [sessions[c] EXCEPT ![i].messages = Append(@, n)]
    OBVIOUS
  <1>1. /\ Make(c, p, "text") /\ UNCHANGED <<archive, outbox, network>>
        /\ sessions' = [sessions EXCEPT ![c] = new]
    BY <1>a, <1>b, <1>c DEF SessionSend, held
  <1>2. sessions[c] \in Seq(Session) /\ p \in Clients
    <2>1. sessions[c] \in Seq(Session)
      BY DEF Inv, TypeOK
    <2>2. sessions[c][i] \in Session
      BY <2>1
    <2> QED BY <1>b, <2>1, <2>2 DEF Session
  <1>3. p # c
    <2> SUFFICES ASSUME p = c PROVE FALSE
      OBVIOUS
    <2>1. HasSession(c, c)
      BY <1>b DEF HasSession
    <2>2. Asked(c, c)
      BY <2>1 DEF Inv, SessionIsMutual, ContactIsWanted
    <2> QED BY <2>2 DEF Asked, Requests, TextInv, NotToSelf
  <1>4. n \in Numbers /\ n \notin DOMAIN messages /\ n \in DOMAIN messages'
        /\ messages'[n].to = p
    <2>1. PICK e : e = [from |-> c, to |-> p, kind |-> "text", state |-> "pending"]
      OBVIOUS
    <2>2. messages' = Append(messages, e) /\ Len(messages) < MaxMessages
      BY <1>1, <2>1 DEF Make
    <2> QED BY <1>a, <2>1, <2>2, BoundsAssumption DEF Inv, TypeOK, Numbers
  <1>5. /\ \A m : m # n => At(new, m) = At(sessions[c], m)
        /\ \A h \in DOMAIN new : \A j \in DOMAIN new[h].messages :
              \/ new[h].messages[j] = n
              \/ /\ h \in DOMAIN sessions[c] /\ j \in DOMAIN sessions[c][h].messages
                 /\ new[h].messages[j] = sessions[c][h].messages[j]
    <2>1. /\ DOMAIN new = DOMAIN sessions[c]
          /\ new[i].messages = Append(sessions[c][i].messages, n)
          /\ \A h \in DOMAIN sessions[c] : h # i => new[h] = sessions[c][h]
      <3>1. PICK e : e = [sessions[c][i] EXCEPT !.messages = Append(@, n)]
        OBVIOUS
      <3>2. new = [sessions[c] EXCEPT ![i] = e]
        BY <1>c, <3>1
      <3>3. sessions[c][i] \in Session
        BY <1>2
      <3>4. e.messages = Append(sessions[c][i].messages, n)
        BY <3>1, <3>3 DEF Session
      <3> QED BY <1>2, <3>2, <3>4
    <2> QED BY <1>2, <1>4, <2>1, AtNewMessage
  <1>6. sessions'[c] = new /\ \A d \in Clients : d # c => sessions'[d] = sessions[d]
    BY <1>1 DEF Inv, TypeOK
  <1>7. \A m \in DOMAIN messages : Shown(m)' = Shown(m)
    <2> SUFFICES ASSUME NEW m \in DOMAIN messages PROVE Shown(m)' = Shown(m)
      OBVIOUS
    <2>1. messages[m] \in Message /\ messages'[m].to = messages[m].to
      BY DEF Inv, TypeOK, Grows
    <2>2. messages[m].to \in Clients
      BY <2>1 DEF Message
    <2> QED BY <1>4, <1>5, <1>6, <2>1, <2>2 DEF Shown
  <1>8. DisplayedIsMade'
    <2> SUFFICES ASSUME NEW d \in Clients, NEW h \in DOMAIN sessions'[d],
                        NEW j \in DOMAIN sessions'[d][h].messages
                 PROVE  sessions'[d][h].messages[j] \in DOMAIN messages'
      BY DEF DisplayedIsMade
    <2>1. CASE d = c
      BY <1>4, <1>5, <1>6, <2>1 DEF TextInv, DisplayedIsMade, Grows
    <2>2. CASE d # c
      BY <1>6, <2>2 DEF TextInv, DisplayedIsMade, Grows
    <2> QED BY <2>1, <2>2
  <1>9. Shown(n)' = {}
    <2>1. Shown(n)' = At(sessions[p], n)
      BY <1>2, <1>3, <1>4, <1>6 DEF Shown
    <2>2. ASSUME NEW q \in At(sessions[p], n) PROVE FALSE
      <3>1. PICK h \in DOMAIN sessions[p] : \E j \in DOMAIN sessions[p][h].messages :
              sessions[p][h].messages[j] = n
        BY <2>2, AtHas
      <3> QED BY <1>2, <1>4, <3>1 DEF TextInv, DisplayedIsMade
    <2> QED BY <2>1, <2>2
  <1>10. /\ TextInv' /\ Texts' = Texts \cup {n}
         /\ \A m \in DOMAIN messages : messages'[m] = messages[m]
         /\ messages'[n].state = "pending"
    BY <1>a, <1>1, <1>2, <1>3, <1>7, <1>8, <1>9, NewMessageKeeps
  <1>11. Texts \subseteq DOMAIN messages
    BY DEF Texts
  <1>12. \A m \in Numbers : TimesHeard(m)' = TimesHeard(m)
    <2>1. \A m : TimesHeard(m)' = IF m \in Texts' THEN Cardinality(Shown(m)') ELSE 0
      BY DEF TimesHeard, Places, Shown, At
    <2>2. TimesHeard(n) = 0 /\ TimesHeard(n)' = 0
      <3>1. Cardinality({}) = 0
        BY FS_EmptySet
      <3> QED BY <1>4, <1>9, <1>11, <2>1, <3>1, HeardIsShown
    <2> QED BY <1>7, <1>10, <1>11, <2>1, <2>2, HeardIsShown
  <1>13. {m \in Texts : messages[m].state = "received"}'
            = {m \in Texts : messages[m].state = "received"}
    BY <1>10, <1>11
  <1>14. Abstract!Say(n)
    BY <1>4, <1>10, <1>11, <1>12, <1>13 DEF Abstract!Say
  <1> QED BY <1>4, <1>10, <1>14 DEF Promised, Abstract!Next

LEMMA SendCarries ==
  ASSUME Inv, TextInv, Grows, NEW c \in Clients, NEW n \in unsent[c], Send(c, n)
  PROVE  TextInv' /\ Promised
  <1>a. PICK k : k = [from |-> c, to |-> messages[n].to, type |-> "MESSAGE",
                      id |-> Len(archive[c]) + 1, n |-> n]
    OBVIOUS
  <1>1. /\ outbox' = outbox \cup {k} /\ k.type = "MESSAGE" /\ k.n = n
        /\ unsent' = [unsent EXCEPT ![c] = @ \ {n}]
        /\ UNCHANGED <<messages, sessions, network>>
    BY <1>a DEF Send
  <1>2. DisplayedIsMade' /\ \A m \in DOMAIN messages : Shown(m)' = Shown(m)
    BY <1>1, SessionsStill
  <1>3. Texts' = Texts /\ Texts \subseteq DOMAIN messages
    BY <1>1 DEF Texts, Requests
  <1>4. /\ \A q \in outbox \cup network : ~Carries(q, n)
        /\ n \in Texts => Shown(n) = {}
    BY DEF TextInv, UnsentIsUnseen
  <1>5. UnsentIsUnseen'
    <2> SUFFICES ASSUME NEW d \in Clients, NEW m \in unsent'[d]
                 PROVE  /\ \A q \in outbox' \cup network' : ~Carries(q, m)
                        /\ m \in Texts => Shown(m)' = {}
      BY <1>3 DEF UnsentIsUnseen, Carries
    <2>1. m \in unsent[d] /\ (d = c => m # n)
      BY <1>1 DEF Inv, TypeOK
    <2>2. m # n
      BY <2>1 DEF Inv, ArchiveFits
    <2> QED BY <1>1, <1>2, <1>3, <2>1, <2>2 DEF TextInv, UnsentIsUnseen, Carries
  <1>6. OnePack'
    BY <1>1, <1>4 DEF TextInv, OnePack, Carries
  <1>7. CarriedIsUnseen'
    BY <1>1, <1>2, <1>3, <1>4 DEF TextInv, CarriedIsUnseen
  <1>8. ShownOnce'
    BY <1>2, <1>3 DEF TextInv, ShownOnce
  <1>9. ReceiptIsTrue'
    <2> SUFFICES ASSUME NEW q \in outbox' \cup network', NEW m \in Texts,
                        q.type = "RECEIVED", archive'[q.to][q.id] = m
                 PROVE  Shown(m)' # {}
      BY <1>3 DEF ReceiptIsTrue
    <2>1. q \in outbox \cup network
      BY <1>1
    <2>2. archive[q.to][q.id] = m
      BY <2>1, OldReceipt
    <2> QED BY <1>2, <1>3, <2>1, <2>2 DEF TextInv, ReceiptIsTrue
  <1>10. ConfirmedIsShown'
    BY <1>1, <1>2, <1>3 DEF TextInv, ConfirmedIsShown
  <1>11. NotToSelf'
    BY <1>1 DEF TextInv, NotToSelf
  <1>12. TextInv'
    BY <1>2, <1>5, <1>6, <1>7, <1>8, <1>9, <1>10, <1>11 DEF TextInv
  <1>13. UNCHANGED Abstract!vars
    BY <1>1, <1>2, <1>3, AbstractStutter
  <1> QED BY <1>12, <1>13 DEF Promised

LEMMA MessageIsHeard ==
  ASSUME Inv, TextInv, Grows, NEW k \in network, HandleMessage(k)
  PROVE  TextInv' /\ Promised
  <1>0. k \in Pack /\ k.from \in Clients /\ k.to \in Clients /\ PackOK(k)
    BY DEF Inv, TypeOK, PacksOK, Pack
  <1>a. PICK c : c = k.to
    OBVIOUS
  <1>b. PICK n : n = k.n
    OBVIOUS
  <1>c. PICK i : i = SessionWith(c, k.from)
    OBVIOUS
  <1>d. PICK there : there = IF i <= Len(sessions[c]) THEN sessions[c]
                             ELSE Append(sessions[c], NewSession(k.from))
    OBVIOUS
  <1>e. PICK new : new = [there EXCEPT ![i].messages = Append(@, n)]
    OBVIOUS
  <1>1. /\ k.type = "MESSAGE"
        /\ network' = network \ {k}
        /\ outbox' = outbox \cup {Receipt(k, "RECEIVED")}
        /\ sessions' = [sessions EXCEPT ![c] = new]
        /\ UNCHANGED <<messages, archive, unsent>>
    BY <1>a, <1>b, <1>c, <1>d, <1>e DEF HandleMessage
  <1>2. /\ n \in DOMAIN messages /\ messages[n].to = c /\ n \in Numbers
        /\ archive[k.from][k.id] = n
    <2>1. About(k.id, k.from, k.to) /\ archive[k.from][k.id] = n
      BY <1>0, <1>1, <1>b DEF PackOK
    <2>2. n \in DOMAIN messages /\ messages[n].to = c
      BY <1>a, <2>1 DEF About
    <2>3. n \in Numbers
      BY <2>2, BoundsAssumption DEF Inv, TypeOK, Numbers
    <2> QED BY <2>1, <2>2, <2>3
  <1>3. /\ there \in Seq(Session) /\ i \in DOMAIN there
        /\ \A m : At(there, m) = At(sessions[c], m)
        /\ \A h \in DOMAIN there : \A j \in DOMAIN there[h].messages :
              /\ h \in DOMAIN sessions[c] /\ j \in DOMAIN sessions[c][h].messages
              /\ there[h].messages[j] = sessions[c][h].messages[j]
    <2>1. sessions[c] \in Seq(Session) /\ c \in Clients
      BY <1>0, <1>a DEF Inv, TypeOK
    <2>2. i \in DOMAIN sessions[c] \/ i = Len(sessions[c]) + 1
      BY <1>c, <2>1, SessionWithIs DEF Inv
    <2>3. CASE i \in DOMAIN sessions[c]
      <3>1. there = sessions[c]
        BY <1>d, <2>1, <2>3
      <3> QED BY <2>1, <2>3, <3>1
    <2>4. CASE i = Len(sessions[c]) + 1
      <3>1. there = Append(sessions[c], NewSession(k.from))
        BY <1>d, <2>1, <2>4
      <3>2. NewSession(k.from) \in Session /\ NewSession(k.from).messages = << >>
        BY <1>0, NewSessionType
      <3>3. /\ there \in Seq(Session) /\ i \in DOMAIN there
            /\ \A h \in DOMAIN there :
                 \/ h \in DOMAIN sessions[c] /\ there[h] = sessions[c][h]
                 \/ there[h].messages = << >>
        BY <2>1, <2>4, <3>1, <3>2
      <3>4. \A m : At(there, m) = At(sessions[c], m)
        BY <1>0, <2>1, <3>1, AtNewSession
      <3>5. DOMAIN << >> = {}
        OBVIOUS
      <3> QED BY <3>3, <3>4, <3>5
    <2> QED BY <2>2, <2>3, <2>4
  <1>4. PICK place : place = <<i, Len(there[i].messages) + 1>>
    OBVIOUS
  <1>5. /\ \A m : m # n => At(new, m) = At(sessions[c], m)
        /\ At(new, n) = At(sessions[c], n) \cup {place}
        /\ \A h \in DOMAIN new : \A j \in DOMAIN new[h].messages :
              \/ new[h].messages[j] = n
              \/ /\ h \in DOMAIN sessions[c] /\ j \in DOMAIN sessions[c][h].messages
                 /\ new[h].messages[j] = sessions[c][h].messages[j]
    <2>0. there \in Seq(Session) /\ i \in DOMAIN there /\ n \in Numbers
      BY <1>2, <1>3
    <2>c. /\ DOMAIN new = DOMAIN there /\ new[i].messages = Append(there[i].messages, n)
          /\ \A h \in DOMAIN there : h # i => new[h] = there[h]
      <3>1. PICK e : e = [there[i] EXCEPT !.messages = Append(@, n)]
        OBVIOUS
      <3>2. new = [there EXCEPT ![i] = e]
        BY <1>e, <3>1
      <3>3. there[i] \in Session
        BY <2>0
      <3>4. e.messages = Append(there[i].messages, n)
        BY <3>1, <3>3 DEF Session
      <3> QED BY <2>0, <3>2, <3>4
    <2>a. \A m : m # n => At(new, m) = At(there, m)
      BY <2>0, <2>c, AtNewMessage, SMTT(60)
    <2>b. At(new, n) = At(there, n) \cup {<<i, Len(there[i].messages) + 1>>}
      BY <2>0, <2>c, AtNewMessage, SMTT(60)
    <2>1. \A h \in DOMAIN new : \A j \in DOMAIN new[h].messages :
             \/ new[h].messages[j] = n
             \/ /\ h \in DOMAIN there /\ j \in DOMAIN there[h].messages
                /\ new[h].messages[j] = there[h].messages[j]
      BY <2>0, <2>c, AtNewMessage
    <2>2. \A m : At(there, m) = At(sessions[c], m)
      BY <1>3
    <2>3. \A m : m # n => At(new, m) = At(sessions[c], m)
      BY <2>a, <2>2
    <2>4. At(new, n) = At(sessions[c], n) \cup {place}
      BY <1>4, <2>b, <2>2
    <2>5. ASSUME NEW h \in DOMAIN new, NEW j \in DOMAIN new[h].messages
          PROVE  \/ new[h].messages[j] = n
                 \/ /\ h \in DOMAIN sessions[c] /\ j \in DOMAIN sessions[c][h].messages
                    /\ new[h].messages[j] = sessions[c][h].messages[j]
      BY <1>3, <2>1
    <2> QED BY <2>3, <2>4, <2>5
  <1>6. sessions'[c] = new /\ \A d \in Clients : d # c => sessions'[d] = sessions[d]
    BY <1>0, <1>a, <1>1 DEF Inv, TypeOK
  <1>7. /\ \A m \in DOMAIN messages : m # n => Shown(m)' = Shown(m)
        /\ Shown(n)' = Shown(n) \cup {place}
    <2>1. ASSUME NEW m \in DOMAIN messages, m # n PROVE Shown(m)' = Shown(m)
      <3>1. messages[m] \in Message
        BY DEF Inv, TypeOK
      <3>2. messages[m].to \in Clients
        BY <3>1 DEF Message
      <3> QED BY <1>1, <1>5, <1>6, <2>1, <3>2 DEF Shown
    <2>2. Shown(n)' = Shown(n) \cup {place}
      BY <1>1, <1>2, <1>5, <1>6 DEF Shown
    <2> QED BY <2>1, <2>2
  <1>8. Texts' = Texts /\ Texts \subseteq DOMAIN messages
    BY <1>1 DEF Texts, Requests
  <1>9. n \in Texts => Shown(n) = {}
    BY <1>1, <1>b DEF TextInv, CarriedIsUnseen
  <1>10. PICK r : r = Receipt(k, "RECEIVED")
    OBVIOUS
  <1>11. r.type = "RECEIVED" /\ r.to = k.from /\ r.id = k.id
    BY <1>10 DEF Receipt
  <1>12. \A q \in outbox' \cup network' : q.type = "MESSAGE" =>
           q \in outbox \cup network /\ q # k /\ q.n # n
    <2> SUFFICES ASSUME NEW q \in outbox' \cup network', q.type = "MESSAGE"
                 PROVE  q \in outbox \cup network /\ q # k /\ q.n # n
      OBVIOUS
    <2>1. q \in outbox \cup network
      BY <1>1, <1>10, <1>11
    <2>2. q # k
      BY <1>1, <1>10, <1>11 DEF TextInv, OnePack
    <2> QED BY <1>1, <1>b, <2>1, <2>2 DEF TextInv, OnePack, Carries
  <1>13. NotToSelf'
    BY <1>1 DEF TextInv, NotToSelf
  <1>14. DisplayedIsMade'
    <2> SUFFICES ASSUME NEW d \in Clients, NEW h \in DOMAIN sessions'[d],
                        NEW j \in DOMAIN sessions'[d][h].messages
                 PROVE  sessions'[d][h].messages[j] \in DOMAIN messages
      BY <1>1 DEF DisplayedIsMade
    <2>1. CASE d = c
      BY <1>2, <1>5, <1>6, <2>1 DEF TextInv, DisplayedIsMade
    <2>2. CASE d # c
      BY <1>6, <2>2 DEF TextInv, DisplayedIsMade
    <2> QED BY <2>1, <2>2
  <1>15. UnsentIsUnseen'
    <2> SUFFICES ASSUME NEW d \in Clients, NEW m \in unsent[d]
                 PROVE  /\ \A q \in outbox' \cup network' : ~Carries(q, m)
                        /\ m \in Texts => Shown(m)' = {}
      BY <1>1, <1>8 DEF UnsentIsUnseen, Carries
    <2>1. m # n
      BY <1>1, <1>b DEF TextInv, UnsentIsUnseen, Carries
    <2>2. \A q \in outbox' \cup network' : ~Carries(q, m)
      BY <1>12 DEF TextInv, UnsentIsUnseen, Carries
    <2> QED BY <1>7, <1>8, <2>1, <2>2 DEF TextInv, UnsentIsUnseen
  <1>16. OnePack'
    <2>1. \A q, s \in outbox' \cup network' : q.type = "MESSAGE" /\ Carries(s, q.n) => q = s
      BY <1>12 DEF TextInv, OnePack, Carries
    <2>2. \A q \in outbox' : q.type = "MESSAGE" => q \notin network'
      BY <1>1, <1>10, <1>11 DEF TextInv, OnePack
    <2> QED BY <2>1, <2>2 DEF OnePack, Carries
  <1>17. CarriedIsUnseen'
    <2> SUFFICES ASSUME NEW q \in outbox' \cup network', q.type = "MESSAGE", q.n \in Texts
                 PROVE  Shown(q.n)' = {}
      BY <1>8 DEF CarriedIsUnseen
    <2>1. q \in outbox \cup network /\ q.n # n
      BY <1>12
    <2> QED BY <1>7, <1>8, <2>1 DEF TextInv, CarriedIsUnseen
  <1>18. ShownOnce'
    <2> SUFFICES ASSUME NEW m \in Texts PROVE \A x, y \in Shown(m)' : x = y
      BY <1>8 DEF ShownOnce
    <2>1. CASE m = n
      BY <1>7, <1>9, <2>1
    <2>2. CASE m # n
      BY <1>7, <1>8, <2>2 DEF TextInv, ShownOnce
    <2> QED BY <2>1, <2>2
  <1>19. ReceiptIsTrue'
    <2> SUFFICES ASSUME NEW q \in outbox' \cup network', NEW m \in Texts,
                        q.type = "RECEIVED", archive[q.to][q.id] = m
                 PROVE  Shown(m)' # {}
      BY <1>1, <1>8 DEF ReceiptIsTrue
    <2>1. CASE q = r
      BY <1>2, <1>7, <1>11, <2>1
    <2>2. CASE q \in outbox \cup network
      <3>1. Shown(m) # {}
        BY <2>2 DEF TextInv, ReceiptIsTrue
      <3> QED BY <1>7, <1>8, <3>1
    <2> QED BY <1>1, <1>10, <2>1, <2>2
  <1>20. ConfirmedIsShown'
    <2> SUFFICES ASSUME NEW m \in Texts, messages[m].state = "received"
                 PROVE  Shown(m)' # {}
      BY <1>1, <1>8 DEF ConfirmedIsShown
    <2>1. Shown(m) # {}
      BY DEF TextInv, ConfirmedIsShown
    <2> QED BY <1>7, <1>8, <2>1
  <1>21. TextInv'
    BY <1>13, <1>14, <1>15, <1>16, <1>17, <1>18, <1>19, <1>20 DEF TextInv
  <1>22. CASE n \in Texts
    <2>1. \A m : TimesHeard(m)' = IF m \in Texts' THEN Cardinality(Shown(m)') ELSE 0
      BY DEF TimesHeard, Places, Shown, At
    <2>2. TimesHeard(n) = 0
      BY <1>9, <1>22, HeardIsShown, FS_EmptySet
    <2>3. TimesHeard(n)' = 1
      <3>1. Shown(n)' = {place}
        BY <1>7, <1>9, <1>22
      <3>2. Cardinality({place}) = 1
        BY FS_Singleton
      <3> QED BY <1>8, <1>22, <2>1, <3>1, <3>2
    <2>4. \A m \in Numbers : m # n => TimesHeard(m)' = TimesHeard(m)
      BY <1>7, <1>8, <2>1, HeardIsShown
    <2>5. [m \in Numbers |-> TimesHeard(m)]'
            = [[m \in Numbers |-> TimesHeard(m)] EXCEPT ![n] = 1]
      BY <1>2, <2>3, <2>4
    <2>6. {m \in Texts : messages[m].state = "received"}'
            = {m \in Texts : messages[m].state = "received"}
      BY <1>1, <1>8
    <2>7. Abstract!Hear(n)
      BY <1>2, <1>8, <1>22, <2>2, <2>5, <2>6 DEF Abstract!Hear
    <2> QED BY <1>2, <1>21, <2>7 DEF Promised, Abstract!Next
  <1>23. CASE n \notin Texts
    <2>1. \A m \in Texts : Shown(m)' = Shown(m)
      BY <1>7, <1>8, <1>23
    <2>2. UNCHANGED Abstract!vars
      BY <1>1, <1>8, <2>1, AbstractStutter
    <2> QED BY <1>21, <2>2 DEF Promised
  <1> QED BY <1>22, <1>23

-----------------------------------------------------------------------------

LEMMA TextInit == Init => TextInv /\ Abstract!Init
  <1> SUFFICES ASSUME Init PROVE TextInv /\ Abstract!Init
    OBVIOUS
  <1>1. Texts = {} /\ DOMAIN messages = {}
    BY DEF Init, Texts
  <1>2. TextInv
    BY <1>1 DEF Init, TextInv, NotToSelf, DisplayedIsMade, UnsentIsUnseen, OnePack,
                CarriedIsUnseen, ShownOnce, ReceiptIsTrue, ConfirmedIsShown
  <1>3. \A n : TimesHeard(n) = 0
    BY <1>1, HeardIsShown
  <1>4. Abstract!Init
    BY <1>1, <1>3 DEF Abstract!Init
  <1> QED BY <1>2, <1>4

LEMMA TextNext == Inv /\ TextInv /\ [Next]_vars => TextInv' /\ Promised
  <1> SUFFICES ASSUME Inv, TextInv, [Next]_vars PROVE TextInv' /\ Promised
    OBVIOUS
  <1>0. CASE UNCHANGED vars
    BY <1>0, InvStutter, SilentKeep
  <1>1. CASE \E c \in Clients : \E p \in Clients \ {c} : ContactRequest(c, p)
    BY <1>1, ContactRequestKeeps, RequestIsNoText
  <1>2. CASE \E c \in Clients : \E i \in DOMAIN sessions[c] : SessionSend(c, i)
    BY <1>2, SessionSendKeeps, SendSays
  <1>3. CASE \E c \in Clients : \E n \in unsent[c] : Send(c, n)
    BY <1>3, SendKeeps, SendCarries
  <1>4. CASE \E c \in Clients : Listen(c)
    BY <1>4, ListenKeeps, SilentKeep
  <1>5. CASE \E k \in outbox : SendPack(k)
    BY <1>5, SendPackKeeps, SilentKeep
  <1>6. CASE \E k \in network : HandleMessage(k)
    BY <1>6, HandleMessageKeeps, MessageIsHeard
  <1>7. CASE \E k \in network : HandleReceipt(k)
    BY <1>7, HandleReceiptKeeps, ReceiptConfirms
  <1>8. CASE \E k \in network : HandleStranger(k)
    BY <1>8, HandleStrangerKeeps, SilentKeep
  <1>9. CASE \E k \in network : Lose(k)
    BY <1>9, LoseKeeps, SilentKeep
  <1>10. CASE \E k \in decrypting : Decrypted(k)
    BY <1>10, DecryptedKeeps, SilentKeep
  <1>11. CASE \E k \in asking : Accept(k)
    BY <1>11, AcceptKeeps, AcceptTells
  <1>12. CASE \E k \in asking : Reject(k)
    BY <1>12, RejectKeeps, SilentKeep
  <1> QED BY <1>0, <1>1, <1>2, <1>3, <1>4, <1>5, <1>6, <1>7, <1>8, <1>9, <1>10, <1>11, <1>12
          DEF Next, Receive

\* Session.send, msgHandler and receiptHandler keep the promise of Conversation:
\* whatever is encrypted, delivered and answered in whatever order, and whatever
\* is lost, a text is shown once at most, and its author sees it as received
\* only when it has been shown.
THEOREM Refinement == Spec => Implements
  <1>1. Init => Inv /\ TextInv /\ Abstract!Init
    BY InvInit, TextInit
  <1>2. Inv /\ TextInv /\ [Next]_vars => (Inv /\ TextInv)' /\ [Abstract!Next]_(Abstract!vars)
    BY InvNext, TextNext DEF Promised
  <1> QED BY <1>1, <1>2, PTL DEF Spec, Implements, Abstract!Spec

-----------------------------------------------------------------------------
(* Two sessions with the same peer.  Whoever has only one request with     *)
(* somebody gets one session out of it: there is one pack that carries the *)
(* request, so there is one decision and one receipt about it.             *)

\* The packs that wait for their receiver, or for his user.
Waiting == decrypting \cup asking \cup UNION {Queued(c) : c \in Clients}

\* What waits is nowhere else, and waits in one place.
WaitsOnce ==
    /\ \A k \in Waiting :
         /\ \A c \in Clients : k.n \notin unsent[c]
         /\ \A q \in outbox \cup network : ~Carries(q, k.n)
         /\ \A q \in Waiting : q.n = k.n => q = k
    /\ \A k \in asking : k \notin decrypting
    /\ \A c \in Clients : \A k \in Queued(c) : k.to = c /\ k \notin decrypting /\ k \notin asking

\* n is made by c for p, and the only request between the two.
Asks(n, c, p) == messages[n].from = c /\ messages[n].to = p
Alone(n, c, p) == \A m \in Requests : Asks(m, c, p) \/ Asks(m, p, c) => m = n

\* Texts are written in sessions.
TextHasSession ==
    \A n \in Texts : \A c, p \in Clients : Asks(n, c, p) => HasSession(c, p)

\* It may still come to a decision about request n.
Open(n) ==
    \/ \E c \in Clients : n \in unsent[c]
    \/ \E k \in outbox \cup network \cup Waiting : Carries(k, n)

Answer(k, n) == k.type # "MESSAGE" /\ archive[k.to][k.id] = n

OneSession(c, p) ==
    \A i, j \in DOMAIN sessions[c] : sessions[c][i].with = p /\ sessions[c][j].with = p => i = j

\* What holds of request n of c to p if it is the only one between the two: p
\* knows c and has a session as soon as he has accepted; one answer is given,
\* after which nothing else is decided; and c has no session before it comes,
\* unless p's first text came earlier.
LoneOK(n, c, p) ==
    /\ HasSession(p, c) \/ c \in contacts[p] => HasSession(p, c) /\ ~Open(n)
    /\ OneSession(p, c)
    /\ \A k \in outbox \cup network : Answer(k, n) =>
         /\ messages[n].state = "pending" /\ ~Open(n)
         /\ k.type = "REJECT" => ~HasSession(p, c)
         /\ \A q \in outbox \cup network : Answer(q, n) => q = k
         /\ k \in outbox => k \notin network
    /\ messages[n].state # "pending" => ~Open(n)
    /\ messages[n].state = "failed" => ~HasSession(p, c)
    /\ messages[n].state = "received" => HasSession(c, p)
    /\ \/ <<c, p>> \in early
       \/ OneSession(c, p) /\ (HasSession(c, p) => messages[n].state = "received")

LoneRequests ==
    \A n \in Requests : \A c, p \in Clients :
        Asks(n, c, p) /\ Alone(n, c, p) => LoneOK(n, c, p)

TwinInv == WaitsOnce /\ TextHasSession /\ LoneRequests

-----------------------------------------------------------------------------

\* A pack that waits carries a message to its receiver.
LEMMA WaitingOK ==
  ASSUME Inv, NEW k \in Waiting
  PROVE  /\ k \in Pack /\ k.from \in Clients /\ k.to \in Clients /\ k.type = "MESSAGE"
         /\ PackOK(k) /\ k.n \in DOMAIN messages /\ Asks(k.n, k.from, k.to)
  <1>1. k \in Pack /\ PackOK(k) /\ k.type = "MESSAGE"
    <2>1. CASE k \in decrypting \cup asking
      BY <2>1 DEF Inv, TypeOK, PacksOK, InquiryOK, Inquired
    <2>2. CASE \E c \in Clients : k \in Queued(c)
      BY <2>2 DEF Inv, QueuesOK, InquiryOK, Inquired, TriggerOK, Queued
    <2> QED BY <2>1, <2>2 DEF Waiting
  <1> QED BY <1>1 DEF Pack, PackOK, About, Asks

\* A message pack under way carries a message to its receiver.
LEMMA CarrierOK ==
  ASSUME Inv, NEW k \in outbox \cup network, k.type = "MESSAGE"
  PROVE  /\ k \in Pack /\ k.from \in Clients /\ k.to \in Clients
         /\ PackOK(k) /\ k.n \in DOMAIN messages /\ Asks(k.n, k.from, k.to)
  BY DEF Inv, TypeOK, PacksOK, PackOK, About, Pack, Asks

\* What waits stays in one place when nothing new waits, and what is new under
\* way comes from its sender.
LEMMA WaitsStay ==
  ASSUME Inv, WaitsOnce, decrypting' \subseteq decrypting, asking' \subseteq asking,
         \A c \in Clients : Queued(c)' \subseteq Queued(c),
         \A c \in Clients : \A n \in unsent'[c] : n \in unsent[c] \/ n \notin DOMAIN messages,
         \A q \in outbox' \cup network' : q.type = "MESSAGE" =>
            q \in outbox \cup network \/ \E c \in Clients : q.n \in unsent[c]
  PROVE  WaitsOnce'
  <1>1. \A k \in Waiting' : k \in Waiting
    BY DEF Waiting
  <1>2. ASSUME NEW k \in Waiting'
        PROVE  /\ \A c \in Clients : k.n \notin unsent'[c]
               /\ \A q \in outbox' \cup network' : ~Carries(q, k.n)
               /\ \A q \in Waiting' : q.n = k.n => q = k
    <2>1. k \in Waiting /\ k.n \in DOMAIN messages
      BY <1>1, WaitingOK
    <2>2. /\ \A c \in Clients : k.n \notin unsent[c]
          /\ \A q \in outbox \cup network : ~Carries(q, k.n)
          /\ \A q \in Waiting : q.n = k.n => q = k
      BY <2>1 DEF WaitsOnce
    <2>3. \A q \in outbox' \cup network' : ~Carries(q, k.n)
      BY <2>2 DEF Carries
    <2> QED BY <1>1, <2>1, <2>2, <2>3
  <1>3. \A k \in asking' : k \notin decrypting'
    BY DEF WaitsOnce
  <1>4. \A c \in Clients : \A k \in Queued(c)' :
          k.to = c /\ k \notin decrypting' /\ k \notin asking'
    BY DEF WaitsOnce
  <1> QED BY <1>2, <1>3, <1>4 DEF WaitsOnce, Carries

-----------------------------------------------------------------------------
(* Sessions that are added or only written in.                             *)

LEMMA SessionJoins ==
  ASSUME NEW c \in Clients, NEW p \in Clients, NEW l,
         DOMAIN sessions'[c] = DOMAIN sessions[c] \cup {l}, l \notin DOMAIN sessions[c],
         sessions'[c][l].with = p,
         \A i \in DOMAIN sessions[c] : sessions'[c][i].with = sessions[c][i].with,
         \A d \in Clients : d # c => sessions'[d] = sessions[d]
  PROVE  /\ HasSession(c, p)'
         /\ ~HasSession(c, p) => OneSession(c, p)'
         /\ \A d, q \in Clients : d # c \/ q # p =>
              /\ HasSession(d, q)' <=> HasSession(d, q)
              /\ OneSession(d, q) => OneSession(d, q)'
  <1>1. HasSession(c, p)'
    BY DEF HasSession
  <1>2. ASSUME ~HasSession(c, p) PROVE OneSession(c, p)'
    <2>1. \A i \in DOMAIN sessions'[c] : sessions'[c][i].with = p => i = l
      BY <1>2 DEF HasSession
    <2> QED BY <2>1 DEF OneSession
  <1>3. ASSUME NEW d \in Clients, NEW q \in Clients, d # c
        PROVE  /\ HasSession(d, q)' <=> HasSession(d, q)
               /\ OneSession(d, q) => OneSession(d, q)'
    BY <1>3 DEF HasSession, OneSession
  <1>4. ASSUME NEW q \in Clients, q # p
        PROVE  /\ HasSession(c, q)' <=> HasSession(c, q)
               /\ OneSession(c, q) => OneSession(c, q)'
    <2>1. \A i \in DOMAIN sessions'[c] : sessions'[c][i].with = q =>
            i \in DOMAIN sessions[c] /\ sessions[c][i].with = q
      BY <1>4
    <2>2. HasSession(c, q)' <=> HasSession(c, q)
      BY <2>1 DEF HasSession
    <2>3. OneSession(c, q) => OneSession(c, q)'
      BY <2>1 DEF OneSession
    <2> QED BY <2>2, <2>3
  <1> QED BY <1>1, <1>2, <1>3, <1>4

LEMMA SameSessions ==
  ASSUME \A d \in Clients :
            /\ DOMAIN sessions'[d] = DOMAIN sessions[d]
            /\ \A i \in DOMAIN sessions[d] : sessions'[d][i].with = sessions[d][i].with
  PROVE  \A d, q \in Clients :
            /\ HasSession(d, q)' <=> HasSession(d, q)
            /\ OneSession(d, q) => OneSession(d, q)'
  <1> SUFFICES ASSUME NEW d \in Clients, NEW q \in Clients
               PROVE  /\ HasSession(d, q)' <=> HasSession(d, q)
                      /\ OneSession(d, q) => OneSession(d, q)'
    OBVIOUS
  <1> QED BY DEF HasSession, OneSession

\* NewSession at the end of c's sessions.
LEMMA SessionAppended ==
  ASSUME Inv, NEW c \in Clients, NEW p \in Clients,
         sessions' = [sessions EXCEPT ![c] = Append(@, NewSession(p))]
  PROVE  /\ HasSession(c, p)'
         /\ ~HasSession(c, p) => OneSession(c, p)'
         /\ \A d, q \in Clients : d # c \/ q # p =>
              /\ HasSession(d, q)' <=> HasSession(d, q)
              /\ OneSession(d, q) => OneSession(d, q)'
  <1>1. sessions[c] \in Seq(Session)
    BY DEF Inv, TypeOK
  <1>2. PICK e : e = NewSession(p)
    OBVIOUS
  <1>3. PICK new : new = Append(sessions[c], e)
    OBVIOUS
  <1>4. e \in Session /\ e.with = p
    <2>1. NewSession(p) \in Session
      BY NewSessionType
    <2> QED BY <1>2, <2>1 DEF NewSession
  <1>5. /\ DOMAIN new = DOMAIN sessions[c] \cup {Len(sessions[c]) + 1}
        /\ Len(sessions[c]) + 1 \notin DOMAIN sessions[c]
        /\ new[Len(sessions[c]) + 1] = e
        /\ \A i \in DOMAIN sessions[c] : new[i] = sessions[c][i]
    BY <1>1, <1>3, <1>4
  <1>6. sessions'[c] = new /\ \A d \in Clients : d # c => sessions'[d] = sessions[d]
    BY <1>2, <1>3 DEF Inv, TypeOK
  <1>7. PICK l : l = Len(sessions[c]) + 1
    OBVIOUS
  <1>8. /\ DOMAIN sessions'[c] = DOMAIN sessions[c] \cup {l} /\ l \notin DOMAIN sessions[c]
        /\ sessions'[c][l].with = p
        /\ \A i \in DOMAIN sessions[c] : sessions'[c][i].with = sessions[c][i].with
    BY <1>4, <1>5, <1>6, <1>7
  <1> QED BY <1>6, <1>8, SessionJoins

-----------------------------------------------------------------------------
(* A request stays in order when a step does nothing about it.             *)

LEMMA LoneStays ==
  ASSUME NEW n, NEW c, NEW p, LoneOK(n, c, p),
         messages'[n].state = messages[n].state,
         Open(n)' => Open(n),
         HasSession(c, p)' <=> HasSession(c, p),
         HasSession(p, c)' <=> HasSession(p, c),
         OneSession(c, p) => OneSession(c, p)',
         OneSession(p, c) => OneSession(p, c)',
         c \in contacts'[p] => c \in contacts[p],
         early \subseteq early',
         \A k \in outbox' \cup network' : Answer(k, n)' =>
            k \in outbox \cup network /\ Answer(k, n),
         \A k \in outbox' : Answer(k, n)' /\ k \in network' => k \in outbox /\ k \in network
  PROVE  LoneOK(n, c, p)'
  <1>1. HasSession(p, c)' \/ c \in contacts'[p] => HasSession(p, c)' /\ ~Open(n)'
    BY DEF LoneOK
  <1>2. OneSession(p, c)'
    BY DEF LoneOK
  <1>3. ASSUME NEW k \in outbox' \cup network', Answer(k, n)'
        PROVE  /\ messages'[n].state = "pending" /\ ~Open(n)'
               /\ k.type = "REJECT" => ~HasSession(p, c)'
               /\ \A q \in outbox' \cup network' : Answer(q, n)' => q = k
               /\ k \in outbox' => k \notin network'
    <2>1. k \in outbox \cup network /\ Answer(k, n)
      BY <1>3
    <2>2. /\ messages[n].state = "pending" /\ ~Open(n)
          /\ k.type = "REJECT" => ~HasSession(p, c)
          /\ \A q \in outbox \cup network : Answer(q, n) => q = k
          /\ k \in outbox => k \notin network
      BY <2>1 DEF LoneOK
    <2> QED BY <1>3, <2>2
  <1>4. /\ messages'[n].state # "pending" => ~Open(n)'
        /\ messages'[n].state = "failed" => ~HasSession(p, c)'
        /\ messages'[n].state = "received" => HasSession(c, p)'
    BY DEF LoneOK
  <1>5. \/ <<c, p>> \in early'
        \/ OneSession(c, p)' /\ (HasSession(c, p)' => messages'[n].state = "received")
    BY DEF LoneOK
  <1> QED BY <1>1, <1>2, <1>3, <1>4, <1>5 DEF LoneOK

\* Enough to look at the requests that are alone before and after the step.
LEMMA LoneStep ==
  ASSUME Inv, TextInv, LoneRequests, Grows,
         \A n \in Requests' : n \in DOMAIN messages
            \/ \A c, p \in Clients : Asks(n, c, p)' /\ Alone(n, c, p)' => LoneOK(n, c, p)',
         \A n \in Requests : \A c, p \in Clients :
            /\ c # p /\ Asks(n, c, p) /\ Alone(n, c, p) /\ Alone(n, c, p)' /\ LoneOK(n, c, p)
            => LoneOK(n, c, p)'
  PROVE  LoneRequests'
  <1> SUFFICES ASSUME NEW n \in Requests', NEW c \in Clients, NEW p \in Clients,
                      Asks(n, c, p)', Alone(n, c, p)'
               PROVE  LoneOK(n, c, p)'
    BY DEF LoneRequests
  <1>1. CASE n \in DOMAIN messages
    <2>1. n \in Requests /\ Asks(n, c, p)
      BY <1>1 DEF Requests, Grows, Asks
    <2>2. \A m \in Requests : /\ m \in Requests'
                              /\ Asks(m, c, p)' <=> Asks(m, c, p)
                              /\ Asks(m, p, c)' <=> Asks(m, p, c)
      BY DEF Requests, Grows, Asks
    <2>3. Alone(n, c, p)
      BY <2>2 DEF Alone
    <2>4. c # p
      BY <2>1 DEF TextInv, NotToSelf, Asks, Requests
    <2>5. LoneOK(n, c, p)
      BY <2>1, <2>3 DEF LoneRequests
    <2> QED BY <2>1, <2>3, <2>4, <2>5
  <1>2. CASE n \notin DOMAIN messages
    BY <1>2
  <1> QED BY <1>1, <1>2

\* The archive leads an old answer to the same message as before.
LEMMA OldAnswer ==
  ASSUME Inv, Grows, NEW k \in outbox \cup network, k.type # "MESSAGE"
  PROVE  /\ archive'[k.to][k.id] = archive[k.to][k.id]
         /\ archive[k.to][k.id] \in DOMAIN messages
         /\ Asks(archive[k.to][k.id], k.to, k.from)
         /\ k.from \in Clients /\ k.to \in Clients /\ k \in Pack
  <1>1. k \in Pack /\ PackOK(k)
    BY DEF Inv, TypeOK, PacksOK
  <1> QED BY <1>1 DEF PackOK, About, Grows, Pack, Asks

\* Requests that are decided do not come up again: whatever carries a message
\* after the step did so before, or was at the sender.
LEMMA StaysClosed ==
  ASSUME NEW n,
         \A c \in Clients : n \in unsent'[c] => n \in unsent[c],
         \A k \in outbox' \cup network' \cup Waiting' : Carries(k, n) =>
            k \in outbox \cup network \cup Waiting \/ \E c \in Clients : n \in unsent[c]
  PROVE  Open(n)' => Open(n)
  <1> SUFFICES ASSUME Open(n)' PROVE Open(n)
    OBVIOUS
  <1>1. CASE \E c \in Clients : n \in unsent'[c]
    BY <1>1 DEF Open
  <1>2. CASE \E k \in outbox' \cup network' \cup Waiting' : Carries(k, n)
    BY <1>2 DEF Open
  <1> QED BY <1>1, <1>2 DEF Open, Carries

\* A step between sending and deciding: packs go on, or get lost.
LEMMA LoneMove ==
  ASSUME Inv, TextInv, LoneRequests, Grows,
         UNCHANGED <<messages, contacts, sessions, early>>,
         \A n \in Requests : Open(n)' => Open(n),
         \A k \in outbox' \cup network' : k.type # "MESSAGE" => k \in outbox \cup network,
         \A k \in outbox' : k.type # "MESSAGE" /\ k \in network' => k \in outbox /\ k \in network
  PROVE  LoneRequests'
  <1>1. \A d, q : /\ HasSession(d, q)' <=> HasSession(d, q)
                  /\ OneSession(d, q) => OneSession(d, q)'
    BY DEF HasSession, OneSession
  <1>2. \A n \in Requests' : n \in DOMAIN messages
    BY DEF Requests
  <1>3. ASSUME NEW n \in Requests, NEW c \in Clients, NEW p \in Clients, LoneOK(n, c, p)
        PROVE  LoneOK(n, c, p)'
    <2>1. \A k \in outbox' \cup network' : Answer(k, n)' =>
            k \in outbox \cup network /\ Answer(k, n)
      BY OldAnswer DEF Answer
    <2>2. \A k \in outbox' : Answer(k, n)' /\ k \in network' => k \in outbox /\ k \in network
      BY DEF Answer
    <2> QED BY <1>1, <1>3, <2>1, <2>2, LoneStays
  <1> QED BY <1>2, <1>3, LoneStep

LEMMA TextsStayIn ==
  ASSUME TextHasSession, Grows,
         \A d, q \in Clients : HasSession(d, q) => HasSession(d, q)',
         \A n \in Texts' : n \in DOMAIN messages
            \/ \A c, p \in Clients : Asks(n, c, p)' => HasSession(c, p)'
  PROVE  TextHasSession'
  <1> SUFFICES ASSUME NEW n \in Texts', NEW c \in Clients, NEW p \in Clients,
                      Asks(n, c, p)', n \in DOMAIN messages
               PROVE  HasSession(c, p)'
    BY DEF TextHasSession
  <1>1. n \in Texts
    BY TextsStay
  <1>2. Asks(n, c, p)
    BY DEF Asks, Grows
  <1>3. HasSession(c, p)
    BY <1>1, <1>2 DEF TextHasSession
  <1> QED BY <1>3

-----------------------------------------------------------------------------
(* One lemma for each action.                                              *)

LEMMA SendPackTwin ==
  ASSUME Inv, TextInv, TwinInv, Grows, NEW k \in outbox, SendPack(k)
  PROVE  TwinInv'
  <1>1. /\ outbox' = outbox \ {k} /\ network' = network \cup {k}
        /\ UNCHANGED <<messages, contacts, sessions, archive, unsent, early>>
        /\ UNCHANGED <<decrypting, asking, requested>>
    BY DEF SendPack, inquiry
  <1>2. \A c \in Clients : Queued(c)' = Queued(c)
    BY <1>1 DEF Queued
  <1>3. Waiting' = Waiting
    BY <1>1, <1>2 DEF Waiting
  <1>4. WaitsOnce'
    BY <1>1, <1>2, WaitsStay DEF TwinInv
  <1>5. \A n \in Requests : Open(n)' => Open(n)
    BY <1>1, <1>3, StaysClosed
  <1>6. LoneRequests'
    BY <1>1, <1>5, LoneMove DEF TwinInv
  <1>7. TextHasSession'
    BY <1>1 DEF TwinInv, TextHasSession, Asks, HasSession, Texts, Requests
  <1> QED BY <1>4, <1>6, <1>7 DEF TwinInv

LEMMA LoseTwin ==
  ASSUME Inv, TextInv, TwinInv, Grows, NEW k \in network, Lose(k)
  PROVE  TwinInv'
  <1>1. /\ network' = network \ {k}
        /\ UNCHANGED <<messages, contacts, sessions, archive, unsent, outbox, early>>
        /\ UNCHANGED <<decrypting, asking, requested>>
    BY DEF Lose, inquiry
  <1>2. \A c \in Clients : Queued(c)' = Queued(c)
    BY <1>1 DEF Queued
  <1>3. Waiting' = Waiting
    BY <1>1, <1>2 DEF Waiting
  <1>4. WaitsOnce'
    BY <1>1, <1>2, WaitsStay DEF TwinInv
  <1>5. \A n \in Requests : Open(n)' => Open(n)
    BY <1>1, <1>3, StaysClosed
  <1>6. LoneRequests'
    BY <1>1, <1>5, LoneMove DEF TwinInv
  <1>7. TextHasSession'
    BY <1>1 DEF TwinInv, TextHasSession, Asks, HasSession, Texts, Requests
  <1> QED BY <1>4, <1>6, <1>7 DEF TwinInv

LEMMA SendTwin ==
  ASSUME Inv, TextInv, TwinInv, Grows, NEW c \in Clients, NEW n \in unsent[c], Send(c, n)
  PROVE  TwinInv'
  <1>a. PICK k : k = [from |-> c, to |-> messages[n].to, type |-> "MESSAGE",
                      id |-> Len(archive[c]) + 1, n |-> n]
    OBVIOUS
  <1>1. /\ outbox' = outbox \cup {k} /\ k.type = "MESSAGE" /\ k.n = n
        /\ unsent' = [unsent EXCEPT ![c] = @ \ {n}]
        /\ UNCHANGED <<messages, contacts, sessions, network, early>>
        /\ UNCHANGED <<decrypting, asking, requested>>
    BY <1>a DEF Send, inquiry
  <1>2. \A d \in Clients : Queued(d)' = Queued(d)
    BY <1>1 DEF Queued
  <1>3. Waiting' = Waiting
    BY <1>1, <1>2 DEF Waiting
  <1>4. \A d \in Clients : unsent'[d] \subseteq unsent[d]
    BY <1>1 DEF Inv, TypeOK
  <1>5. WaitsOnce'
    BY <1>1, <1>2, <1>4, WaitsStay DEF TwinInv
  <1>6. \A m \in Requests : Open(m)' => Open(m)
    BY <1>1, <1>3, <1>4, StaysClosed DEF Carries
  <1>7. LoneRequests'
    BY <1>1, <1>6, LoneMove DEF TwinInv
  <1>8. TextHasSession'
    BY <1>1 DEF TwinInv, TextHasSession, Asks, HasSession, Texts, Requests
  <1> QED BY <1>5, <1>7, <1>8 DEF TwinInv

LEMMA HandleStrangerTwin ==
  ASSUME Inv, TextInv, TwinInv, Grows, NEW k \in network, HandleStranger(k)
  PROVE  TwinInv'
  <1>1. /\ k.type = "MESSAGE" /\ network' = network \ {k} /\ decrypting' = decrypting \cup {k}
        /\ UNCHANGED <<messages, contacts, sessions, archive, unsent, outbox, early>>
        /\ UNCHANGED <<asking, requested>>
    BY DEF HandleStranger
  <1>2. \A c \in Clients : Queued(c)' = Queued(c)
    BY <1>1 DEF Queued
  <1>3. Waiting' = Waiting \cup {k}
    BY <1>1, <1>2 DEF Waiting
  <1>4. /\ \A c \in Clients : k.n \notin unsent[c]
        /\ \A q \in outbox' \cup network' : ~Carries(q, k.n)
    <2>1. k \notin outbox
      BY <1>1 DEF TextInv, OnePack
    <2>2. \A q \in outbox \cup network : Carries(q, k.n) => k = q
      BY <1>1 DEF TextInv, OnePack
    <2>3. \A c \in Clients : k.n \notin unsent[c]
      BY <1>1 DEF TextInv, UnsentIsUnseen, Carries
    <2> QED BY <1>1, <2>1, <2>2, <2>3
  <1>5. \A q \in Waiting : q.n # k.n /\ q # k
    BY <1>1 DEF TwinInv, WaitsOnce, Carries
  <1>6. WaitsOnce'
    <2>1. ASSUME NEW w \in Waiting'
          PROVE  /\ \A c \in Clients : w.n \notin unsent'[c]
                 /\ \A q \in outbox' \cup network' : ~Carries(q, w.n)
                 /\ \A q \in Waiting' : q.n = w.n => q = w
      <3>1. CASE w = k
        BY <1>1, <1>3, <1>4, <1>5, <3>1
      <3>2. CASE w \in Waiting
        <4>1. /\ \A c \in Clients : w.n \notin unsent[c]
              /\ \A q \in outbox \cup network : ~Carries(q, w.n)
              /\ \A q \in Waiting : q.n = w.n => q = w
          BY <3>2 DEF TwinInv, WaitsOnce
        <4> QED BY <1>1, <1>3, <1>5, <3>2, <4>1
      <3> QED BY <1>3, <3>1, <3>2
    <2>2. \A w \in asking' : w \notin decrypting'
      <3>1. \A w \in asking : w # k
        BY <1>5 DEF Waiting
      <3> QED BY <1>1, <3>1 DEF TwinInv, WaitsOnce
    <2>3. \A c \in Clients : \A w \in Queued(c)' :
            w.to = c /\ w \notin decrypting' /\ w \notin asking'
      <3>1. \A c \in Clients : \A w \in Queued(c) : w # k
        BY <1>5 DEF Waiting
      <3> QED BY <1>1, <1>2, <3>1 DEF TwinInv, WaitsOnce
    <2> QED BY <2>1, <2>2, <2>3 DEF WaitsOnce, Carries
  <1>7. \A n \in Requests : Open(n)' => Open(n)
    BY <1>1, <1>3, StaysClosed
  <1>8. LoneRequests'
    BY <1>1, <1>7, LoneMove DEF TwinInv
  <1>9. TextHasSession'
    BY <1>1 DEF TwinInv, TextHasSession, Asks, HasSession, Texts, Requests
  <1> QED BY <1>6, <1>8, <1>9 DEF TwinInv

\* A request that is read is queued, or its receiver is asked.
LEMMA DecryptedMoves ==
  ASSUME Inv, NEW k \in decrypting, Decrypted(k)
  PROVE  \/ /\ \A d \in Clients : Queued(d)' = Queued(d)
            /\ asking' \subseteq asking \cup {k}
         \/ /\ \A d \in Clients : \A q \in Queued(d)' : q \in Queued(d) \/ (q = k /\ d = k.to)
            /\ asking' = asking
  <1>0. k \in Pack /\ k.to \in Clients
    BY DEF Inv, TypeOK, Pack
  <1>a. PICK c : c = k.to
    OBVIOUS
  <1>b. PICK q : q = requested[c].eventqueue
    OBVIOUS
  <1>1. CASE k.n \notin Requests
    BY <1>1 DEF Decrypted, Queued
  <1>2. CASE k.n \in Requests /\ requested[c].listener = None
    <2>1. PICK t : t = [requested[c] EXCEPT !.eventqueue = Append(@, k)]
      OBVIOUS
    <2>2. /\ requested' = [requested EXCEPT ![c] = t]
          /\ asking' = asking \cup {<< >>[i] : i \in DOMAIN << >>}
      BY <1>a, <1>2, <2>1 DEF Decrypted, E!Trigger, E!Dispatched, Ask
    <2>3. asking' = asking
      <3>1. DOMAIN << >> = {}
        OBVIOUS
      <3> QED BY <2>2, <3>1
    <2>4. q \in Seq(Pack) /\ t.eventqueue = Append(q, k)
      BY <1>0, <1>a, <1>b, <2>1 DEF Inv, TriggerOK
    <2>5. \A i \in DOMAIN Append(q, k) :
            Append(q, k)[i] = k \/ (i \in DOMAIN q /\ Append(q, k)[i] = q[i])
      BY <1>0, <2>4
    <2>6. requested'[c] = t /\ \A d \in Clients : d # c => requested'[d] = requested[d]
      BY <1>0, <1>a, <2>2 DEF Inv, TriggerOK
    <2>7. \A d \in Clients : d # c => Queued(d)' = Queued(d)
      BY <2>6 DEF Queued
    <2>8. \A x \in Queued(c)' : x \in Queued(c) \/ x = k
      <3> SUFFICES ASSUME NEW i \in DOMAIN Append(q, k)
                   PROVE  Append(q, k)[i] \in Queued(c) \/ Append(q, k)[i] = k
        BY <2>4, <2>6 DEF Queued
      <3> QED BY <1>b, <2>5 DEF Queued
    <2> QED BY <1>a, <2>3, <2>7, <2>8
  <1>3. CASE k.n \in Requests /\ requested[c].listener # None
    <2>1. PICK ks : ks = <<k>>
      OBVIOUS
    <2>2. /\ requested' = [requested EXCEPT ![c] = requested[c]]
          /\ asking' = asking \cup {ks[i] : i \in DOMAIN ks}
      BY <1>a, <1>3, <2>1 DEF Decrypted, E!Trigger, E!Dispatched, Ask
    <2>3. \A i \in DOMAIN ks : ks[i] = k
      BY <2>1
    <2>4. UNCHANGED requested
      BY <2>2 DEF Inv, TriggerOK
    <2> QED BY <2>2, <2>3, <2>4 DEF Queued
  <1> QED BY <1>1, <1>2, <1>3

LEMMA DecryptedTwin ==
  ASSUME Inv, TextInv, TwinInv, Grows, NEW k \in decrypting, Decrypted(k)
  PROVE  TwinInv'
  <1>0. k \in Waiting /\ k.to \in Clients
    BY WaitingOK DEF Waiting
  <1>1. /\ decrypting' = decrypting \ {k}
        /\ UNCHANGED <<messages, contacts, sessions, archive, unsent, outbox, network, early>>
    BY DEF Decrypted, held
  <1>2. /\ k \notin asking
        /\ \A d \in Clients : k \notin Queued(d)
    BY DEF TwinInv, WaitsOnce
  <1>3. \A w \in Waiting' : w \in Waiting
    BY <1>0, <1>1, DecryptedMoves DEF Waiting
  <1>4. WaitsOnce'
    <2>1. ASSUME NEW w \in Waiting'
          PROVE  /\ \A c \in Clients : w.n \notin unsent'[c]
                 /\ \A q \in outbox' \cup network' : ~Carries(q, w.n)
                 /\ \A q \in Waiting' : q.n = w.n => q = w
      <3>1. /\ \A c \in Clients : w.n \notin unsent[c]
            /\ \A q \in outbox \cup network : ~Carries(q, w.n)
            /\ \A q \in Waiting : q.n = w.n => q = w
        BY <1>3 DEF TwinInv, WaitsOnce
      <3> QED BY <1>1, <1>3, <3>1
    <2>2. \A w \in asking' : w \notin decrypting'
      BY <1>1, DecryptedMoves DEF TwinInv, WaitsOnce
    <2>3. ASSUME NEW c \in Clients, NEW w \in Queued(c)'
          PROVE  w.to = c /\ w \notin decrypting' /\ w \notin asking'
      <3>1. \A x \in Queued(c) : x.to = c /\ x \notin decrypting /\ x \notin asking
        BY DEF TwinInv, WaitsOnce
      <3>2. CASE w \in Queued(c) /\ w # k
        <4>1. w \notin asking'
          BY <3>1, <3>2, DecryptedMoves
        <4> QED BY <1>1, <3>1, <3>2, <4>1
      <3>3. CASE w = k
        <4>1. w.to = c /\ asking' = asking
          BY <1>2, <3>3, DecryptedMoves
        <4> QED BY <1>1, <1>2, <3>3, <4>1
      <3>4. w \in Queued(c) \/ w = k
        BY DecryptedMoves
      <3> QED BY <3>2, <3>3, <3>4
    <2> QED BY <2>1, <2>2, <2>3 DEF WaitsOnce, Carries
  <1>5. \A n \in Requests : Open(n)' => Open(n)
    BY <1>1, <1>3, StaysClosed
  <1>6. LoneRequests'
    BY <1>1, <1>5, LoneMove DEF TwinInv
  <1>7. TextHasSession'
    BY <1>1 DEF TwinInv, TextHasSession, Asks, HasSession, Texts, Requests
  <1> QED BY <1>4, <1>6, <1>7 DEF TwinInv

LEMMA ListenTwin ==
  ASSUME Inv, TextInv, TwinInv, Grows, NEW c \in Clients, Listen(c)
  PROVE  TwinInv'
  <1>a. PICK t : t = E!On(requested[c], c)
    OBVIOUS
  <1>b. PICK q : q = requested[c].eventqueue
    OBVIOUS
  <1>1. /\ requested' = [requested EXCEPT ![c] = t]
        /\ asking' = asking \cup {q[i] : i \in DOMAIN q}
        /\ UNCHANGED <<messages, contacts, sessions, archive, unsent, outbox, network,
                       decrypting, early>>
    BY <1>a, <1>b DEF Listen, E!DispatchedOn, Ask, held
  <1>2. t.eventqueue = << >>
    BY <1>a DEF E!On
  <1>3. requested'[c] = t /\ \A d \in Clients : d # c => requested'[d] = requested[d]
    BY <1>1 DEF Inv, TriggerOK
  <1>4. /\ Queued(c)' = {}
        /\ \A d \in Clients : d # c => Queued(d)' = Queued(d)
        /\ asking' = asking \cup Queued(c)
    <2>1. DOMAIN << >> = {}
      OBVIOUS
    <2>2. Queued(c)' = {}
      BY <1>2, <1>3, <2>1 DEF Queued
    <2> QED BY <1>1, <1>3, <1>b, <2>2 DEF Queued
  <1>5. \A w \in Waiting' : w \in Waiting
    BY <1>1, <1>4 DEF Waiting
  <1>6. WaitsOnce'
    <2>1. ASSUME NEW w \in Waiting'
          PROVE  /\ \A d \in Clients : w.n \notin unsent'[d]
                 /\ \A x \in outbox' \cup network' : ~Carries(x, w.n)
                 /\ \A x \in Waiting' : x.n = w.n => x = w
      <3>1. /\ \A d \in Clients : w.n \notin unsent[d]
            /\ \A x \in outbox \cup network : ~Carries(x, w.n)
            /\ \A x \in Waiting : x.n = w.n => x = w
        BY <1>5 DEF TwinInv, WaitsOnce
      <3> QED BY <1>1, <1>5, <3>1
    <2>2. \A w \in asking' : w \notin decrypting'
      BY <1>1, <1>4 DEF TwinInv, WaitsOnce
    <2>3. ASSUME NEW d \in Clients, NEW w \in Queued(d)'
          PROVE  w.to = d /\ w \notin decrypting' /\ w \notin asking'
      <3>1. d # c /\ w \in Queued(d)
        BY <1>4
      <3>2. w.to = d /\ w \notin decrypting /\ w \notin asking
        BY <3>1 DEF TwinInv, WaitsOnce
      <3>3. \A x \in Queued(c) : x.to = c
        BY DEF TwinInv, WaitsOnce
      <3> QED BY <1>1, <1>4, <3>1, <3>2, <3>3
    <2> QED BY <2>1, <2>2, <2>3 DEF WaitsOnce, Carries
  <1>7. \A n \in Requests : Open(n)' => Open(n)
    BY <1>1, <1>5, StaysClosed
  <1>8. LoneRequests'
    BY <1>1, <1>7, LoneMove DEF TwinInv
  <1>9. TextHasSession'
    BY <1>1 DEF TwinInv, TextHasSession, Asks, HasSession, Texts, Requests
  <1> QED BY <1>6, <1>8, <1>9 DEF TwinInv

\* The user decides about the request in k, once: it is open no more, and the
\* receipt is the only answer.
LEMMA LoneDecision ==
  ASSUME Inv, TextInv, TwinInv, Grows, NEW k \in asking, NEW type \in {"RECEIVED", "REJECT"},
         asking' = asking \ {k}, outbox' = outbox \cup {Receipt(k, type)},
         UNCHANGED <<messages, archive, unsent, network, decrypting, requested, early>>,
         IF type = "RECEIVED"
         THEN /\ contacts' = [contacts EXCEPT ![k.to] = @ \cup {k.from}]
              /\ sessions' = [sessions EXCEPT ![k.to] = Append(@, NewSession(k.from))]
         ELSE UNCHANGED <<contacts, sessions>>
  PROVE  TwinInv'
  <1>a. PICK c : c = k.to
    OBVIOUS
  <1>b. PICK p : p = k.from
    OBVIOUS
  <1>c. PICK r : r = Receipt(k, type)
    OBVIOUS
  <1>d. PICK m : m = k.n
    OBVIOUS
  <1>0. /\ k \in Waiting /\ c \in Clients /\ p \in Clients /\ k.type = "MESSAGE"
        /\ m \in Requests /\ Asks(m, p, c) /\ archive[p][k.id] = m /\ p # c
    <2>1. k \in Waiting
      BY DEF Waiting
    <2>2. /\ k.from \in Clients /\ k.to \in Clients /\ k.type = "MESSAGE"
          /\ PackOK(k) /\ Asks(k.n, k.from, k.to)
      BY <2>1, WaitingOK
    <2>3. k.n \in Requests
      BY DEF Inv, InquiryOK, Inquired
    <2>4. k.from # k.to
      BY <2>2, <2>3 DEF TextInv, NotToSelf, Asks, Requests
    <2> QED BY <1>a, <1>b, <1>d, <2>1, <2>2, <2>3, <2>4 DEF PackOK
  <1>1. r.type = type /\ r.to = p /\ r.id = k.id /\ Answer(r, m) /\ Answer(r, m)'
    BY <1>0, <1>b, <1>c DEF Receipt, Answer
  <1>2. outbox' = outbox \cup {r}
    BY <1>c
  <1>3. \A d \in Clients : Queued(d)' = Queued(d)
    BY DEF Queued
  <1>4. /\ Waiting' \subseteq Waiting
        /\ \A q \in Waiting' : q # k
    <2>1. Waiting' = decrypting \cup (asking \ {k}) \cup UNION {Queued(d) : d \in Clients}
      BY <1>3 DEF Waiting
    <2>2. k \notin decrypting /\ \A d \in Clients : k \notin Queued(d)
      BY DEF TwinInv, WaitsOnce
    <2> QED BY <2>1, <2>2 DEF Waiting
  <1>5. WaitsOnce'
    BY <1>1, <1>2, <1>3, WaitsStay DEF TwinInv
  <1>6. \A n \in Requests : Open(n)' => Open(n)
    BY <1>1, <1>2, <1>4, StaysClosed DEF Carries
  <1>7. ~Open(m)' /\ Open(m)
    <2>1. /\ \A d \in Clients : m \notin unsent[d]
          /\ \A q \in outbox \cup network : ~Carries(q, m)
          /\ \A q \in Waiting : q.n = m => q = k
      BY <1>0, <1>d DEF TwinInv, WaitsOnce
    <2>2. \A q \in outbox' \cup network' \cup Waiting' : ~Carries(q, m)
      BY <1>1, <1>2, <1>4, <2>1 DEF Carries
    <2>3. ~Open(m)'
      BY <2>1, <2>2 DEF Open, Carries
    <2>4. Open(m)
      BY <1>0, <1>d DEF Open, Carries
    <2> QED BY <2>3, <2>4
  <1>8. \A d, q \in Clients : d # c \/ q # p =>
          /\ HasSession(d, q)' <=> HasSession(d, q)
          /\ OneSession(d, q) => OneSession(d, q)'
          /\ q \in contacts'[d] => q \in contacts[d]
    <2>1. CASE type = "RECEIVED"
      <3>1. \A d, q \in Clients : d # c \/ q # p =>
              /\ HasSession(d, q)' <=> HasSession(d, q)
              /\ OneSession(d, q) => OneSession(d, q)'
        BY <1>0, <1>a, <1>b, <2>1, SessionAppended
      <3>2. \A d, q \in Clients : d # c \/ q # p => (q \in contacts'[d] => q \in contacts[d])
        BY <1>0, <1>a, <1>b, <2>1 DEF Inv, TypeOK
      <3> QED BY <3>1, <3>2
    <2>2. CASE type = "REJECT"
      BY <2>2 DEF HasSession, OneSession
    <2> QED BY <2>1, <2>2
  <1>9. /\ type = "RECEIVED" => HasSession(c, p)' /\ (~HasSession(c, p) => OneSession(c, p)')
        /\ type = "REJECT" => /\ HasSession(c, p)' <=> HasSession(c, p)
                              /\ OneSession(c, p) => OneSession(c, p)'
                              /\ p \in contacts'[c] => p \in contacts[c]
    <2>1. type = "RECEIVED" => HasSession(c, p)' /\ (~HasSession(c, p) => OneSession(c, p)')
      BY <1>0, <1>a, <1>b, SessionAppended
    <2>2. type = "REJECT" => /\ HasSession(c, p)' <=> HasSession(c, p)
                             /\ OneSession(c, p) => OneSession(c, p)'
                             /\ p \in contacts'[c] => p \in contacts[c]
      BY DEF HasSession, OneSession
    <2> QED BY <2>1, <2>2
  <1>10. ASSUME LoneOK(m, p, c)
         PROVE  LoneOK(m, p, c)'
    <2>1. /\ ~HasSession(c, p) /\ p \notin contacts[c] /\ messages[m].state = "pending"
          /\ \A q \in outbox \cup network : ~Answer(q, m)
      BY <1>7, <1>10 DEF LoneOK
    <2>2. HasSession(c, p)' \/ p \in contacts'[c] => HasSession(c, p)' /\ ~Open(m)'
      BY <1>7, <1>9, <2>1
    <2>3. OneSession(c, p)'
      BY <1>9, <1>10, <2>1 DEF LoneOK
    <2>4. ASSUME NEW q \in outbox' \cup network', Answer(q, m)'
          PROVE  /\ messages'[m].state = "pending" /\ ~Open(m)'
                 /\ q.type = "REJECT" => ~HasSession(c, p)'
                 /\ \A x \in outbox' \cup network' : Answer(x, m)' => x = q
                 /\ q \in outbox' => q \notin network'
      <3>1. \A x \in outbox' \cup network' : Answer(x, m)' => x = r
        BY <1>2, <2>1 DEF Answer
      <3>2. r \notin network
        BY <1>1, <2>1
      <3>3. q = r
        BY <2>4, <3>1
      <3> QED BY <1>1, <1>7, <1>9, <2>1, <3>1, <3>2, <3>3
    <2>5. /\ HasSession(p, c)' <=> HasSession(p, c)
          /\ OneSession(p, c) => OneSession(p, c)'
      BY <1>0, <1>8
    <2>6. \/ <<p, c>> \in early'
          \/ OneSession(p, c)' /\ (HasSession(p, c)' => messages'[m].state = "received")
      BY <1>10, <2>5 DEF LoneOK
    <2> QED BY <2>1, <2>2, <2>3, <2>4, <2>6 DEF LoneOK
  <1>11. ASSUME NEW n \in Requests, NEW a \in Clients, NEW b \in Clients, a # b,
                Asks(n, a, b), Alone(n, a, b), LoneOK(n, a, b)
         PROVE  LoneOK(n, a, b)'
    <2>1. CASE n = m
      BY <1>0, <1>10, <1>11, <2>1 DEF Asks
    <2>2. CASE n # m
      <3>1. (a # c \/ b # p) /\ (b # c \/ a # p)
        BY <1>0, <1>11, <2>2 DEF Alone
      <3>2. \A q \in outbox' \cup network' : Answer(q, n)' =>
              q \in outbox \cup network /\ Answer(q, n)
        BY <1>0, <1>1, <1>2, <2>2 DEF Answer
      <3>3. \A q \in outbox' : Answer(q, n)' /\ q \in network' => q \in outbox /\ q \in network
        BY <1>0, <1>1, <1>2, <2>2 DEF Answer
      <3>4. /\ HasSession(a, b)' <=> HasSession(a, b)
            /\ OneSession(a, b) => OneSession(a, b)'
            /\ HasSession(b, a)' <=> HasSession(b, a)
            /\ OneSession(b, a) => OneSession(b, a)'
            /\ a \in contacts'[b] => a \in contacts[b]
        BY <1>8, <3>1
      <3> QED BY <1>6, <1>11, <3>2, <3>3, <3>4, LoneStays
    <2> QED BY <2>1, <2>2
  <1>12. LoneRequests'
    <2>1. \A n \in Requests' : n \in DOMAIN messages
      BY DEF Requests
    <2> QED BY <1>11, <2>1, LoneStep DEF TwinInv
  <1>13. TextHasSession'
    <2>1. \A n \in Texts' : n \in DOMAIN messages
      BY DEF Texts
    <2>2. \A d, q \in Clients : HasSession(d, q) => HasSession(d, q)'
      BY <1>8, <1>9
    <2> QED BY <2>1, <2>2, TextsStayIn DEF TwinInv
  <1> QED BY <1>5, <1>12, <1>13 DEF TwinInv

LEMMA AcceptTwin ==
  ASSUME Inv, TextInv, TwinInv, Grows, NEW k \in asking, Accept(k)
  PROVE  TwinInv'
  BY LoneDecision DEF Accept, Answered

LEMMA RejectTwin ==
  ASSUME Inv, TextInv, TwinInv, Grows, NEW k \in asking, Reject(k)
  PROVE  TwinInv'
  BY LoneDecision DEF Reject, Answered

LEMMA HandleReceiptTwin ==
  ASSUME Inv, TextInv, TwinInv, Grows, NEW k \in network, HandleReceipt(k)
  PROVE  TwinInv'
  <1>a. PICK c : c = k.to
    OBVIOUS
  <1>b. PICK p : p = k.from
    OBVIOUS
  <1>c. PICK m : m = archive[k.to][k.id]
    OBVIOUS
  <1>1. /\ k.type # "MESSAGE" /\ network' = network \ {k}
        /\ messages' = IF messages[m].state = "pending"
                       THEN [messages EXCEPT ![m].state =
                               IF k.type = "RECEIVED" THEN "received" ELSE "failed"]
                       ELSE messages
        /\ sessions' = IF messages[m].kind = "request" /\ k.type = "RECEIVED"
                       THEN [sessions EXCEPT ![c] = Append(@, NewSession(messages[m].to))]
                       ELSE sessions
        /\ UNCHANGED <<contacts, archive, unsent, outbox, decrypting, asking, requested, early>>
    BY <1>a, <1>c DEF HandleReceipt, inquiry
  <1>2. /\ m \in DOMAIN messages /\ Asks(m, c, p) /\ c \in Clients /\ p \in Clients /\ k \in Pack
        /\ Answer(k, m) /\ c # p
    <2>1. /\ m \in DOMAIN messages /\ Asks(m, c, p) /\ c \in Clients /\ p \in Clients
          /\ k \in Pack /\ Answer(k, m)
      BY <1>a, <1>b, <1>c, <1>1, OldAnswer DEF Answer
    <2> QED BY <2>1 DEF TextInv, NotToSelf, Asks
  <1>3. /\ \A n \in DOMAIN messages : n # m => messages'[n] = messages[n]
        /\ DOMAIN messages' = DOMAIN messages
        /\ messages[m].state = "pending" =>
             messages'[m].state = IF k.type = "RECEIVED" THEN "received" ELSE "failed"
    <2>1. messages[m] \in Message
      BY <1>2 DEF Inv, TypeOK
    <2> QED BY <1>1, <1>2, <2>1 DEF Message
  <1>4. \A d \in Clients : Queued(d)' = Queued(d)
    BY <1>1 DEF Queued
  <1>5. Waiting' = Waiting
    BY <1>1, <1>4 DEF Waiting
  <1>6. WaitsOnce'
    BY <1>1, <1>4, WaitsStay DEF TwinInv
  <1>7. \A n : Open(n)' => Open(n)
    BY <1>1, <1>5, StaysClosed
  <1>8. /\ m \in Requests /\ k.type = "RECEIVED" =>
             HasSession(c, p)' /\ (~HasSession(c, p) => OneSession(c, p)')
        /\ \A d, q \in Clients : d # c \/ q # p \/ ~(m \in Requests /\ k.type = "RECEIVED") =>
             /\ HasSession(d, q)' <=> HasSession(d, q)
             /\ OneSession(d, q) => OneSession(d, q)'
    <2>1. CASE m \in Requests /\ k.type = "RECEIVED"
      <3>1. sessions' = [sessions EXCEPT ![c] = Append(@, NewSession(p))]
        BY <1>1, <1>2, <2>1 DEF Requests, Asks
      <3>2. /\ HasSession(c, p)'
            /\ ~HasSession(c, p) => OneSession(c, p)'
            /\ \A d, q \in Clients : d # c \/ q # p =>
                 /\ HasSession(d, q)' <=> HasSession(d, q)
                 /\ OneSession(d, q) => OneSession(d, q)'
        BY <1>2, <3>1, SessionAppended
      <3> QED BY <2>1, <3>2
    <2>2. CASE ~(m \in Requests /\ k.type = "RECEIVED")
      <3>1. UNCHANGED sessions
        BY <1>1, <1>2, <2>2 DEF Requests
      <3>2. \A d, q \in Clients : /\ HasSession(d, q)' <=> HasSession(d, q)
                                  /\ OneSession(d, q) => OneSession(d, q)'
        BY <3>1, SameSessions
      <3> QED BY <2>2, <3>2
    <2> QED BY <2>1, <2>2
  <1>9. ASSUME m \in Requests, LoneOK(m, c, p)
        PROVE  LoneOK(m, c, p)'
    <2>1. /\ messages[m].state = "pending" /\ ~Open(m)
          /\ k.type = "REJECT" => ~HasSession(p, c)
          /\ \A q \in outbox \cup network : Answer(q, m) => q = k
          /\ k \notin outbox
      BY <1>2, <1>9 DEF LoneOK
    <2>2. /\ HasSession(p, c)' <=> HasSession(p, c)
          /\ OneSession(p, c) => OneSession(p, c)'
      BY <1>2, <1>8
    <2>3. HasSession(p, c)' \/ c \in contacts'[p] => HasSession(p, c)' /\ ~Open(m)'
      BY <1>1, <1>7, <1>9, <2>2 DEF LoneOK
    <2>4. OneSession(p, c)'
      BY <1>9, <2>2 DEF LoneOK
    <2>5. \A q \in outbox' \cup network' : ~Answer(q, m)'
      BY <1>1, <2>1 DEF Answer
    <2>6. CASE k.type = "RECEIVED"
      <3>1. messages'[m].state = "received"
        BY <1>3, <2>1, <2>6
      <3>2. HasSession(c, p)'
        BY <1>8, <1>9, <2>6
      <3>3. <<c, p>> \in early' \/ OneSession(c, p)'
        BY <1>1, <1>8, <1>9, <2>1, <2>6 DEF LoneOK
      <3> QED BY <1>7, <2>1, <2>3, <2>4, <2>5, <3>1, <3>2, <3>3 DEF LoneOK
    <2>7. CASE k.type = "REJECT"
      <3>1. messages'[m].state = "failed"
        BY <1>3, <2>1, <2>7
      <3>2. ~HasSession(p, c)'
        BY <2>1, <2>2, <2>7
      <3>3. /\ HasSession(c, p)' <=> HasSession(c, p)
            /\ OneSession(c, p) => OneSession(c, p)'
        BY <1>2, <1>8, <2>7
      <3>4. <<c, p>> \in early' \/ (OneSession(c, p)' /\ ~HasSession(c, p)')
        BY <1>1, <1>9, <2>1, <3>3 DEF LoneOK
      <3> QED BY <1>7, <2>1, <2>3, <2>4, <2>5, <3>1, <3>2, <3>4 DEF LoneOK
    <2> QED BY <1>1, <1>2, <2>6, <2>7 DEF Pack
  <1>10. ASSUME NEW n \in Requests, NEW a \in Clients, NEW b \in Clients, a # b,
                Asks(n, a, b), Alone(n, a, b), LoneOK(n, a, b)
         PROVE  LoneOK(n, a, b)'
    <2>1. CASE n = m
      BY <1>2, <1>9, <1>10, <2>1 DEF Asks
    <2>2. CASE n # m
      <3>1. m \in Requests => (a # c \/ b # p) /\ (b # c \/ a # p)
        BY <1>2, <1>10, <2>2 DEF Alone
      <3>2. \A q \in outbox' \cup network' : Answer(q, n)' =>
              q \in outbox \cup network /\ Answer(q, n)
        BY <1>1 DEF Answer
      <3>3. \A q \in outbox' : Answer(q, n)' /\ q \in network' => q \in outbox /\ q \in network
        BY <1>1
      <3>4. /\ HasSession(a, b)' <=> HasSession(a, b)
            /\ OneSession(a, b) => OneSession(a, b)'
            /\ HasSession(b, a)' <=> HasSession(b, a)
            /\ OneSession(b, a) => OneSession(b, a)'
        BY <1>8, <3>1
      <3>5. messages'[n].state = messages[n].state
        BY <1>3, <2>2 DEF Requests
      <3> QED BY <1>1, <1>7, <1>10, <3>2, <3>3, <3>4, <3>5, LoneStays
    <2> QED BY <2>1, <2>2
  <1>11. LoneRequests'
    <2>1. \A n \in Requests' : n \in DOMAIN messages
      BY <1>3 DEF Requests
    <2> QED BY <1>10, <2>1, LoneStep DEF TwinInv
  <1>12. TextHasSession'
    <2>1. \A n \in Texts' : n \in DOMAIN messages
      BY <1>3 DEF Texts
    <2>2. \A d, q \in Clients : HasSession(d, q) => HasSession(d, q)'
      BY <1>8
    <2> QED BY <2>1, <2>2, TextsStayIn DEF TwinInv
  <1> QED BY <1>6, <1>11, <1>12 DEF TwinInv

LEMMA HandleMessageTwin ==
  ASSUME Inv, TextInv, TwinInv, Grows, NEW k \in network, HandleMessage(k)
  PROVE  TwinInv'
  <1>a. PICK c : c = k.to
    OBVIOUS
  <1>b. PICK p : p = k.from
    OBVIOUS
  <1>c. PICK m : m = k.n
    OBVIOUS
  <1>d. PICK r : r = Receipt(k, "RECEIVED")
    OBVIOUS
  <1>e. PICK i : i = SessionWith(c, p)
    OBVIOUS
  <1>f. PICK there : there = IF i <= Len(sessions[c]) THEN sessions[c]
                             ELSE Append(sessions[c], NewSession(p))
    OBVIOUS
  <1>g. PICK new : new = [there EXCEPT ![i].messages = Append(@, m)]
    OBVIOUS
  <1>1. /\ k.type = "MESSAGE" /\ p \in contacts[c]
        /\ network' = network \ {k}
        /\ outbox' = outbox \cup {r}
        /\ sessions' = [sessions EXCEPT ![c] = new]
        /\ early' = IF Unanswered(c, p) THEN early \cup {<<c, p>>} ELSE early
        /\ UNCHANGED <<messages, contacts, archive, unsent, decrypting, asking, requested>>
    BY <1>a, <1>b, <1>c, <1>d, <1>e, <1>f, <1>g DEF HandleMessage, inquiry
  <1>2. /\ c \in Clients /\ p \in Clients /\ m \in DOMAIN messages /\ Asks(m, p, c)
        /\ archive[p][k.id] = m /\ Open(m)
    <2>1. /\ k.from \in Clients /\ k.to \in Clients /\ PackOK(k) /\ k.n \in DOMAIN messages
          /\ Asks(k.n, k.from, k.to)
      BY <1>1, CarrierOK
    <2>2. archive[p][k.id] = m
      BY <1>1, <1>b, <1>c, <2>1 DEF PackOK
    <2>3. Open(m)
      BY <1>1, <1>c DEF Open, Carries
    <2> QED BY <1>a, <1>b, <1>c, <2>1, <2>2, <2>3
  <1>3. /\ r.type = "RECEIVED"
        /\ \A n : Answer(r, n)' <=> n = m
    BY <1>1, <1>2, <1>b, <1>d DEF Receipt, Answer
  <1>4. /\ i \in DOMAIN sessions[c] \/ i = Len(sessions[c]) + 1
        /\ HasSession(c, p) => i \in DOMAIN sessions[c]
    BY <1>2, <1>e, SessionWithIs DEF Inv
  <1>5. sessions[c] \in Seq(Session)
    BY <1>2 DEF Inv, TypeOK
  <1>6. sessions'[c] = new /\ \A d \in Clients : d # c => sessions'[d] = sessions[d]
    BY <1>1, <1>2 DEF Inv, TypeOK
  <1>7. ASSUME i \in DOMAIN sessions[c]
        PROVE  \A d, q \in Clients : /\ HasSession(d, q)' <=> HasSession(d, q)
                                     /\ OneSession(d, q) => OneSession(d, q)'
    <2>1. PICK e : e = [sessions[c][i] EXCEPT !.messages = Append(@, m)]
      OBVIOUS
    <2>2. there = sessions[c]
      BY <1>5, <1>7, <1>f
    <2>3. new = [sessions[c] EXCEPT ![i] = e]
      BY <1>g, <2>1, <2>2
    <2>4. e.with = sessions[c][i].with
      <3>1. sessions[c][i] \in Session
        BY <1>5, <1>7
      <3> QED BY <2>1, <3>1 DEF Session
    <2>5. /\ DOMAIN new = DOMAIN sessions[c]
          /\ \A j \in DOMAIN sessions[c] : new[j].with = sessions[c][j].with
      BY <1>7, <2>3, <2>4
    <2> QED BY <1>6, <2>5, SameSessions
  <1>8. ASSUME i \notin DOMAIN sessions[c]
        PROVE  /\ HasSession(c, p)'
               /\ ~HasSession(c, p) => OneSession(c, p)'
               /\ \A d, q \in Clients : d # c \/ q # p =>
                    /\ HasSession(d, q)' <=> HasSession(d, q)
                    /\ OneSession(d, q) => OneSession(d, q)'
    <2>1. PICK s : s = NewSession(p)
      OBVIOUS
    <2>2. s \in Session /\ s.with = p
      <3>1. NewSession(p) \in Session
        BY <1>2, NewSessionType
      <3> QED BY <2>1, <3>1 DEF NewSession
    <2>3. i = Len(sessions[c]) + 1
      BY <1>4, <1>8
    <2>4. there = Append(sessions[c], s)
      BY <1>5, <1>f, <2>1, <2>3
    <2>5. /\ DOMAIN there = DOMAIN sessions[c] \cup {i} /\ i \notin DOMAIN sessions[c]
          /\ there[i] = s /\ \A j \in DOMAIN sessions[c] : there[j] = sessions[c][j]
      BY <1>5, <2>2, <2>3, <2>4
    <2>6. PICK e : e = [s EXCEPT !.messages = Append(@, m)]
      OBVIOUS
    <2>7. new = [there EXCEPT ![i] = e]
      BY <1>g, <2>5, <2>6
    <2>8. e.with = p
      BY <2>2, <2>6 DEF Session
    <2>9. /\ DOMAIN new = DOMAIN sessions[c] \cup {i} /\ new[i].with = p
          /\ \A j \in DOMAIN sessions[c] : new[j].with = sessions[c][j].with
      BY <2>5, <2>7, <2>8
    <2> QED BY <1>2, <1>6, <2>5, <2>9, SessionJoins
  <1>9. /\ \A d, q \in Clients : d # c \/ q # p \/ HasSession(c, p) =>
             /\ HasSession(d, q)' <=> HasSession(d, q)
             /\ OneSession(d, q) => OneSession(d, q)'
        /\ HasSession(c, p)'
    <2>1. CASE i \in DOMAIN sessions[c]
      <3>1. HasSession(c, p)
        BY <1>2, <1>e, <2>1, SessionWithIs, <1>5 DEF Inv, HasSession
      <3> QED BY <1>2, <1>7, <2>1, <3>1
    <2>2. CASE i \notin DOMAIN sessions[c]
      BY <1>4, <1>8, <2>2
    <2> QED BY <2>1, <2>2
  <1>10. \A d \in Clients : Queued(d)' = Queued(d)
    BY <1>1 DEF Queued
  <1>11. Waiting' = Waiting
    BY <1>1, <1>10 DEF Waiting
  <1>12. WaitsOnce'
    BY <1>1, <1>3, <1>10, WaitsStay DEF TwinInv
  <1>13. \A n : Open(n)' => Open(n)
    BY <1>1, <1>3, <1>11, StaysClosed DEF Carries
  <1>14. ASSUME NEW n \in Requests, NEW a \in Clients, NEW b \in Clients, a # b,
                Asks(n, a, b), Alone(n, a, b), LoneOK(n, a, b)
         PROVE  LoneOK(n, a, b)'
    <2>1. n # m
      <3> SUFFICES ASSUME n = m PROVE FALSE
        OBVIOUS
      <3>1. a = p /\ b = c
        BY <1>2, <1>14 DEF Asks
      <3>2. ~Open(n)
        BY <1>1, <1>14, <3>1 DEF LoneOK
      <3> QED BY <1>2, <3>2
    <2>2. \A q \in outbox' \cup network' : Answer(q, n)' =>
            q \in outbox \cup network /\ Answer(q, n)
      BY <1>1, <1>3, <2>1 DEF Answer
    <2>3. \A q \in outbox' : Answer(q, n)' /\ q \in network' => q \in outbox /\ q \in network
      BY <1>1, <1>3, <2>1
    <2>4. early \subseteq early' /\ messages' = messages /\ contacts' = contacts
      BY <1>1
    <2>5. ASSUME ((a # c \/ b # p) /\ (b # c \/ a # p)) \/ HasSession(c, p)
          PROVE  LoneOK(n, a, b)'
      <3>1. /\ HasSession(a, b)' <=> HasSession(a, b)
            /\ OneSession(a, b) => OneSession(a, b)'
            /\ HasSession(b, a)' <=> HasSession(b, a)
            /\ OneSession(b, a) => OneSession(b, a)'
        BY <1>9, <2>5
      <3> QED BY <1>13, <1>14, <2>2, <2>3, <2>4, <3>1, LoneStays
    <2>6. CASE a = p /\ b = c
      <3>1. HasSession(c, p)
        BY <1>1, <1>14, <2>6 DEF LoneOK
      <3> QED BY <2>5, <3>1
    <2>7. CASE a = c /\ b = p /\ ~HasSession(c, p)
      <3>1. m \in Texts
        BY <1>2, <1>14, <2>1, <2>7 DEF Alone, Texts
      <3>2. HasSession(p, c) /\ ~Open(n)
        BY <1>2, <1>14, <2>7, <3>1 DEF TwinInv, TextHasSession, LoneOK
      <3>3. messages[n].state = "pending"
        <4>1. messages[n] \in Message
          BY DEF Requests, Inv, TypeOK
        <4>2. messages[n].state \in {"pending", "received", "failed"}
          BY <4>1 DEF Message
        <4> QED BY <1>14, <2>7, <3>2, <4>2 DEF LoneOK
      <3>4. <<c, p>> \in early'
        BY <1>1, <1>14, <2>7, <3>3 DEF Unanswered, Asks
      <3>5. /\ HasSession(p, c)' <=> HasSession(p, c)
            /\ OneSession(p, c) => OneSession(p, c)'
        BY <1>2, <1>9, <1>14, <2>7
      <3>6. ASSUME NEW q \in outbox' \cup network', Answer(q, n)'
            PROVE  /\ messages'[n].state = "pending" /\ ~Open(n)'
                   /\ q.type = "REJECT" => ~HasSession(p, c)'
                   /\ \A x \in outbox' \cup network' : Answer(x, n)' => x = q
                   /\ q \in outbox' => q \notin network'
        <4>1. q \in outbox \cup network /\ Answer(q, n)
          BY <2>2, <3>6
        <4>2. /\ q.type = "REJECT" => ~HasSession(p, c)
              /\ \A x \in outbox \cup network : Answer(x, n) => x = q
              /\ q \in outbox => q \notin network
          BY <1>14, <2>7, <4>1 DEF LoneOK
        <4> QED BY <1>13, <2>2, <2>3, <2>4, <3>2, <3>3, <3>5, <3>6, <4>2
      <3>7. LoneOK(n, c, p)'
        <4>1. OneSession(p, c)'
          BY <1>14, <2>7, <3>5 DEF LoneOK
        <4> QED BY <1>13, <2>4, <3>2, <3>3, <3>4, <3>5, <3>6, <4>1 DEF LoneOK
      <3> QED BY <2>7, <3>7
    <2> QED BY <2>5, <2>6, <2>7
  <1>15. LoneRequests'
    <2>1. \A n \in Requests' : n \in DOMAIN messages
      BY <1>1 DEF Requests
    <2> QED BY <1>14, <2>1, LoneStep DEF TwinInv
  <1>16. TextHasSession'
    <2>1. \A n \in Texts' : n \in DOMAIN messages
      BY <1>1 DEF Texts
    <2>2. \A d, q \in Clients : HasSession(d, q) => HasSession(d, q)'
      BY <1>9
    <2> QED BY <2>1, <2>2, TextsStayIn DEF TwinInv
  <1> QED BY <1>12, <1>15, <1>16 DEF TwinInv

\* A message is made: the requests before it are as they were.
LEMMA LoneMade ==
  ASSUME Inv, TextInv, TwinInv, Grows, NEW c \in Clients, NEW p, NEW kind, Make(c, p, kind),
         NEW new, new = Len(messages) + 1,
         UNCHANGED <<archive, outbox, network, decrypting, asking, requested, early>>,
         \A d, q \in Clients : /\ HasSession(d, q)' <=> HasSession(d, q)
                               /\ OneSession(d, q) => OneSession(d, q)',
         \A d, q \in Clients : d # c \/ q # p => (q \in contacts'[d] => q \in contacts[d]),
         kind = "request" \/ UNCHANGED contacts
  PROVE  /\ WaitsOnce'
         /\ new \notin DOMAIN messages /\ DOMAIN messages' = DOMAIN messages \cup {new}
         /\ Asks(new, c, p)' /\ messages'[new].kind = kind /\ messages'[new].state = "pending"
         /\ \A n \in Requests : \A a, b \in Clients :
              a # b /\ Asks(n, a, b) /\ Alone(n, a, b)' /\ LoneOK(n, a, b) => LoneOK(n, a, b)'
  <1>a. PICK e : e = [from |-> c, to |-> p, kind |-> kind, state |-> "pending"]
    OBVIOUS
  <1>1. /\ messages' = Append(messages, e)
        /\ unsent' = [unsent EXCEPT ![c] = @ \cup {new}]
    BY <1>a DEF Make
  <1>2. /\ DOMAIN messages' = DOMAIN messages \cup {new} /\ new \notin DOMAIN messages
        /\ messages'[new] = e
        /\ \A m \in DOMAIN messages : messages'[m] = messages[m]
    BY <1>1 DEF Inv, TypeOK
  <1>3. /\ Asks(new, c, p)' /\ messages'[new].kind = kind /\ messages'[new].state = "pending"
    BY <1>a, <1>2 DEF Asks
  <1>4. \A d \in Clients : Queued(d)' = Queued(d)
    BY DEF Queued
  <1>5. Waiting' = Waiting
    BY <1>4 DEF Waiting
  <1>6. \A d \in Clients : \A n \in unsent'[d] : n \in unsent[d] \/ n = new
    BY <1>1 DEF Inv, TypeOK
  <1>7. WaitsOnce'
    BY <1>2, <1>4, <1>6, WaitsStay DEF TwinInv
  <1>8. ASSUME NEW n \in Requests, NEW a \in Clients, NEW b \in Clients, a # b,
               Asks(n, a, b), Alone(n, a, b)', LoneOK(n, a, b)
        PROVE  LoneOK(n, a, b)'
    <2>1. n \in DOMAIN messages /\ n # new
      BY <1>2 DEF Requests
    <2>2. Open(n)' => Open(n)
      BY <1>5, <1>6, <2>1, StaysClosed
    <2>3. a \in contacts'[b] => a \in contacts[b]
      <3>1. CASE kind = "request"
        <4>1. new \in Requests'
          BY <1>2, <1>3, <3>1 DEF Requests
        <4>2. ~(b = c /\ a = p)
          BY <1>3, <1>8, <2>1, <4>1 DEF Alone
        <4> QED BY <4>2
      <3>2. CASE kind # "request"
        <4>1. UNCHANGED contacts
          BY <3>2
        <4> QED BY <4>1
      <3> QED BY <3>1, <3>2
    <2>4. \A q \in outbox' \cup network' : Answer(q, n)' =>
            q \in outbox \cup network /\ Answer(q, n)
      BY DEF Answer
    <2>5. messages'[n].state = messages[n].state
      BY <1>2, <2>1
    <2> QED BY <1>8, <2>2, <2>3, <2>4, <2>5, LoneStays
  <1> QED BY <1>2, <1>3, <1>7, <1>8

LEMMA ContactRequestTwin ==
  ASSUME Inv, TextInv, TwinInv, Grows, NEW c \in Clients, NEW p \in Clients \ {c},
         ContactRequest(c, p)
  PROVE  TwinInv'
  <1>a. PICK new : new = Len(messages) + 1
    OBVIOUS
  <1>1. /\ Make(c, p, "request") /\ contacts' = [contacts EXCEPT ![c] = @ \cup {p}]
        /\ UNCHANGED <<sessions, archive, outbox, network, decrypting, asking, requested, early>>
    BY DEF ContactRequest, held, inquiry
  <1>2. \A d, q \in Clients : /\ HasSession(d, q)' <=> HasSession(d, q)
                              /\ OneSession(d, q) => OneSession(d, q)'
    BY <1>1, SameSessions
  <1>3. \A d, q \in Clients : d # c \/ q # p => (q \in contacts'[d] => q \in contacts[d])
    BY <1>1 DEF Inv, TypeOK
  <1>4. /\ WaitsOnce'
        /\ new \notin DOMAIN messages /\ DOMAIN messages' = DOMAIN messages \cup {new}
        /\ Asks(new, c, p)' /\ messages'[new].kind = "request"
        /\ messages'[new].state = "pending"
        /\ \A n \in Requests : \A a, b \in Clients :
             a # b /\ Asks(n, a, b) /\ Alone(n, a, b)' /\ LoneOK(n, a, b) => LoneOK(n, a, b)'
    <2>1. PICK kind : kind = "request"
      OBVIOUS
    <2>2. /\ Make(c, p, kind)
          /\ UNCHANGED <<archive, outbox, network, decrypting, asking, requested, early>>
      BY <1>1, <2>1
    <2>3. kind = "request" \/ UNCHANGED contacts
      BY <2>1
    <2>4. /\ WaitsOnce'
          /\ new \notin DOMAIN messages /\ DOMAIN messages' = DOMAIN messages \cup {new}
          /\ Asks(new, c, p)' /\ messages'[new].kind = kind /\ messages'[new].state = "pending"
          /\ \A n \in Requests : \A a, b \in Clients :
               a # b /\ Asks(n, a, b) /\ Alone(n, a, b)' /\ LoneOK(n, a, b) => LoneOK(n, a, b)'
      BY <1>2, <1>3, <1>a, <2>2, <2>3, LoneMade
    <2> QED BY <2>1, <2>4
  <1>5. ASSUME Alone(new, c, p)' PROVE LoneOK(new, c, p)'
    <2>1. \A m \in Requests : m # new /\ m \in Requests' /\ (Asks(m, c, p)' <=> Asks(m, c, p))
                              /\ (Asks(m, p, c)' <=> Asks(m, p, c))
      BY <1>4 DEF Requests, Grows, Asks
    <2>2. ~Asked(c, p) /\ ~Asked(p, c)
      BY <1>5, <2>1 DEF Asked, Asks, Alone
    <2>3. p \notin contacts[c] /\ c \notin contacts[p]
      BY <2>2 DEF Inv, ContactIsWanted
    <2>4. ~HasSession(c, p) /\ ~HasSession(p, c)
      BY <2>3 DEF Inv, SessionIsMutual
    <2>5. ~HasSession(c, p)' /\ ~HasSession(p, c)' /\ c \notin contacts'[p]
      BY <1>2, <1>3, <2>3, <2>4
    <2>6. OneSession(c, p)' /\ OneSession(p, c)'
      BY <2>5 DEF OneSession, HasSession
    <2>7. \A k \in outbox' \cup network' : ~Answer(k, new)'
      BY <1>1, <1>4, OldAnswer DEF Answer
    <2> QED BY <1>4, <2>5, <2>6, <2>7 DEF LoneOK
  <1>6. LoneRequests'
    <2>1. ASSUME NEW n \in Requests', NEW a \in Clients, NEW b \in Clients,
                 n \notin DOMAIN messages, Asks(n, a, b)', Alone(n, a, b)'
          PROVE  LoneOK(n, a, b)'
      <3>1. n = new
        BY <1>4, <2>1 DEF Requests
      <3>2. a = c /\ b = p
        BY <1>4, <2>1, <3>1 DEF Asks
      <3> QED BY <1>5, <2>1, <3>1, <3>2
    <2> QED BY <1>4, <2>1, LoneStep DEF TwinInv
  <1>7. TextHasSession'
    <2>1. \A n \in Texts' : n \in DOMAIN messages
      BY <1>4 DEF Texts, Requests
    <2> QED BY <1>2, <2>1, TextsStayIn DEF TwinInv
  <1> QED BY <1>4, <1>6, <1>7 DEF TwinInv

LEMMA SessionSendTwin ==
  ASSUME Inv, TextInv, TwinInv, Grows, NEW c \in Clients, NEW i \in DOMAIN sessions[c],
         SessionSend(c, i)
  PROVE  TwinInv'
  <1>a. PICK new : new = Len(messages) + 1
    OBVIOUS
  <1>b. PICK p : p = sessions[c][i].with
    OBVIOUS
  <1>c. PICK e : e = [sessions[c][i] EXCEPT !.messages = Append(@, new)]
    OBVIOUS
  <1>1. /\ Make(c, p, "text")
        /\ sessions' = [sessions EXCEPT ![c] = [sessions[c] EXCEPT ![i] = e]]
        /\ UNCHANGED <<contacts, archive, outbox, network, decrypting, asking, requested, early>>
    BY <1>a, <1>b, <1>c DEF SessionSend, held, inquiry
  <1>2. sessions[c] \in Seq(Session) /\ sessions[c][i] \in Session
    BY DEF Inv, TypeOK
  <1>3. e.with = p
    BY <1>2, <1>b, <1>c DEF Session
  <1>4. \A d \in Clients :
            /\ DOMAIN sessions'[d] = DOMAIN sessions[d]
            /\ \A j \in DOMAIN sessions[d] : sessions'[d][j].with = sessions[d][j].with
    <2>1. /\ sessions'[c] = [sessions[c] EXCEPT ![i] = e]
          /\ \A d \in Clients : d # c => sessions'[d] = sessions[d]
      BY <1>1 DEF Inv, TypeOK
    <2>2. \A j \in DOMAIN sessions[c] :
             [sessions[c] EXCEPT ![i] = e][j].with = sessions[c][j].with
      BY <1>3, <1>b
    <2> QED BY <2>1, <2>2
  <1>5. \A d, q \in Clients : /\ HasSession(d, q)' <=> HasSession(d, q)
                              /\ OneSession(d, q) => OneSession(d, q)'
    BY <1>4, SameSessions
  <1>6. /\ WaitsOnce'
        /\ new \notin DOMAIN messages /\ DOMAIN messages' = DOMAIN messages \cup {new}
        /\ Asks(new, c, p)' /\ messages'[new].kind = "text"
        /\ \A n \in Requests : \A a, b \in Clients :
             a # b /\ Asks(n, a, b) /\ Alone(n, a, b)' /\ LoneOK(n, a, b) => LoneOK(n, a, b)'
    BY <1>1, <1>5, <1>a, LoneMade
  <1>7. LoneRequests'
    <2>1. \A n \in Requests' : n \in DOMAIN messages
      BY <1>6 DEF Requests
    <2> QED BY <1>6, <2>1, LoneStep DEF TwinInv
  <1>8. TextHasSession'
    <2>1. HasSession(c, p)
      BY <1>b DEF HasSession
    <2>2. p \in Clients
      BY <1>2, <1>b DEF Session
    <2>3. ASSUME NEW n \in Texts', n \notin DOMAIN messages, NEW a \in Clients, NEW b \in Clients,
                 Asks(n, a, b)'
          PROVE  HasSession(a, b)'
      <3>1. n = new
        BY <1>6, <2>3 DEF Texts
      <3>2. a = c /\ b = p
        BY <1>6, <2>3, <3>1 DEF Asks
      <3> QED BY <1>5, <2>1, <2>2, <3>2
    <2> QED BY <1>5, <2>3, TextsStayIn DEF TwinInv
  <1> QED BY <1>6, <1>7, <1>8 DEF TwinInv

LEMMA StutterTwin ==
  ASSUME TwinInv, UNCHANGED vars
  PROVE  TwinInv'
  <1>1. UNCHANGED <<messages, contacts, sessions, archive, unsent, outbox, network, decrypting,
                    requested, asking, early>>
    BY DEF vars, held, inquiry
  <1>2. Waiting' = Waiting /\ \A c : Queued(c)' = Queued(c)
    BY <1>1 DEF Waiting, Queued
  <1>3. WaitsOnce'
    BY <1>1, <1>2 DEF TwinInv, WaitsOnce, Carries
  <1>4. TextHasSession'
    BY <1>1 DEF TwinInv, TextHasSession, Asks, HasSession, Texts, Requests
  <1>5. \A n : Open(n)' <=> Open(n)
    BY <1>1, <1>2 DEF Open, Carries
  <1>6. Requests' = Requests
    BY <1>1 DEF Requests
  <1>7. \A n, c, p : LoneOK(n, c, p)' <=> LoneOK(n, c, p)
    BY <1>1, <1>5 DEF LoneOK, HasSession, OneSession, Answer
  <1>8. \A n, c, p : (Asks(n, c, p)' <=> Asks(n, c, p)) /\ (Alone(n, c, p)' <=> Alone(n, c, p))
    BY <1>1, <1>6 DEF Asks, Alone
  <1>9. LoneRequests'
    BY <1>6, <1>7, <1>8 DEF TwinInv, LoneRequests
  <1> QED BY <1>3, <1>4, <1>9 DEF TwinInv

LEMMA TwinInit == Init => TwinInv
  <1> SUFFICES ASSUME Init PROVE TwinInv
    OBVIOUS
  <1>1. Texts = {} /\ Requests = {}
    BY DEF Init, Texts, Requests
  <1>2. \A c \in Clients : Queued(c) = {}
    <2>1. DOMAIN << >> = {}
      OBVIOUS
    <2> QED BY <2>1 DEF Init, Queued, E!NewTrigger
  <1>3. Waiting = {}
    BY <1>2 DEF Init, Waiting
  <1> QED BY <1>1, <1>2, <1>3 DEF Init, TwinInv, WaitsOnce, TextHasSession, LoneRequests

LEMMA TwinNext == Inv /\ TextInv /\ TwinInv /\ [Next]_vars => TwinInv'
  <1> SUFFICES ASSUME Inv, TextInv, TwinInv, [Next]_vars PROVE TwinInv'
    OBVIOUS
  <1>0. CASE UNCHANGED vars
    BY <1>0, StutterTwin
  <1>1. CASE \E c \in Clients : \E p \in Clients \ {c} : ContactRequest(c, p)
    BY <1>1, ContactRequestKeeps, ContactRequestTwin
  <1>2. CASE \E c \in Clients : \E i \in DOMAIN sessions[c] : SessionSend(c, i)
    BY <1>2, SessionSendKeeps, SessionSendTwin
  <1>3. CASE \E c \in Clients : \E n \in unsent[c] : Send(c, n)
    BY <1>3, SendKeeps, SendTwin
  <1>4. CASE \E c \in Clients : Listen(c)
    BY <1>4, ListenKeeps, ListenTwin
  <1>5. CASE \E k \in outbox : SendPack(k)
    BY <1>5, SendPackKeeps, SendPackTwin
  <1>6. CASE \E k \in network : HandleMessage(k)
    BY <1>6, HandleMessageKeeps, HandleMessageTwin
  <1>7. CASE \E k \in network : HandleReceipt(k)
    BY <1>7, HandleReceiptKeeps, HandleReceiptTwin
  <1>8. CASE \E k \in network : HandleStranger(k)
    BY <1>8, HandleStrangerKeeps, HandleStrangerTwin
  <1>9. CASE \E k \in network : Lose(k)
    BY <1>9, LoseKeeps, LoseTwin
  <1>10. CASE \E k \in decrypting : Decrypted(k)
    BY <1>10, DecryptedKeeps, DecryptedTwin
  <1>11. CASE \E k \in asking : Accept(k)
    BY <1>11, AcceptKeeps, AcceptTwin
  <1>12. CASE \E k \in asking : Reject(k)
    BY <1>12, RejectKeeps, RejectTwin
  <1> QED BY <1>0, <1>1, <1>2, <1>3, <1>4, <1>5, <1>6, <1>7, <1>8, <1>9, <1>10, <1>11, <1>12
          DEF Next, Receive

\* What Cardinality says of a set with two elements, and of one without.
LEMMA MoreThanOne ==
  ASSUME NEW S, IsFiniteSet(S)
  PROVE  Cardinality(S) > 1 <=> \E x, y \in S : x # y
  <1>1. ASSUME NEW x \in S, NEW y \in S, x # y PROVE Cardinality(S) > 1
    <2>1. Cardinality({x, y}) = 2
      <3>1. IsFiniteSet({x}) /\ Cardinality({x}) = 1
        BY FS_Singleton
      <3>2. Cardinality({x} \cup {y}) = Cardinality({x}) + 1
        BY <1>1, <3>1, FS_AddElement
      <3>3. {x, y} = {x} \cup {y}
        OBVIOUS
      <3> QED BY <3>1, <3>2, <3>3
    <2>2. Cardinality({x, y}) <= Cardinality(S)
      <3>1. {x, y} \subseteq S
        OBVIOUS
      <3> QED BY <3>1, FS_Subset
    <2>3. Cardinality(S) \in Nat
      BY FS_CardinalityType
    <2> QED BY <2>1, <2>2, <2>3
  <1>2. ASSUME \A x, y \in S : x = y PROVE ~(Cardinality(S) > 1)
    <2>1. CASE S = {}
      <3>1. Cardinality(S) = 0
        BY <2>1, FS_EmptySet
      <3> QED BY <3>1
    <2>2. CASE S # {}
      <3>1. PICK x \in S : S = {x}
        BY <1>2, <2>2
      <3>2. Cardinality(S) = 1
        BY <3>1, FS_Singleton
      <3> QED BY <3>2
    <2> QED BY <2>1, <2>2
  <1> QED BY <1>1, <1>2

LEMMA TwinsCross ==
  ASSUME Inv, TextInv, TwinInv
  PROVE  TwinNeedsCrossing
  <1> SUFFICES ASSUME NEW c \in Clients, NEW p \in Clients,
                      Cardinality({i \in DOMAIN sessions[c] : sessions[c][i].with = p}) > 1,
                      <<c, p>> \notin early
               PROVE  Cardinality({n \in Requests :
                         {messages[n].from, messages[n].to} = {c, p}}) > 1
    BY DEF TwinNeedsCrossing
  <1>a. PICK S : S = {i \in DOMAIN sessions[c] : sessions[c][i].with = p}
    OBVIOUS
  <1>b. PICK R : R = {n \in Requests : {messages[n].from, messages[n].to} = {c, p}}
    OBVIOUS
  <1>1. IsFiniteSet(S)
    <2>1. sessions[c] \in Seq(Session)
      BY DEF Inv, TypeOK
    <2>2. IsFiniteSet(1..Len(sessions[c]))
      BY <2>1, FS_Interval
    <2>3. S \subseteq 1..Len(sessions[c])
      BY <1>a, <2>1
    <2> QED BY <2>2, <2>3, FS_Subset
  <1>2. IsFiniteSet(R)
    <2>1. messages \in Seq(Message)
      BY DEF Inv, TypeOK
    <2>2. IsFiniteSet(1..Len(messages))
      BY <2>1, FS_Interval
    <2>3. R \subseteq 1..Len(messages)
      BY <1>b, <2>1 DEF Requests
    <2> QED BY <2>2, <2>3, FS_Subset
  <1>3. PICK i \in S, j \in S : i # j
    BY <1>1, <1>a, MoreThanOne
  <1>4. HasSession(c, p) /\ ~OneSession(c, p)
    BY <1>3, <1>a DEF HasSession, OneSession
  <1>5. PICK n \in Requests : Asks(n, c, p) \/ Asks(n, p, c)
    BY <1>4 DEF Inv, SessionIsMutual, ContactIsWanted, Asked, Asks
  <1>6. \A m \in Requests : Asks(m, c, p) \/ Asks(m, p, c) => m \in R
    BY <1>b DEF Asks
  <1>7. \E m \in R : m # n
    <2> SUFFICES ASSUME \A m \in R : m = n PROVE FALSE
      OBVIOUS
    <2>1. Alone(n, c, p) /\ Alone(n, p, c)
      BY <1>6 DEF Alone
    <2>2. CASE Asks(n, c, p)
      BY <1>4, <2>1, <2>2 DEF TwinInv, LoneRequests, LoneOK
    <2>3. CASE Asks(n, p, c)
      BY <1>4, <2>1, <2>3 DEF TwinInv, LoneRequests, LoneOK
    <2> QED BY <1>5, <2>2, <2>3
  <1>8. Cardinality(R) > 1
    BY <1>2, <1>5, <1>6, <1>7, MoreThanOne
  <1> QED BY <1>8, <1>b

\* msgHandler, receiptHandler and the listener of contactRequest push a session
\* each: a client has two with the same peer only if the two have asked each
\* other, or one of them twice, or if the peer's text came before his answer.
THEOREM TwinsNeedCrossing == Spec => []TwinNeedsCrossing
  <1>1. Init => Inv /\ TextInv /\ TwinInv
    BY InvInit, TextInit, TwinInit
  <1>2. Inv /\ TextInv /\ TwinInv /\ [Next]_vars => (Inv /\ TextInv /\ TwinInv)'
    BY InvNext, TextNext, TwinNext
  <1>3. Inv /\ TextInv /\ TwinInv => TwinNeedsCrossing
    BY TwinsCross
  <1> QED BY <1>1, <1>2, <1>3, PTL DEF Spec

=============================================================================

----------------------------- MODULE ChatClient -----------------------------
(***************************************************************************)
(* The conversations of the client library: contact requests, sessions,    *)
(* texts and receipts of src/www/lib/tmcs-anonymous/src (index.ts,         *)
(* session.ts, event.ts), between several clients.                         *)
(*                                                                         *)
(* A step is what one client does between two awaits.  Encrypting, signing *)
(* and decrypting are awaited, so the packs of one client may leave it in  *)
(* any order, and the blobs of two packs may be read in any order: the     *)
(* network is a set, out of which the server loses a bounded number (the   *)
(* receiver is gone, or the sender's socket was: nobody tells the sender's *)
(* message).  Encryption itself is not modelled: everybody's keys are      *)
(* right, and a client is its fingerprint.                                 *)
(***************************************************************************)
EXTENDS Naturals, Sequences, FiniteSets

CONSTANTS
    Clients,
    Console,        \* the clients whose user works at the console
    None,           \* no listener, no question
    MaxRequests,    \* bound: contact requests made
    MaxTexts,       \* bound: texts sent
    MaxMessages,    \* bound: requests and texts together
    MaxLost         \* bound: packs lost

ASSUME ConsoleAssumption == Console \subseteq Clients
ASSUME NoneAssumption == None \notin Clients
ASSUME BoundsAssumption ==
    MaxRequests \in Nat /\ MaxTexts \in Nat /\ MaxMessages \in Nat /\ MaxLost \in Nat

E == INSTANCE EventTrigger WITH NoListener <- None

\* Messages are numbered in the order in which the users make them.
Numbers == 1..MaxMessages

\* class Message.  state is that of the message for a text (the one that is
\* displayed), and what the promise of contactRequest resolves to for a request.
Message == [from : Clients, to : Clients, kind : {"request", "text"},
            state : {"pending", "received", "failed"}]

\* A SignedMsg: a MessagePack with message n, which has the msgId id, or a
\* ReceiptPack about the message that has the msgId id at its receiver.
Pack == [from : Clients, to : Clients, id : Numbers,
         type : {"MESSAGE", "RECEIVED", "REJECT"}, n : Numbers \cup {0}]

Session == [with : Clients, messages : Seq(Numbers)]

VARIABLES
    messages,   \* Seq(Message): every Message a user of some client has made
    contacts,   \* [Clients -> SUBSET Clients]
    sessions,   \* [Clients -> Seq(Session)]
    archive,    \* [Clients -> Seq(Numbers)]: messageArchive from index 1 on
    unsent,     \* [Clients -> SUBSET Numbers]: before the call of send (timer, encrypt)
    outbox,     \* packs that are being encrypted and signed
    network,    \* packs on their way
    decrypting, \* request packs that their receiver is decrypting
    requested,  \* [Clients -> trigger]: onContactRequest
    asking,     \* request packs that wait for their receiver's user
    prompt,     \* [Clients -> Pack or None]: what accept() and reject() are about
    lost,       \* packs lost
    accepted,   \* for the properties: <<c, p>> if c's user has accepted p
    early       \* for the properties: see HandleMessage

held == <<outbox, network>>
inquiry == <<decrypting, requested, asking, prompt>>
vars == <<messages, contacts, sessions, archive, unsent, held, inquiry, lost, accepted, early>>

Requests == {n \in DOMAIN messages : messages[n].kind = "request"}
Texts == DOMAIN messages \ Requests

TypeOK ==
    /\ messages \in Seq(Message) /\ Len(messages) <= MaxMessages
    /\ contacts \in [Clients -> SUBSET Clients]
    /\ sessions \in [Clients -> Seq(Session)]
    /\ archive \in [Clients -> Seq(Numbers)]
    /\ unsent \in [Clients -> SUBSET Numbers]
    /\ outbox \cup network \cup decrypting \cup asking \subseteq Pack
    /\ prompt \in [Clients -> Pack \cup {None}]
    /\ lost \in 0..MaxLost
    /\ accepted \cup early \subseteq Clients \X Clients

Init ==
    /\ messages = << >>
    /\ contacts = [c \in Clients |-> {}]
    /\ sessions = [c \in Clients |-> << >>]
    /\ archive = [c \in Clients |-> << >>]
    /\ unsent = [c \in Clients |-> {}]
    /\ outbox = {} /\ network = {} /\ decrypting = {} /\ asking = {}
    /\ requested = [c \in Clients |-> E!NewTrigger]
    /\ prompt = [c \in Clients |-> None]
    /\ lost = 0 /\ accepted = {} /\ early = {}

-----------------------------------------------------------------------------
(* Sending                                                                 *)

Make(c, p, kind) ==
    /\ Len(messages) < MaxMessages
    /\ messages' = Append(messages, [from |-> c, to |-> p, kind |-> kind, state |-> "pending"])
    /\ unsent' = [unsent EXCEPT ![c] = @ \cup {Len(messages) + 1}]

\* contactRequest, up to the await of encrypt: p is a contact from now on.
ContactRequest(c, p) ==
    /\ Cardinality(Requests) < MaxRequests
    /\ Make(c, p, "request")
    /\ contacts' = [contacts EXCEPT ![c] = @ \cup {p}]
    /\ UNCHANGED <<sessions, archive, held, inquiry, lost, accepted, early>>

\* Session.send: the text is displayed at once, and sent after 10 ms.
SessionSend(c, i) ==
    /\ Cardinality(Texts) < MaxTexts
    /\ Make(c, sessions[c][i].with, "text")
    /\ sessions' = [sessions EXCEPT ![c][i].messages = Append(@, Len(messages) + 1)]
    /\ UNCHANGED <<contacts, archive, held, inquiry, lost, accepted, early>>

\* send: the index in the archive becomes the msgId; then encrypt is awaited.
\* A mutant: the msgId is counted from 0.
Send_FromZero(c, n) ==
    /\ n \in unsent[c]
    /\ unsent' = [unsent EXCEPT ![c] = @ \ {n}]
    /\ archive' = [archive EXCEPT ![c] = Append(@, n)]
    /\ outbox' = outbox \cup {[from |-> c, to |-> messages[n].to, type |-> "MESSAGE",
                               id |-> Len(archive[c]), n |-> n]}
    /\ UNCHANGED <<messages, contacts, sessions, network, inquiry, lost, accepted, early>>

\* A mutant: the timer fires again.
Send_Again(c, n) ==
    /\ n \in unsent[c]
    /\ UNCHANGED unsent
    /\ archive' = [archive EXCEPT ![c] = Append(@, n)]
    /\ outbox' = outbox \cup {[from |-> c, to |-> messages[n].to, type |-> "MESSAGE",
                               id |-> Len(archive[c]) + 1, n |-> n]}
    /\ UNCHANGED <<messages, contacts, sessions, network, inquiry, lost, accepted, early>>

Send(c, n) ==
    /\ n \in unsent[c]
    /\ unsent' = [unsent EXCEPT ![c] = @ \ {n}]
    /\ archive' = [archive EXCEPT ![c] = Append(@, n)]
    /\ outbox' = outbox \cup {[from |-> c, to |-> messages[n].to, type |-> "MESSAGE",
                               id |-> Len(archive[c]) + 1, n |-> n]}
    /\ UNCHANGED <<messages, contacts, sessions, network, inquiry, lost, accepted, early>>

\* sendPack has signed k.
SendPack(k) ==
    /\ k \in outbox
    /\ outbox' = outbox \ {k}
    /\ network' = network \cup {k}
    /\ UNCHANGED <<messages, contacts, sessions, archive, unsent, inquiry, lost, accepted, early>>

Lose(k) ==
    /\ k \in network /\ lost < MaxLost
    /\ network' = network \ {k}
    /\ lost' = lost + 1
    /\ UNCHANGED <<messages, contacts, sessions, archive, unsent, outbox, inquiry, accepted, early>>

\* genReceipt for the message of pack k.
Receipt(k, type) == [from |-> k.to, to |-> k.from, type |-> type, id |-> k.id, n |-> 0]

-----------------------------------------------------------------------------
(* Receiving                                                               *)

NewSession(p) == [with |-> p, messages |-> << >>]

\* sessions.filter(...)[0], or where a new session goes.
\* A mutant: the sessions are not searched.
SessionWith_New(c, p) == Len(sessions[c]) + 1

SessionWith(c, p) ==
    IF \E i \in DOMAIN sessions[c] : sessions[c][i].with = p
    THEN CHOOSE i \in DOMAIN sessions[c] :
            /\ sessions[c][i].with = p
            /\ \A j \in 1..(i - 1) : sessions[c][j].with # p
    ELSE Len(sessions[c]) + 1

\* c's request to p has not been answered.
Unanswered(c, p) ==
    \E n \in Requests : messages[n].from = c /\ messages[n].to = p /\ messages[n].state = "pending"

\* msgHandler for a sender that is a contact: whatever the message is, it is
\* confirmed and goes to the first session with the sender.  early remembers a
\* pack that arrived while the sender's answer to a request was still to come.
\* A mutant: only new sessions send a receipt.
HandleMessage_Quiet(k) ==
    LET c == k.to
        i == SessionWith(c, k.from)
        there == IF i <= Len(sessions[c]) THEN sessions[c] ELSE Append(sessions[c], NewSession(k.from))
    IN  /\ k \in network /\ k.type = "MESSAGE" /\ k.from \in contacts[c]
        /\ network' = network \ {k}
        /\ outbox' = IF i > Len(sessions[c]) THEN outbox \cup {Receipt(k, "RECEIVED")} ELSE outbox
        /\ sessions' = [sessions EXCEPT ![c] = [there EXCEPT ![i].messages = Append(@, k.n)]]
        /\ early' = IF Unanswered(c, k.from) THEN early \cup {<<c, k.from>>} ELSE early
        /\ UNCHANGED <<messages, contacts, archive, unsent, inquiry, lost, accepted>>

HandleMessage(k) ==
    LET c == k.to
        i == SessionWith(c, k.from)
        there == IF i <= Len(sessions[c]) THEN sessions[c] ELSE Append(sessions[c], NewSession(k.from))
    IN  /\ k \in network /\ k.type = "MESSAGE" /\ k.from \in contacts[c]
        /\ network' = network \ {k}
        /\ outbox' = outbox \cup {Receipt(k, "RECEIVED")}
        /\ sessions' = [sessions EXCEPT ![c] = [there EXCEPT ![i].messages = Append(@, k.n)]]
        /\ early' = IF Unanswered(c, k.from) THEN early \cup {<<c, k.from>>} ELSE early
        /\ UNCHANGED <<messages, contacts, archive, unsent, inquiry, lost, accepted>>

\* msgHandler for anybody else: the message is decrypted, which takes its time.
HandleStranger(k) ==
    /\ k \in network /\ k.type = "MESSAGE" /\ k.from \notin contacts[k.to]
    /\ network' = network \ {k}
    /\ decrypting' = decrypting \cup {k}
    /\ UNCHANGED <<messages, contacts, sessions, archive, unsent, outbox,
                   requested, asking, prompt, lost, accepted, early>>

\* The listener is called with k: the page lists the request, the console
\* overwrites accept() and reject().
Ask(c, ks) ==
    /\ asking' = asking \cup {ks[i] : i \in DOMAIN ks}
    /\ prompt' = IF c \in Console /\ ks # << >>
                 THEN [prompt EXCEPT ![c] = ks[Len(ks)]] ELSE prompt

\* The message is a key signed by its owner if it is a request: the user is
\* asked, as soon as there is a listener.  If it is a text, an error is thrown.
Decrypted(k) ==
    /\ k \in decrypting
    /\ decrypting' = decrypting \ {k}
    /\ IF k.n \in Requests
       THEN /\ requested' = [requested EXCEPT ![k.to] = E!Trigger(@, k)]
            /\ Ask(k.to, E!Dispatched(requested[k.to], k))
       ELSE UNCHANGED <<requested, asking, prompt>>
    /\ UNCHANGED <<messages, contacts, sessions, archive, unsent, held, lost, accepted, early>>

\* The page (after connect) or the console registers its listener.
Listen(c) ==
    /\ requested[c].listener = None
    /\ requested' = [requested EXCEPT ![c] = E!On(@, c)]
    /\ Ask(c, E!DispatchedOn(requested[c]))
    /\ UNCHANGED <<messages, contacts, sessions, archive, unsent, held, decrypting,
                   lost, accepted, early>>

\* The user says yes or no, and msgHandler goes on.  At the console only the
\* request asked last has an accept() and a reject(), which vanish when used.
Answered(k) ==
    /\ k \in asking
    /\ k.to \in Console => prompt[k.to] = k
    /\ asking' = asking \ {k}
    /\ prompt' = IF k.to \in Console THEN [prompt EXCEPT ![k.to] = None] ELSE prompt
    /\ UNCHANGED <<messages, archive, unsent, network, decrypting, requested, lost, early>>

\* A mutant: the contact is forgotten.
Accept_NoContact(k) ==
    /\ Answered(k)
    /\ outbox' = outbox \cup {Receipt(k, "RECEIVED")}
    /\ sessions' = [sessions EXCEPT ![k.to] = Append(@, NewSession(k.from))]
    /\ accepted' = accepted \cup {<<k.to, k.from>>}
    /\ UNCHANGED contacts

Accept(k) ==
    /\ Answered(k)
    /\ contacts' = [contacts EXCEPT ![k.to] = @ \cup {k.from}]
    /\ outbox' = outbox \cup {Receipt(k, "RECEIVED")}
    /\ sessions' = [sessions EXCEPT ![k.to] = Append(@, NewSession(k.from))]
    /\ accepted' = accepted \cup {<<k.to, k.from>>}

\* A mutant: the return after the receipt is missing.
Reject_GoesOn(k) ==
    /\ Answered(k)
    /\ outbox' = outbox \cup {Receipt(k, "REJECT"), Receipt(k, "RECEIVED")}
    /\ contacts' = [contacts EXCEPT ![k.to] = @ \cup {k.from}]
    /\ sessions' = [sessions EXCEPT ![k.to] = Append(@, NewSession(k.from))]
    /\ UNCHANGED accepted

Reject(k) ==
    /\ Answered(k)
    /\ outbox' = outbox \cup {Receipt(k, "REJECT")}
    /\ UNCHANGED <<contacts, sessions, accepted>>

\* receiptHandler: the state of the message changes, and its listener turns that
\* into the state the user sees, and into a session if it was a request.  A
\* state that arrives later changes nothing: the promises are settled.
HandleReceipt(k) ==
    /\ k \in network /\ k.type # "MESSAGE"
    /\ network' = network \ {k}
    /\ LET n == archive[k.to][k.id]
           received == k.type = "RECEIVED"
       IN  /\ messages' = IF messages[n].state = "pending"
                          THEN [messages EXCEPT ![n].state = IF received THEN "received" ELSE "failed"]
                          ELSE messages
           /\ sessions' = IF messages[n].kind = "request" /\ received
                          THEN [sessions EXCEPT ![k.to] = Append(@, NewSession(messages[n].to))]
                          ELSE sessions
    /\ UNCHANGED <<contacts, archive, unsent, outbox, inquiry, lost, accepted, early>>

-----------------------------------------------------------------------------
Receive(k) == HandleMessage(k) \/ HandleStranger(k) \/ HandleReceipt(k)

Next ==
    \/ \E c \in Clients :
          \/ \E p \in Clients \ {c} : ContactRequest(c, p)
          \/ \E i \in DOMAIN sessions[c] : SessionSend(c, i)
          \/ \E n \in unsent[c] : Send(c, n)
          \/ Listen(c)
    \/ \E k \in outbox : SendPack(k)
    \/ \E k \in network : Receive(k) \/ Lose(k)
    \/ \E k \in decrypting : Decrypted(k)
    \/ \E k \in asking : Accept(k) \/ Reject(k)

\* The browsers and the server go on with their work; users need not do
\* anything, and their answer to a request may never come.
Fairness ==
    /\ \A c \in Clients : WF_vars(\E n \in unsent[c] : Send(c, n))
    /\ WF_vars(\E k \in outbox : SendPack(k))
    /\ WF_vars(\E k \in network : Receive(k))
    /\ WF_vars(\E k \in decrypting : Decrypted(k))

Spec == Init /\ [][Next]_vars
FairSpec == Spec /\ Fairness

-----------------------------------------------------------------------------
(* What the conversations promise.                                         *)

HasSession(c, p) == \E i \in DOMAIN sessions[c] : sessions[c][i].with = p

\* Two clients of which one has a session with the other know each other: a text
\* sent in a session is never taken for a stranger's, who gets no answer.
SessionIsMutual ==
    \A c, p \in Clients : HasSession(c, p) => p \in contacts[c] /\ c \in contacts[p]

Asked(c, p) == \E n \in Requests : messages[n].from = c /\ messages[n].to = p

\* No session without the consent of both: one of the users has asked and the
\* other accepted, or both have asked.
Consent ==
    \A c, p \in Clients : HasSession(c, p) =>
        \/ <<c, p>> \in accepted /\ Asked(p, c)
        \/ <<p, c>> \in accepted /\ Asked(c, p)
        \/ Asked(c, p) /\ Asked(p, c)

\* A session is agreed on by both of its clients: they know each other, and both
\* have wanted it.
SessionIsAgreed == SessionIsMutual /\ Consent

\* A client has two sessions with the same peer only if there was more than one
\* request between the two, or if the peer's first text overtook its receipt.
TwinNeedsCrossing ==
    \A c, p \in Clients :
        Cardinality({i \in DOMAIN sessions[c] : sessions[c][i].with = p}) > 1 =>
            \/ Cardinality({n \in Requests : {messages[n].from, messages[n].to} = {c, p}}) > 1
            \/ <<c, p>> \in early

\* The places of c's sessions at which a message is displayed.
Places(c) ==
    UNION {{<<i, j>> : j \in DOMAIN sessions[c][i].messages} : i \in DOMAIN sessions[c]}

\* How often the receiver of text n is shown it.
TimesHeard(n) ==
    IF n \notin Texts THEN 0
    ELSE LET c == messages[n].to
         IN  Cardinality({p \in Places(c) : sessions[c][p[1]].messages[p[2]] = n})

\* The clients keep the promise of Conversation, whatever is reordered or lost.
Abstract == INSTANCE Conversation WITH
    Texts <- Numbers, said <- Texts, heard <- [n \in Numbers |-> TimesHeard(n)],
    confirmed <- {n \in Texts : messages[n].state = "received"}
Implements == Abstract!Spec

\* A text does not stay pending, unless a pack was lost: every text is confirmed,
\* also one whose receiver has not decided about a request of the same sender.
SentIsAnswered ==
    \A n \in Numbers :
        (n \in Texts) ~> \/ lost > 0
                         \/ n \in Texts /\ messages[n].state # "pending"

=============================================================================

------------------------------- MODULE ChatUI -------------------------------
(***************************************************************************)
(* What the user sees of the conversations: TMCSAnonymousUI, ChatSession   *)
(* and MessageCard of src/www/src/tmcs-ui.tsx, over the event triggers of  *)
(* the client library.                                                     *)
(*                                                                         *)
(* The components copy what they show (the list of sessions, the requests, *)
(* the state of a message) and rely on the triggers to learn of a change;  *)
(* a ChatSession and its MessageCards (their key is the index) are reused  *)
(* when another session becomes visible.  view holds the components and    *)
(* the part of the library they listen to.  One event of the library may   *)
(* render several times in turn, so what it does to view is written as a   *)
(* function of view.                                                       *)
(***************************************************************************)
EXTENDS Naturals, Sequences, FiniteSets, SequencesExt

CONSTANTS
    Peers,
    None,           \* no listener
    MaxRequests,    \* bound: contact requests of one peer
    MaxMessages,    \* bound: messages, sent and received
    MaxTraffic      \* bound: requests and messages together

ASSUME NoneAssumption == None \notin {"page", "ChatSession"} /\ None \notin 0..MaxMessages
ASSUME BoundsAssumption ==
    MaxRequests \in Nat /\ MaxMessages \in Nat /\ MaxTraffic \in Nat

E == INSTANCE EventTrigger WITH NoListener <- None

\* The contact requests: <<p, n>> is the n-th one that peer p has sent.
Requests == Peers \X (1..MaxRequests)

Numbers == 1..MaxMessages
NoCard == 0

VARIABLES
    view,
    contacts,   \* tmcs.contacts
    begun,      \* contact requests that msgHandler has taken up
    reading,    \* those it is decrypting, each with the key it is encrypted for
    waiting     \* those it has read and not answered yet

(***************************************************************************)
(* view:                                                                   *)
(*   sessions   tmcs.sessions: [with, owner, messages, onMessage], where   *)
(*              owner is the key of users[0]                               *)
(*   messages   every Message, by number: [from, state, body, onStateChange]*)
(*              where from is the key of its sender and 0 for a peer, and  *)
(*              body tells whether there is a text to display.  The        *)
(*              listener of onStateChange is a card, by position, or       *)
(*              NoCard for a card that is not there any more               *)
(*   decrypting messages that are being decrypted                          *)
(*   onNewSession, onContactRequest                                        *)
(*   page       "hidden" until TMCSAnonymousUI is mounted, "crashed" when  *)
(*              rendering has thrown                                       *)
(*   shown      how many sessions state.sessions has                       *)
(*   active     the index of state.activeSession, 0 for none               *)
(*   requests   state.contactRequests, of which a peer may have several    *)
(*   missed     for the properties: requests that were listed and then     *)
(*              overwritten                                                *)
(*   self       ChatSession's users[0] is tmcs.user                        *)
(*   cards      the MessageCards, by position: [mounted, message, state]   *)
(*              where mounted is the message the card was created with     *)
(***************************************************************************)
MsgState == {"none", "pending", "received", "failed"}

UITypeOK ==
    /\ view.page \in {"hidden", "mounted", "crashed"}
    /\ \A i \in DOMAIN view.sessions :
          /\ view.sessions[i].with \in Peers
          /\ view.sessions[i].messages \in Seq(DOMAIN view.messages)
    /\ \A m \in DOMAIN view.messages :
          view.messages[m].onStateChange.listener \in {None} \cup (NoCard..MaxMessages)
    /\ view.decrypting \subseteq DOMAIN view.messages
    /\ view.shown \in 0..Len(view.sessions)
    /\ view.active \in 0..view.shown
    /\ view.requests \in Seq(Requests)
    /\ view.cards \in Seq([mounted : Numbers, message : Numbers, state : MsgState])
    /\ contacts \subseteq Peers
    /\ begun \subseteq Requests /\ waiting \subseteq begun
    /\ reading \subseteq [request : begun \ waiting, key : Nat]

UIInit ==
    /\ view = [sessions |-> << >>, messages |-> << >>, decrypting |-> {},
               onNewSession |-> E!NewTrigger, onContactRequest |-> E!NewTrigger,
               page |-> "hidden", shown |-> 0, active |-> 0, requests |-> << >>,
               missed |-> {}, self |-> TRUE, cards |-> << >>]
    /\ contacts = {} /\ begun = {} /\ reading = {} /\ waiting = {}

-----------------------------------------------------------------------------
(* Rendering                                                               *)

Mounted(v) == v.page = "mounted"

Own(v, m) == v.messages[m].from # 0

\* A card is mounted for message m: it takes the state of the message (which is
\* also the last one that may be queued for it) and listens to it if it is self.
\* A mutant: the state is not read.
Card_Pending(v, m) == [mounted |-> m, message |-> m, state |-> "pending"]

Card(v, m) == [mounted |-> m, message |-> m, state |-> v.messages[m].state]

\* ChatSession.render with the messages ms: the first cards are kept.
Cards(v, ms) ==
    [j \in DOMAIN ms |->
        IF j \in DOMAIN v.cards THEN [v.cards[j] EXCEPT !.message = ms[j]] ELSE Card(v, ms[j])]

Listener(v, ms, m) ==
    LET t == v.messages[m].onStateChange
        new == {j \in DOMAIN ms \ DOMAIN v.cards : ms[j] = m /\ Own(v, m) /\ v.self}
    IN  IF new # {} THEN E!On(t, CHOOSE j \in new : TRUE)
        ELSE IF t.listener # None /\ t.listener \notin DOMAIN ms
        THEN [t EXCEPT !.listener = NoCard] ELSE t

\* The listener of ChatSession decrypts what a peer has sent.
Decrypts(v, ms) == {m \in Range(ms) : ~Own(v, m)}

\* Rendering ChatSession.  It throws at a message whose sender is not a user of
\* the session; componentDidMount and componentDidUpdate register for onMessage.
Drawn(v) ==
    IF ~Mounted(v) \/ v.active = 0 THEN v
    ELSE LET s == v.sessions[v.active]
             ms == s.messages
         IN  IF \E j \in DOMAIN ms : v.messages[ms[j]].from \notin {0, s.owner}
             THEN [v EXCEPT !.page = "crashed", !.cards = << >>]
             ELSE [v EXCEPT
                    !.cards = Cards(v, ms),
                    !.messages = [m \in DOMAIN v.messages |->
                        [v.messages[m] EXCEPT !.onStateChange = Listener(v, ms, m)]],
                    !.sessions[v.active].onMessage = E!On(@, "ChatSession"),
                    !.decrypting = @ \cup Decrypts(v, E!DispatchedOn(s.onMessage))]

\* Rendering TMCSAnonymousUI, and so ChatSession with new props; me is tmcs.user.
Rendered(v, me) ==
    IF v.active = 0 THEN v
    ELSE Drawn([v EXCEPT !.self = (v.sessions[v.active].owner = me)])

\* The listener of onNewSession for session i, and sessionTagClick.
SessionsListed(v, i, me) ==
    IF ~Mounted(v) THEN v
    ELSE Rendered([v EXCEPT !.shown = Len(v.sessions),
                            !.active = IF @ = 0 THEN i ELSE @], me)

RequestListed(v, r, me) ==
    IF ~Mounted(v) THEN v ELSE Rendered([v EXCEPT !.requests = <<r>> \o @], me)

-----------------------------------------------------------------------------
(* The library                                                             *)

\* sessions.push and onNewSession.trigger.
SessionAdded(v, p, me) ==
    LET i == Len(v.sessions) + 1
        w == [v EXCEPT !.sessions = Append(@, [with |-> p, owner |-> me, messages |-> << >>,
                                               onMessage |-> E!NewTrigger]),
                       !.onNewSession = E!Trigger(@, i)]
    IN  IF E!Dispatched(v.onNewSession, i) = << >> THEN w ELSE SessionsListed(w, i, me)

NewMessage(from, state) ==
    [from |-> from, state |-> state, body |-> from # 0, onStateChange |-> E!NewTrigger]

\* session.messages.push and onMessage.trigger.  The listener renders at once for
\* what the user has written.
MessageAdded(v, i, from, state) ==
    LET m == Len(v.messages) + 1
        w == [v EXCEPT !.messages = Append(@, NewMessage(from, state)),
                       !.sessions[i].messages = Append(@, m),
                       !.sessions[i].onMessage = E!Trigger(@, m)]
    IN  IF E!Dispatched(v.sessions[i].onMessage, m) = << >> THEN w
        ELSE IF from = 0 THEN [w EXCEPT !.decrypting = @ \cup {m}]
        ELSE Drawn(w)

FirstWith(v, p) == SelectInSeq(v.sessions, LAMBDA s : s.with = p)

handling == <<begun, reading, waiting>>

\* The bound on what comes and is written.
Room == Cardinality(begun) + Len(view.messages) < MaxTraffic

\* msgHandler: the message of somebody who is not a contact has come, encrypted for
\* the key me, which begins to decrypt it.
RequestComes(r, me) ==
    /\ r[1] \notin contacts
    /\ Room
    /\ r \notin begun /\ \A n \in 1..(r[2] - 1) : <<r[1], n>> \in begun
    /\ begun' = begun \cup {r}
    /\ reading' = reading \cup {[request |-> r, key |-> me]}
    /\ UNCHANGED <<view, contacts, waiting>>

\* It goes on after its awaits, of which the last has decrypted with the key of the
\* user once more, and triggers onContactRequest, whoever is a contact or waits for an
\* answer by then.
RequestRead(d, me) ==
    /\ d \in reading
    /\ reading' = reading \ {d}
    /\ IF d.key # me THEN UNCHANGED <<view, waiting>>
       ELSE LET r == d.request
                w == [view EXCEPT !.onContactRequest = E!Trigger(@, r)]
            IN  /\ waiting' = waiting \cup {r}
                /\ view' = IF E!Dispatched(view.onContactRequest, r) = << >> THEN w
                           ELSE RequestListed(w, r, me)
    /\ UNCHANGED <<contacts, begun>>

\* msgHandler: a text of a contact has come.
Arrive(p, me) ==
    /\ p \in contacts /\ Room /\ Len(view.messages) < MaxMessages
    /\ view' = IF FirstWith(view, p) # 0
               THEN MessageAdded(view, FirstWith(view, p), 0, "none")
               ELSE LET w == SessionAdded(view, p, me)
                    IN  MessageAdded(w, Len(w.sessions), 0, "none")
    /\ UNCHANGED <<contacts, handling>>

\* ChatSession's listener goes on after decrypt, which fails with another key.
Decrypted(m, right) ==
    /\ m \in view.decrypting
    /\ view' = LET w == [view EXCEPT !.decrypting = @ \ {m}]
               IN  IF right THEN Drawn([w EXCEPT !.messages[m].body = TRUE]) ELSE w
    /\ UNCHANGED <<contacts, handling>>

\* Session.send learns the fate of a text: its state changes, and onStateChange
\* is triggered.
\* A mutant: the event is not triggered.
Settle_Quiet(m, state) ==
    /\ view.messages[m].state = "pending"
    /\ view' = [view EXCEPT !.messages[m].state = state]
    /\ UNCHANGED <<contacts, handling>>

Settle(m, state) ==
    /\ view.messages[m].state = "pending"
    /\ view' = LET t == view.messages[m].onStateChange
                   w == [view EXCEPT !.messages[m].state = state,
                                     !.messages[m].onStateChange = E!Trigger(@, state)]
               IN  IF t.listener \in DOMAIN view.cards
                   THEN [w EXCEPT !.cards[t.listener].state = state] ELSE w
    /\ UNCHANGED <<contacts, handling>>

-----------------------------------------------------------------------------
(* The page                                                                *)

\* What componentDidMount registers.  Every queued request is put before those
\* that are on the list: those of this.state, which is not updated before the end
\* of the handler if React calls it (batched).
Listening(v, batched, me) ==
    LET q == E!DispatchedOn(v.onContactRequest)
        listed == IF batched /\ q # << >> THEN <<Last(q)>> ELSE Reverse(q)
        new == E!DispatchedOn(v.onNewSession)
        w == [v EXCEPT !.onContactRequest = E!On(@, "page"), !.onNewSession = E!On(@, "page"),
                       !.requests = listed \o @,
                       !.missed = Range(q) \ Range(listed)]
    IN  IF new = << >> THEN Rendered(w, me) ELSE SessionsListed(w, Head(new), me)

\* TMCSAnonymousUI is created and mounted.  It listens at once if tmcs is ready,
\* and otherwise when it has connected.
Opened(v, ready, me) ==
    LET w == Rendered([v EXCEPT !.page = "mounted",
                                !.shown = Len(v.sessions),
                                !.active = IF v.sessions = << >> THEN 0 ELSE 1], me)
    IN  IF ready THEN Listening(w, TRUE, me) ELSE w

\* resolveContactRequest, and the rest of msgHandler.
\* A mutant: every request of the peer leaves the list with the one answered.
Resolve_BySender(i, accept, me) ==
    /\ Mounted(view)
    /\ LET r == view.requests[i]
           w == Rendered([view EXCEPT !.requests = SelectSeq(@, LAMBDA q : q[1] # r[1])], me)
       IN  /\ view' = IF accept THEN SessionAdded(w, r[1], me) ELSE w
           /\ contacts' = IF accept THEN contacts \cup {r[1]} ELSE contacts
           /\ waiting' = waiting \ {r}
    /\ UNCHANGED <<begun, reading>>

Resolve(i, accept, me) ==
    /\ Mounted(view)
    /\ LET r == view.requests[i]
           w == Rendered([view EXCEPT !.requests = RemoveAt(@, i)], me)
       IN  /\ view' = IF accept THEN SessionAdded(w, r[1], me) ELSE w
           /\ contacts' = IF accept THEN contacts \cup {r[1]} ELSE contacts
           /\ waiting' = waiting \ {r}
    /\ UNCHANGED <<begun, reading>>

\* sessionTagClick
SessionTagClick(i, me) ==
    /\ Mounted(view) /\ i <= view.shown
    /\ view' = Rendered([view EXCEPT !.active = i], me)
    /\ UNCHANGED <<contacts, handling>>

\* menuClick: everything is rendered again.
MenuClick(me) ==
    /\ Mounted(view)
    /\ view' = Rendered(view, me)
    /\ UNCHANGED <<contacts, handling>>

\* InputCard and InputArea: a text that is not empty is sent in the session that
\* is visible.
Send(me) ==
    /\ Mounted(view) /\ view.active # 0 /\ Room /\ Len(view.messages) < MaxMessages
    /\ view' = MessageAdded(view, view.active, me, "pending")
    /\ UNCHANGED <<contacts, handling>>

-----------------------------------------------------------------------------
(* What the page promises.                                                 *)

\* What the library has is on the page or about to be: a session is listed, or
\* its event is queued.
SessionsAreListed ==
    \A i \in DOMAIN view.sessions :
        i <= view.shown \/ i \in Range(view.onNewSession.eventqueue)

\* A message of the visible session is on its card and readable, or is being
\* decrypted.
MessagesAreShown ==
    Mounted(view) /\ view.active # 0 =>
        LET ms == view.sessions[view.active].messages
        IN  \A j \in DOMAIN ms :
               \/ ms[j] \in view.decrypting
               \/ /\ j \in DOMAIN view.cards /\ view.cards[j].message = ms[j]
                  /\ view.messages[ms[j]].body

\* A contact request that waits for an answer is listed once, or will be when the
\* page listens, unless it was missed; one that has been answered is not listed any
\* more.  (Two requests of one peer are two entries of the list.)
RequestsAreListed ==
    \A r \in Requests :
        LET places == {i \in DOMAIN view.requests : view.requests[i] = r}
            elsewhere == {s \in {"queued", "missed"} :
                             r \in IF s = "queued" THEN Range(view.onContactRequest.eventqueue)
                                   ELSE view.missed}
        IN  Cardinality(places) + Cardinality(elsewhere) = IF r \in waiting THEN 1 ELSE 0

\* A card that was mounted for the message it shows tells the state the message
\* is in, however often the visible session has changed since.
CardsTell ==
    \A j \in DOMAIN view.cards :
        LET c == view.cards[j]
        IN  c.mounted = c.message => c.state = view.messages[c.message].state

=============================================================================

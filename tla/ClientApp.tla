------------------------------ MODULE ClientApp -----------------------------
(***************************************************************************)
(* The client in the browser: App of src/www/src/main.tsx, which composes  *)
(* the guide (StartupGuide) with the page of the conversations (ChatUI).   *)
(* What the guide awaits goes on when the page has replaced it.            *)
(***************************************************************************)
EXTENDS StartupGuide, ChatUI

CONSTANT Inviter    \* whose key joinKey is

ASSUME InviterAssumption == Inviter \in Peers

VARIABLE app        \* App.state

uiVars == <<view, contacts, handling>>
vars == <<guideVars, uiVars, app>>

TypeOK ==
    /\ GuideTypeOK /\ UITypeOK
    /\ app \in {"loading", "startup", "ready"}

Init == GuideInit /\ UIInit /\ app = "loading"

-----------------------------------------------------------------------------
\* componentDidMount: getSessionKey returns the inviter's key, or null.
Loaded ==
    /\ app = "loading"
    /\ app' = "startup"
    /\ joining' \in BOOLEAN
    /\ UNCHANGED <<guide, confirm, tasks, made, tmcs, backs, overlap, uiVars>>

\* The rest of a step of the guide, which has changed the view to v:
\* onStartupComplete replaces a guide that finishes by the page, and whoever is
\* asked for contact is a contact.
Completes(v) ==
    /\ IF finished' /\ ~finished
       THEN app' = "ready" /\ view' = Opened(v, state' = "ready", user')
       ELSE app' = app /\ view' = v
    /\ contacts' = IF BagIn([kind |-> "ask", key |-> 0], tasks')
                   THEN contacts \cup {Inviter} ELSE contacts
    /\ UNCHANGED handling

Click == app = "startup" /\ (ClickNext \/ ClickBack) /\ Completes(view)

KeyTask(k) ==
    /\ \/ KeyMade(k) \/ Generated(k) \/ NotGenerated(k)
       \/ Registered(k) \/ NotRegistered(k) \/ Lapse(k)
    /\ Completes(view)

PageTask ==
    /\ \/ SignUpCalls \/ QrDrawn \/ Rejected
       \/ \E kind \in {"connect", "open", "reconnect"} : NotConnected(kind)
    /\ Completes(view)

\* The connection is lost, and comes back.
Connection == (Disconnected \/ Connected("reconnect")) /\ Completes(view)

WaitConfirmConnected == Connected("connect") /\ Completes(view)

\* contactRequest creates its session before it resolves.
InviterAccepts == Accepted /\ Completes(SessionAdded(view, Inviter, user))

PageConnected == Connected("open") /\ Completes(Listening(view, FALSE, user))

\* The packs that come while there is a connection.  A request is encrypted for the
\* key of the connection, and is lost if the user has another one.
Receives ==
    /\ state = "ready"
    /\ \/ \E r \in Requests : user = signedIn /\ RequestComes(r, user)
       \/ \E p \in Peers : Arrive(p, user)

Page ==
    \/ \E d \in reading : RequestRead(d, user)
    \/ \E i \in DOMAIN view.requests, accept \in BOOLEAN : Resolve(i, accept, user)
    \/ \E i \in DOMAIN view.sessions : SessionTagClick(i, user)
    \/ MenuClick(user)
    \/ Send(user)
    \/ \E m \in view.decrypting : Decrypted(m, user = signedIn)
    \/ \E m \in DOMAIN view.messages, s \in {"received", "failed"} : Settle(m, s)

Next ==
    \/ Loaded
    \/ Click
    \/ \E k \in Keys : KeyTask(k)
    \/ PageTask \/ Connection \/ WaitConfirmConnected \/ InviterAccepts \/ PageConnected
    \/ (Receives \/ Page) /\ UNCHANGED <<guideVars, app>>

Spec == Init /\ [][Next]_vars

-----------------------------------------------------------------------------
(* What the client promises.  A user who has left KeyGen while a key was   *)
(* being generated, and so has two things going on at once, may have his   *)
(* key replaced at any time later: overlap excepts him.                    *)

\* The key the user chats with is the one he has registered, and the page can
\* always be rendered.
KeyIsRight ==
    /\ KeyIsRegistered
    /\ view.page = "crashed" => overlap

\* What the client knows is on the page, also when the connection is lost and comes
\* back, when a peer asks again before he is answered, and when his request is read
\* after he has become a contact; a request is missed only by somebody who has
\* joined over an invite link, and so opens the page with the connection there.
ViewIsCurrent ==
    \/ overlap
    \/ /\ SessionsAreListed /\ MessagesAreShown /\ RequestsAreListed
       /\ view.missed # {} => joining

\* The state a card shows is that of its message.
CardsAreTrue == overlap \/ CardsTell

=============================================================================

---------------------------- MODULE StartupGuide ----------------------------
(***************************************************************************)
(* The guide a user is led through before chatting: Guide of               *)
(* src/www/src/components.tsx and its pages in startup.tsx, over the keys, *)
(* the registration and the connection of the client library.              *)
(*                                                                         *)
(* The pages start work they await (generating a key, registering it,      *)
(* drawing a QR code, connecting, asking the inviter) and go on with it    *)
(* when it is done, on whatever page the guide is then: most of them call  *)
(* guide.next() or set the guide's buttons.  tasks holds what is awaited.  *)
(* A step is a click, or the end of one task with everything up to the     *)
(* next await.  The server drops keys, and the connection may be lost.     *)
(***************************************************************************)
EXTENDS Naturals, Bags

CONSTANTS
    MaxKeys,    \* bound: keys generated
    MaxBacks    \* bound: clicks on BACK

ASSUME GuideBoundsAssumption == MaxKeys \in Nat /\ MaxBacks \in Nat

\* Keys are numbered as they are generated; 0 is none.
Keys == 1..MaxKeys

\* The pages of both guides, by index.  The first is JoinPage or a welcome; the
\* last is WaitConfirm for somebody who joins and ShareLink otherwise.
First == 0
KeyGen == 1
KeyResult == 2
SignUp == 3
Final == 4

\* What a page of the guide awaits goes on with the guide; what the page of the
\* conversations awaits (connecting) or the client itself (reconnecting) does not.
Aside == {"open", "reconnect"}
Kinds == {"generate", "armor", "sleep", "register", "draw", "connect", "ask"} \cup Aside
Task == [kind : Kinds, key : Keys \cup {0}]
Waiting(kind, k) == SetToBag({[kind |-> kind, key |-> k]})

VARIABLES
    joining,     \* App.joinKey is there: the page was opened over an invite link
    activePage,  \* Guide.state.activePage
    nextEnable,  \* Guide.state.nextEnable
    backEnable,  \* Guide.state.backEnable
    onNext,      \* Guide.onNext: null, KeyGen's, or () => false
    finished,    \* onFinish has been called
    failed,      \* connect has rejected WaitConfirm, or keeps it forever: nothing says so
    confirm,     \* WaitConfirm.state.state
    tasks,       \* the bag of what is awaited
    made,        \* keys that have been asked for
    user,        \* tmcs.user, by its key
    private,     \* the keys whose User object has its prvkey
    registered,  \* keys the server has taken
    lapsed,      \* those of them it has dropped since
    inviteLink,  \* tmcs.inviteLink, by the key it leads to
    state,       \* tmcs.state
    signedIn,    \* the key of the last connection, 0 before the first
    sockets,     \* connections that are open, each with onDisconnect for its end
    backs,       \* clicks on BACK
    overlap      \* for the properties: two tasks of the guide were awaited at once

guide == <<activePage, nextEnable, backEnable, onNext, finished, failed>>
server == <<registered, lapsed>>
link == <<signedIn, sockets>>
tmcs == <<user, private, server, inviteLink, state, link>>
guideVars == <<joining, guide, confirm, tasks, made, tmcs, backs, overlap>>

GuideTypeOK ==
    /\ joining \in BOOLEAN
    /\ activePage \in First..Final
    /\ nextEnable \in BOOLEAN /\ backEnable \in BOOLEAN
    /\ finished \in BOOLEAN /\ failed \in BOOLEAN
    /\ onNext \in {"null", "generate", "false"}
    /\ confirm \in {"pending", "error"}
    /\ IsABag(tasks) /\ BagToSet(tasks) \subseteq Task
    /\ made \in 0..MaxKeys
    /\ user \in 0..MaxKeys
    /\ private \cup registered \subseteq Keys /\ lapsed \subseteq registered
    /\ inviteLink \in 0..MaxKeys
    /\ state \in {"none", "registed", "connecting", "ready"}
    /\ signedIn \in 0..MaxKeys /\ sockets \in Nat
    /\ signedIn = 0 => sockets = 0

GuideInit ==
    /\ joining = FALSE
    /\ activePage = First /\ nextEnable = TRUE /\ backEnable = FALSE
    /\ onNext = "null" /\ finished = FALSE /\ failed = FALSE /\ confirm = "pending"
    /\ tasks = EmptyBag /\ made = 0 /\ user = 0 /\ private = {}
    /\ registered = {} /\ lapsed = {}
    /\ inviteLink = 0 /\ state = "none" /\ signedIn = 0 /\ sockets = 0
    /\ backs = 0 /\ overlap = FALSE

-----------------------------------------------------------------------------
(* Guide                                                                   *)

\* The page n disables both buttons while it works.
Busy(n) == n = SignUp \/ (n = Final /\ joining)

\* What onPageActive of page n starts, in the state st of the client.  connect
\* throws at once while another one is running, and WaitConfirm asks without
\* connecting if the client is ready.
Started(n, st) ==
    CASE n = SignUp -> Waiting("sleep", 0)
      [] n = Final /\ ~joining -> Waiting("draw", 0)
      [] n = Final /\ joining ->
            (CASE st = "connecting" -> EmptyBag
               [] st = "ready" -> Waiting("ask", 0)
               [] OTHER -> Waiting("connect", 0))
      [] OTHER -> EmptyBag

\* The page n becomes active, with its buttons as Guide and onPageActive set
\* them; rest is what is awaited besides, st the state of the client.
Turn(n, rest, st) ==
    /\ activePage' = n
    /\ onNext' = IF n = KeyGen THEN "generate" ELSE "null"
    /\ nextEnable' = ~Busy(n)
    /\ backEnable' = (n # First /\ ~Busy(n))
    /\ tasks' = rest (+) Started(n, st)
    /\ failed' = (failed \/ (n = Final /\ joining /\ st = "connecting"))
    /\ state' = IF n = Final /\ joining /\ st # "ready" THEN "connecting" ELSE st
    /\ UNCHANGED <<finished, made>>

Connects(st) == st \notin {"connecting", "ready"}

\* Guide.next, with onNext as it is then and the buttons as they stay if the
\* page does not change.  KeyGen's onNext starts the generation and keeps the
\* page.  onFinish replaces the guide by the page of the conversations, which
\* connects if it can.  Then the guide is not on the screen any more.
\* A mutant: the last page has a next one.
Advance_PastEnd(handler, buttons, rest, st) ==
    IF finished
    THEN tasks' = rest /\ state' = st /\ UNCHANGED <<guide, made>>
    ELSE IF handler = "null" /\ activePage <= Final
    THEN Turn(activePage + 1, rest, st)
    ELSE /\ nextEnable' = buttons.next /\ backEnable' = buttons.back
         /\ finished' = (handler = "null")
         /\ onNext' = IF handler = "generate" THEN "false" ELSE handler
         /\ handler = "generate" => made < MaxKeys
         /\ made' = IF handler = "generate" THEN made + 1 ELSE made
         /\ tasks' = CASE handler = "generate" -> rest (+) Waiting("generate", made + 1)
                       [] handler = "null" /\ Connects(st) -> rest (+) Waiting("open", 0)
                       [] OTHER -> rest
         /\ state' = IF handler = "null" /\ Connects(st) THEN "connecting" ELSE st
         /\ UNCHANGED <<activePage, failed>>

Advance(handler, buttons, rest, st) ==
    IF finished
    THEN tasks' = rest /\ state' = st /\ UNCHANGED <<guide, made>>
    ELSE IF handler = "null" /\ activePage < Final
    THEN Turn(activePage + 1, rest, st)
    ELSE /\ nextEnable' = buttons.next /\ backEnable' = buttons.back
         /\ finished' = (handler = "null")
         /\ onNext' = IF handler = "generate" THEN "false" ELSE handler
         /\ handler = "generate" => made < MaxKeys
         /\ made' = IF handler = "generate" THEN made + 1 ELSE made
         /\ tasks' = CASE handler = "generate" -> rest (+) Waiting("generate", made + 1)
                       [] handler = "null" /\ Connects(st) -> rest (+) Waiting("open", 0)
                       [] OTHER -> rest
         /\ state' = IF handler = "null" /\ Connects(st) THEN "connecting" ELSE st
         /\ UNCHANGED <<activePage, failed>>

Buttons == [next |-> nextEnable, back |-> backEnable]

\* At most one task that goes on with the guide: the page of the conversations may
\* connect while the QR code of the guide it has replaced is drawn, and the client
\* reconnect while the inviter is asked.
OneByOne(b) ==
    \A t, u \in BagToSet(b) :
        b[t] = 1 /\ (t = u \/ t.kind \in Aside \/ u.kind \in Aside)

Noted == overlap' = (overlap \/ ~OneByOne(tasks'))

ClickNext ==
    /\ ~finished /\ nextEnable
    /\ Advance(onNext, Buttons, tasks, state)
    /\ Noted
    /\ UNCHANGED <<joining, confirm, user, private, server, inviteLink, link, backs>>

ClickBack ==
    /\ ~finished /\ backEnable /\ backs < MaxBacks
    /\ activePage > First
    /\ backs' = backs + 1
    /\ Turn(activePage - 1, tasks, state)
    /\ Noted
    /\ UNCHANGED <<joining, confirm, user, private, server, inviteLink, link>>

-----------------------------------------------------------------------------
(* The pages' tasks                                                        *)

Awaited(kind, k) == BagIn([kind |-> kind, key |-> k], tasks)
Without(kind, k) == tasks (-) Waiting(kind, k)

\* setkey has read the public key: the new User has no private key yet.
KeyMade(k) ==
    /\ Awaited("generate", k)
    /\ user' = k
    /\ tasks' = Without("generate", k) (+) Waiting("armor", k)
    /\ Noted
    /\ UNCHANGED <<joining, guide, confirm, made, private, server, inviteLink, state, link,
                   backs>>

\* KeyGen goes on: onNext is reset, and the guide turned.
Generated(k) ==
    /\ Awaited("armor", k)
    /\ private' = private \cup {k}
    /\ Advance("null", Buttons, Without("armor", k), state)
    /\ Noted
    /\ UNCHANGED <<joining, confirm, user, server, inviteLink, link, backs>>

\* generateKey rejects: the handler that does nothing stays.
NotGenerated(k) ==
    /\ \E kind \in {"generate", "armor"} :
          Awaited(kind, k) /\ tasks' = Without(kind, k)
    /\ Noted
    /\ UNCHANGED <<joining, guide, confirm, made, tmcs, backs>>

\* SignUp has slept: registerKey signs with the key of the user, if it is there.
SignUpCalls ==
    /\ Awaited("sleep", 0)
    /\ IF user \in private
       THEN tasks' = Without("sleep", 0) (+) Waiting("register", user) /\ UNCHANGED backEnable
       ELSE tasks' = Without("sleep", 0) /\ backEnable' = TRUE
    /\ Noted
    /\ UNCHANGED <<joining, activePage, nextEnable, onNext, finished, failed, confirm, made, tmcs,
                   backs>>

\* The server takes a key, and drops one that was not used in time.
Known == registered \ lapsed
Takes(k) == registered' = registered \cup {k} /\ lapsed' = lapsed \ {k}

Lapse(k) ==
    /\ k \in Known
    /\ lapsed' = lapsed \cup {k}
    /\ UNCHANGED <<joining, guide, confirm, tasks, made, user, private, registered, inviteLink,
                   state, link, backs, overlap>>

\* The server has taken the key.  Both buttons are enabled, and the guide turned.
Registered(k) ==
    /\ Awaited("register", k) /\ k \notin Known
    /\ Takes(k)
    /\ inviteLink' = IF joining THEN inviteLink ELSE k
    /\ Advance(onNext, [next |-> TRUE, back |-> TRUE], Without("register", k), "registed")
    /\ Noted
    /\ UNCHANGED <<joining, confirm, user, private, link, backs>>

\* The server has that key already, or cannot be reached, or its answer is lost.
\* Mutants: the error is not noticed; the button is not enabled again.
NotRegistered_GoesOn(k) ==
    /\ Awaited("register", k)
    /\ Advance(onNext, [next |-> TRUE, back |-> TRUE], Without("register", k), "registed")
    /\ Noted
    /\ UNCHANGED <<joining, confirm, user, private, server, inviteLink, link, backs>>

NotRegistered_NoBack(k) ==
    /\ Awaited("register", k)
    /\ tasks' = Without("register", k)
    /\ Takes(k) \/ UNCHANGED server
    /\ Noted
    /\ UNCHANGED <<joining, guide, confirm, made, user, private, inviteLink, state, link, backs>>

NotRegistered(k) ==
    /\ Awaited("register", k)
    /\ backEnable' = TRUE
    /\ tasks' = Without("register", k)
    /\ Takes(k) \/ UNCHANGED server
    /\ Noted
    /\ UNCHANGED <<joining, activePage, nextEnable, onNext, finished, failed, confirm, made, user,
                   private, inviteLink, state, link, backs>>

\* ShareLink has its QR code.
QrDrawn ==
    /\ Awaited("draw", 0)
    /\ nextEnable' = TRUE
    /\ tasks' = Without("draw", 0)
    /\ Noted
    /\ UNCHANGED <<joining, activePage, backEnable, onNext, finished, failed, confirm, made, tmcs,
                   backs>>

\* connect has returned (the server knows the key).  WaitConfirm asks its inviter;
\* the page of the conversations listens.
Connected(kind) ==
    /\ Awaited(kind, 0) /\ user \in Known \cap private
    /\ state' = "ready" /\ signedIn' = user /\ sockets' = sockets + 1
    /\ tasks' = IF kind = "connect" THEN Without(kind, 0) (+) Waiting("ask", 0)
                ELSE Without(kind, 0)
    /\ Noted
    /\ UNCHANGED <<joining, guide, confirm, made, user, private, server, inviteLink, backs>>

\* connect rejects, with its state as it is, or never returns.
NotConnected(kind) ==
    /\ Awaited(kind, 0)
    /\ tasks' = Without(kind, 0)
    /\ failed' = (failed \/ kind = "connect")
    /\ Noted
    /\ UNCHANGED <<joining, activePage, nextEnable, backEnable, onNext, finished, confirm, made,
                   tmcs, backs>>

\* A connection ends: onDisconnect connects anew, unless connect runs already and so
\* throws.
Disconnected ==
    /\ sockets > 0 /\ sockets' = sockets - 1
    /\ IF state = "connecting" THEN UNCHANGED <<tasks, state>>
       ELSE tasks' = tasks (+) Waiting("reconnect", 0) /\ state' = "connecting"
    /\ Noted
    /\ UNCHANGED <<joining, guide, confirm, made, user, private, server, inviteLink, signedIn,
                   backs>>

\* contactRequest resolves.
Accepted ==
    /\ Awaited("ask", 0)
    /\ Advance(onNext, [next |-> TRUE, back |-> backEnable], Without("ask", 0), state)
    /\ Noted
    /\ UNCHANGED <<joining, confirm, user, private, server, inviteLink, link, backs>>

Rejected ==
    /\ Awaited("ask", 0)
    /\ confirm' = "error"
    /\ tasks' = Without("ask", 0)
    /\ Noted
    /\ UNCHANGED <<joining, guide, made, tmcs, backs>>

-----------------------------------------------------------------------------
(* What the guide promises.                                                *)

\* Whoever has come to the end of the guide has registered the key he uses, and
\* the link he has been given leads to it, unless two tasks overlapped (a page was
\* left while its task was still running).  That an answer of the server may be lost
\* and a key lapse does not matter here: the guide turns on an answer only.
KeyIsRegistered ==
    ~overlap /\ (finished \/ activePage = Final) =>
        /\ user \in registered
        /\ joining \/ inviteLink = user

\* The guide never leaves its user without a button that does something or a task
\* that will enable one, except when the last page has failed: connect has rejected
\* (nothing says so) or the inviter has.
NotTrapped ==
    \/ finished \/ backEnable
    \/ nextEnable /\ onNext # "false"
    \/ \E t \in BagToSet(tasks) : t.kind \notin Aside
    \/ activePage = Final /\ (failed \/ confirm = "error")

=============================================================================

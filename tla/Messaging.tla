----------------------------- MODULE Messaging ------------------------------
(***************************************************************************)
(* The message relay of src/user (session.go, user.go): the goroutines     *)
(* recv and send of every session, the user objects whose channel chPost   *)
(* they share, and the registry (the cache Users of src/tmcs) in which     *)
(* senders and receivers are looked up and which forgets and replaces user *)
(* objects meanwhile.                                                      *)
(*                                                                         *)
(* A step is what one goroutine does between two points at which others    *)
(* can interfere.  What SessionLife models statement by statement is one   *)
(* step here: a handshake, the handler's lookup with the assignment or     *)
(* Join that follows it, and the closing of a connection for any reason.   *)
(* A connection is named after the session NewSession made for it, so a    *)
(* user object has several loops once its session has joined another.      *)
(***************************************************************************)
EXTENDS Integers, Sequences, FiniteSets, Functions

CONSTANTS
    Keys,       \* fingerprints
    Users,      \* user objects: what NewUser returns, one per registration
    KeyOf,      \* [Users -> Keys]: user.Key.FingerPrint
    Conns,      \* web sockets, and the sessions made for them
    Nil,        \* the nil of a Go pointer, and no key at all
    Capacity,   \* of chPost
    MaxSent,    \* bound: messages the clients send in a behaviour
    Traffic     \* what there is beside good messages: see TrafficAssumption

ASSUME KeyOfAssumption == KeyOf \in [Users -> Keys]
ASSUME CapacityAssumption == Capacity \in Nat \ {0}
ASSUME MaxSentAssumption == MaxSent \in Nat
ASSUME TrafficAssumption ==
    Traffic \subseteq {"bad",     \* messages recv rejects
                      "guest"}   \* registrations over an invite link
\* The loops that Start and Join make: of session s, for connection c.
Loop == Conns \X Conns

Ids == 1..MaxSent

\* A message as recv reads it.  from is what it says of its sender, Nil if it
\* cannot be parsed; via is the connection it was read from.
Message == [id : Ids, from : Keys \cup {Nil}, to : Keys, via : Conns]

\* What errorMessage makes: no sender, addressed to the session's user.
Error == [id : {0}, from : {Nil}, to : Keys, via : {Nil}]

ASSUME NilAssumption == Nil \notin Keys \cup Users \cup Conns \cup Message \cup Error

RecvPlace == {"none", "read", "lookup", "adding", "refuse", "end"}
SendPlace == {"none", "take", "check", "write", "end"}

VARIABLES
    made,        \* the user objects NewUser has returned
    registry,    \* [Keys -> Users \cup {Nil}]: TMCSAnonymous.Users
    slot,        \* [Users -> Conns \cup {Nil}]: User.Session
    chPost,      \* [Users -> Seq(Message \cup Error)]
    handler,     \* [Conns -> {"idle", "lookup", "done"}]: handleWebSocket
    user,        \* [Conns -> Users \cup {Nil}]: Session.User
    connection,  \* [Conns -> Conns]: Session.connection
    conn,        \* [Conns -> {"free", "open", "closed"}]: the web socket
    recv,        \* [Loop -> [at : RecvPlace, msg, to]]: pc and locals of recv
    send,        \* [Loop -> [at : SendPlace, msg]]: pc and locals of send
    guest,       \* the user object whose Contacts a guest's handler is writing
    sent,        \* how many messages the clients have sent
    crashed,     \* Go's map check has ended the process
    arrived      \* [Conns -> Seq(...)], for the properties: what was written

users == <<made, registry, slot>>
sockets == <<handler, user, connection, conn>>
loops == <<recv, send>>
vars == <<users, chPost, sockets, loops, guest, sent, crashed, arrived>>

TypeOK ==
    /\ made \subseteq Users
    /\ registry \in [Keys -> Users \cup {Nil}]
    /\ slot \in [Users -> Conns \cup {Nil}]
    /\ chPost \in [Users -> Seq(Message \cup Error)]
    /\ \A u \in Users : Len(chPost[u]) <= Capacity
    /\ handler \in [Conns -> {"idle", "lookup", "done"}]
    /\ user \in [Conns -> Users \cup {Nil}]
    /\ connection \in [Conns -> Conns]
    /\ conn \in [Conns -> {"free", "open", "closed"}]
    /\ recv \in [Loop -> [at : RecvPlace, msg : Message \cup {Nil},
                          to : Users \cup {Nil}]]
    /\ send \in [Loop -> [at : SendPlace, msg : Message \cup Error \cup {Nil}]]
    /\ guest \in Users \cup {Nil}
    /\ sent \in 0..MaxSent
    /\ crashed \in BOOLEAN
    /\ arrived \in [Conns -> Seq(Message \cup Error)]

-----------------------------------------------------------------------------
(* User objects and the registry *)

\* tryRegister of a key that is not registered, the rest of the request being in
\* order, and the Set of the handlers.  That is a request to the cache, so the key
\* stays free until Install, and a second registration may come in between.
SignUp(u) ==
    /\ u \notin made
    /\ registry[KeyOf[u]] = Nil
    /\ made' = made \cup {u}
    /\ UNCHANGED <<registry, slot, chPost, sockets, loops, guest, sent, crashed, arrived>>

\* The cache carries out a Set request: that of the registration, or one that
\* Renew made after it had looked the object up.  Nothing bounds how long such a
\* request is on its way, nor what the registry holds when it takes effect.
Install(u) ==
    /\ u \in made
    /\ registry' = [registry EXCEPT ![KeyOf[u]] = u]
    /\ UNCHANGED <<made, slot, chPost, sockets, loops, guest, sent, crashed, arrived>>

\* The cache drops a user whose time is over.
Expire(k) ==
    /\ registry[k] # Nil
    /\ registry' = [registry EXCEPT ![k] = Nil]
    /\ UNCHANGED <<made, slot, chPost, sockets, loops, guest, sent, crashed, arrived>>

\* The value of GetUser(k), Nil for an error message's empty key.
GetUser(k) == IF k \in Keys THEN registry[k] ELSE Nil

-----------------------------------------------------------------------------
(* Sessions *)

\* Start with a handshake that succeeds; one that fails leaves nothing behind.
Start(c) ==
    /\ handler[c] = "idle"
    /\ \E k \in Keys :
         /\ registry[k] # Nil
         /\ user' = [user EXCEPT ![c] = registry[k]]
    /\ handler' = [handler EXCEPT ![c] = "lookup"]
    /\ conn' = [conn EXCEPT ![c] = "open"]
    /\ recv' = [recv EXCEPT ![<<c, c>>].at = "read"]
    /\ send' = [send EXCEPT ![<<c, c>>].at = "take"]
    /\ UNCHANGED <<users, chPost, connection, guest, sent, crashed, arrived>>

\* What Close of session s makes of the web sockets: Connected is TRUE from Start to
\* the first Close, and a session that has joined another has been closed before.
Closed(s) == IF connection[s] = s THEN [conn EXCEPT ![s] = "closed"] ELSE conn

\* Join(origin) of session s, origin being the session of connection c.
Join(s, c) ==
    /\ conn' = Closed(s)
    /\ connection' = [connection EXCEPT ![s] = c]
    /\ recv' = [recv EXCEPT ![<<s, c>>].at = "read"]
    /\ send' = [send EXCEPT ![<<s, c>>].at = "take"]
    /\ UNCHANGED slot

\* The rest of handleWebSocket.  It panics, and net/http recovers, when the user
\* has expired meanwhile; the user object may be another one than the session's.
Serve(c) ==
    /\ handler[c] = "lookup"
    /\ handler' = [handler EXCEPT ![c] = "done"]
    /\ LET u == registry[KeyOf[user[c]]] IN
         \/ /\ u = Nil
            /\ UNCHANGED <<slot, connection, conn, loops>>
         \/ /\ u # Nil
            /\ slot[u] = Nil
            /\ slot' = [slot EXCEPT ![u] = c]
            /\ UNCHANGED <<connection, conn, loops>>
         \/ /\ u # Nil
            /\ slot[u] # Nil
            /\ Join(slot[u], c)
    /\ UNCHANGED <<made, registry, chPost, user, guest, sent, crashed, arrived>>

\* The client goes, or a session closes its connection.
HangUp(c) ==
    /\ conn[c] = "open"
    /\ conn' = [conn EXCEPT ![c] = "closed"]
    /\ UNCHANGED <<users, chPost, handler, user, connection, loops, guest, sent, crashed,
                   arrived>>

\* The connections session s has had: a loop may still be reading an older one.
Had(s) == {c \in Conns : recv[s, c].at # "none"}

\* A loop may end once its connection is closed or its session has moved on.
Stopping(l) == conn[l[2]] = "closed" \/ connection[l[1]] # l[2]

-----------------------------------------------------------------------------
(* recv *)

Own(l) == user[l[1]]

AtRead == [at |-> "read", msg |-> Nil, to |-> Nil]
RecvAt(l, place) == recv' = [recv EXCEPT ![l].at = place]

\* Post: never waits, and says whether there was room.
Room_OffByOne(u) == Len(chPost[u]) <= Capacity
Room(u) == Len(chPost[u]) < Capacity
Post_Front(u, m) ==
    chPost' = IF Room(u) THEN [chPost EXCEPT ![u] = <<m>> \o @] ELSE chPost
Post(u, m) ==
    chPost' = IF Room(u) THEN [chPost EXCEPT ![u] = Append(@, m)] ELSE chPost

VerifyMsg_Off(l, from) == TRUE
VerifyMsg(l, from) == from = KeyOf[Own(l)]

Bad == IF "bad" \in Traffic THEN Keys \cup {Nil} ELSE {}

\* ReadMessage, and the checks of the message on its own.  More than one loop
\* may be reading the same connection: any of them gets the message.
RecvRead(l) ==
    /\ recv[l].at = "read"
    /\ sent < MaxSent
    /\ \E c \in Had(l[1]), k \in Keys, from \in {KeyOf[Own(l)]} \cup Bad :
         /\ conn[c] = "open"
         /\ recv' = [recv EXCEPT
                       ![l].msg = [id |-> sent + 1, from |-> from, to |-> k, via |-> c],
                       ![l].at = IF VerifyMsg(l, from) THEN "lookup" ELSE "refuse"]
    /\ sent' = sent + 1
    /\ UNCHANGED <<users, chPost, sockets, send, guest, crashed, arrived>>

\* One map for all users.
Adding_Any(u) == guest # Nil \/ \E l \in Loop : recv[l].at = "adding"
\* Somebody is writing to the map Contacts of user object u.
Adding(u) == guest = u \/ \E l \in Loop : recv[l].at = "adding" /\ Own(l) = u

\* dispacth: GetUser(msg.Receiver), and the write to Contacts begins.  A second
\* writer makes Go's runtime end the process when it notices.
RecvLookup(l) ==
    /\ recv[l].at = "lookup"
    /\ LET u == GetUser(recv[l].msg.to) IN
         \/ /\ u = Nil
            /\ RecvAt(l, "refuse")
            /\ UNCHANGED crashed
         \/ /\ u # Nil
            /\ recv' = [recv EXCEPT ![l].to = u, ![l].at = "adding"]
            /\ crashed' \in {FALSE, Adding(Own(l))}
    /\ UNCHANGED <<users, chPost, sockets, send, guest, sent, arrived>>

\* The message goes to the sender's own channel.
RecvPost_Own(l) ==
    /\ recv[l].at = "adding"
    /\ Post(Own(l), recv[l].msg)
    /\ IF Room(Own(l))
       THEN recv' = [recv EXCEPT ![l] = AtRead]
       ELSE RecvAt(l, "refuse")
    /\ UNCHANGED <<users, sockets, send, guest, sent, crashed, arrived>>

\* Post waits for room.
RecvPost_Waits(l) ==
    /\ recv[l].at = "adding"
    /\ Room(recv[l].to)
    /\ Post(recv[l].to, recv[l].msg)
    /\ recv' = [recv EXCEPT ![l] = AtRead]
    /\ UNCHANGED <<users, sockets, send, guest, sent, crashed, arrived>>

\* The write ends, and receiver.Post: to the object looked up, whatever has become
\* of it.
RecvPost(l) ==
    /\ recv[l].at = "adding"
    /\ Post(recv[l].to, recv[l].msg)
    /\ IF Room(recv[l].to)
       THEN recv' = [recv EXCEPT ![l] = AtRead]
       ELSE RecvAt(l, "refuse")
    /\ UNCHANGED <<users, sockets, send, guest, sent, crashed, arrived>>

\* The error goes to the sender's own channel, if there is room.
RecvRefuse(l) ==
    /\ recv[l].at = "refuse"
    /\ Post(Own(l), [id |-> 0, from |-> Nil, to |-> KeyOf[Own(l)], via |-> Nil])
    /\ recv' = [recv EXCEPT ![l] = AtRead]
    /\ UNCHANGED <<users, sockets, send, guest, sent, crashed, arrived>>

RecvStop(l) ==
    /\ recv[l].at = "read"
    /\ Stopping(l)
    /\ RecvAt(l, "end")
    /\ UNCHANGED <<users, chPost, sockets, send, guest, sent, crashed, arrived>>

\* GetUser reads the cache's map without a lock, and may find the slot of a user
\* the cache is just storing still nil: recv panics, and the deferred function calls
\* Close.  (That Renew panics so, after the message, is a HangUp and a RecvStop.)
RecvPanic(l) ==
    /\ recv[l].at = "lookup"
    /\ recv' = [recv EXCEPT ![l] = [at |-> "end", msg |-> Nil, to |-> Nil]]
    /\ conn' = Closed(l[1])
    /\ UNCHANGED <<users, chPost, handler, user, connection, send, guest, sent, crashed,
                   arrived>>

\* What recv does with a message it has read.
RecvHandle(l) == RecvLookup(l) \/ RecvPost(l) \/ RecvRefuse(l)

RecvStep(l) == RecvHandle(l) \/ RecvPanic(l) \/ RecvStop(l)

\* AddContact of an invite link's owner: the other writer of Contacts.
GuestAdds(u) ==
    /\ "guest" \in Traffic
    /\ guest = Nil
    /\ u \in made
    /\ guest' = u
    /\ crashed' \in {FALSE, Adding(u)}
    /\ UNCHANGED <<users, chPost, sockets, loops, sent, arrived>>

GuestAdded ==
    /\ guest # Nil
    /\ guest' = Nil
    /\ UNCHANGED <<users, chPost, sockets, loops, sent, crashed, arrived>>

-----------------------------------------------------------------------------
(* send *)

SendTake(l) ==
    /\ send[l].at = "take"
    /\ chPost[Own(l)] # << >>
    /\ send' = [send EXCEPT ![l] = [at |-> "check", msg |-> Head(chPost[Own(l)])]]
    /\ chPost' = [chPost EXCEPT ![Own(l)] = Tail(@)]
    /\ UNCHANGED <<users, sockets, recv, guest, sent, crashed, arrived>>

\* User.BlackList: nothing in the code adds to it.
BlackList(u) == {}

\* CheckContact(msg.Msg.Sender)
CheckContact(u, k) == k \notin BlackList(u) /\ GetUser(k) # Nil

Idle == [at |-> "take", msg |-> Nil]

\* A message whose sender is not registered is kept until it is.
SendCheck_Waits(l) ==
    /\ send[l].at = "check"
    /\ CheckContact(Own(l), send[l].msg.from)
    /\ send' = [send EXCEPT ![l].at = "write"]
    /\ UNCHANGED <<users, chPost, sockets, recv, guest, sent, crashed, arrived>>

SendCheck(l) ==
    /\ send[l].at = "check"
    /\ send' = [send EXCEPT ![l] = IF CheckContact(Own(l), @.msg.from)
                                   THEN [@ EXCEPT !.at = "write"]
                                   ELSE Idle]
    /\ UNCHANGED <<users, chPost, sockets, recv, guest, sent, crashed, arrived>>

\* WriteMessage to what is the session's connection now; its error is ignored.
SendWrite(l) ==
    /\ send[l].at = "write"
    /\ LET c == connection[l[1]] IN
         arrived' = IF conn[c] = "open"
                    THEN [arrived EXCEPT ![c] = Append(@, send[l].msg)]
                    ELSE arrived
    /\ send' = [send EXCEPT ![l] = Idle]
    /\ UNCHANGED <<users, chPost, sockets, recv, guest, sent, crashed>>

\* The lookup of CheckContact meets a nil slot, or WriteMessage another loop that
\* writes to the same connection (gorilla panics): the deferred function calls Close.
SendPanic(l) ==
    /\ \/ send[l].at = "check"
       \/ /\ send[l].at = "write"
          /\ \E m \in Loop \ {l} :
               send[m].at = "write" /\ connection[m[1]] = connection[l[1]]
    /\ send' = [send EXCEPT ![l] = [at |-> "end", msg |-> Nil]]
    /\ conn' = Closed(l[1])
    /\ UNCHANGED <<users, chPost, handler, user, connection, recv, guest, sent, crashed,
                   arrived>>

SendStop(l) ==
    /\ send[l].at = "take"
    /\ Stopping(l)
    /\ send' = [send EXCEPT ![l].at = "end"]
    /\ UNCHANGED <<users, chPost, sockets, recv, guest, sent, crashed, arrived>>

SendStep(l) == SendTake(l) \/ SendCheck(l) \/ SendWrite(l) \/ SendPanic(l) \/ SendStop(l)

\* What send does without its client.  WriteMessage has no deadline: to an open
\* connection it returns only if the client reads.
SendAlone(l) ==
    \/ SendTake(l)
    \/ SendCheck(l)
    \/ conn[connection[l[1]]] # "open" /\ SendWrite(l)

-----------------------------------------------------------------------------

Init ==
    /\ made = {}
    /\ registry = [k \in Keys |-> Nil]
    /\ slot = [u \in Users |-> Nil]
    /\ chPost = [u \in Users |-> << >>]
    /\ handler = [c \in Conns |-> "idle"]
    /\ user = [c \in Conns |-> Nil]
    /\ connection = [c \in Conns |-> c]
    /\ conn = [c \in Conns |-> "free"]
    /\ recv = [l \in Loop |-> [at |-> "none", msg |-> Nil, to |-> Nil]]
    /\ send = [l \in Loop |-> [at |-> "none", msg |-> Nil]]
    /\ guest = Nil
    /\ sent = 0
    /\ crashed = FALSE
    /\ arrived = [c \in Conns |-> << >>]

Next ==
    /\ ~crashed
    /\ \/ \E u \in Users : SignUp(u) \/ Install(u) \/ GuestAdds(u)
       \/ \E k \in Keys : Expire(k)
       \/ \E c \in Conns : Start(c) \/ Serve(c) \/ HangUp(c)
       \/ \E l \in Loop : RecvRead(l) \/ RecvStep(l) \/ SendStep(l)
       \/ GuestAdded

Spec == Init /\ [][Next]_vars

\* A goroutine that can go on by itself does.  Nothing makes a client send, read,
\* connect or hang up, the handler finish (Join may wait for ever), a loop notice
\* that it should stop (Close may wait too), or a user expire.
Fairness ==
    \A l \in Loop :
      /\ WF_vars(~crashed /\ RecvHandle(l))
      /\ WF_vars(~crashed /\ SendAlone(l))

FairSpec == Spec /\ Fairness

-----------------------------------------------------------------------------
(* Properties *)

\* The key whose user signed in on each connection.
Owner == [c \in Conns |-> IF user[c] = Nil THEN Nil ELSE KeyOf[user[c]]]

\* Genuine messages that recv has read and send has not written or left out.
Hands == {recv[l].msg : l \in Loop} \cup {send[l].msg : l \in Loop}
InFlight ==
    {m \in Hands \cup UNION {Range(chPost[u]) : u \in Users} :
       m # Nil /\ m.via # Nil /\ m.from = Owner[m.via]}

\* The relay keeps its promise: what it writes it has read from a connection of
\* the key the message names, it writes it once, and to a connection of the key
\* the message is for.
Promise == INSTANCE Relay WITH owner <- Owner, last <- sent, held <- InFlight
Implements == Promise!Spec

\* A connection that no other session has joined.
Alone(c) == \A s \in Conns \ {c} : recv[s, c].at = "none"

\* Messages between two connections keep their order as long as neither has been
\* joined by an older session of its user: then each has one recv and one send.
Ordered ==
    \A c \in Conns :
      Alone(c) =>
        \A i, j \in DOMAIN arrived[c] :
          i < j /\ arrived[c][i].via = arrived[c][j].via /\ Alone(arrived[c][i].via)
            => arrived[c][i].id < arrived[c][j].id

\* The process ends only when a guest signs up or a key is connected twice: one
\* connection alone does not make two writers of its user's Contacts.  (The two
\* connections may have signed in as different user objects of the key.)
CrashNeedsCompany ==
    crashed =>
      \/ guest # Nil
      \/ \E c, d \in Conns : c # d /\ Owner[c] # Nil /\ Owner[c] = Owner[d]

\* recv never waits for a receiver: it always comes back to read, or ends, and that
\* although the receiver, or its own client, may stop reading what it is sent.
RecvReturns ==
    \A l \in Loop :
      recv[l].at \notin {"none", "read", "end"}
        ~> recv[l].at \in {"read", "end"} \/ crashed

\* As long as a send loop works for it, a user's channel is emptied, provided that
\* his clients always come to read what is written to them.
Served(u) == \E l \in Loop : Own(l) = u /\ send[l].at \notin {"none", "end"}
Reads(u) == \A l \in Loop : []<>(Own(l) = u => send[l].at # "write")
MailMoves ==
    \A u \in Users :
      Reads(u) =>
        (chPost[u] # << >> ~> chPost[u] = << >> \/ ~Served(u) \/ crashed)

\* session.go:124 says of what send leaves out: "Discard messages from blacklist".
DiscardsAreBlacklisted ==
    [][\A l \in Loop :
         send[l].at = "check" /\ send'[l].at = "take"
           => send[l].msg.from \in BlackList(Own(l))]_vars

=============================================================================

-------------------------- MODULE ReconnectClient ---------------------------
(***************************************************************************)
(* The connection of the browser's client to the server: connect,          *)
(* onDisconnect and msgLoop of src/www/lib/tmcs-anonymous/src/index.ts and *)
(* the WebSocketMessageQueue of util.ts that lies between the sockets and  *)
(* whoever receives.                                                       *)
(*                                                                         *)
(* A step is one task of the browser's event loop with the microtasks it   *)
(* queues: an event of a socket, the end of reading a blob, the end of     *)
(* signing.  What is awaited elsewhere may happen in any order: the blobs  *)
(* of two messages are read at the same time, and the listener of a socket *)
(* that has been replaced goes on feeding the one queue.  The server's     *)
(* handshake (session.go) is the other party.                              *)
(***************************************************************************)
EXTENDS MessageQueue, FiniteSets

CONSTANTS
    Sockets,    \* the web sockets the client can make (bound)
    MaxPosts,   \* bound: frames the server sends after its handshakes
    MaxCalls    \* bound: calls of connect by the page or the console

ASSUME SocketsAssumption == Null \notin Sockets /\ "" \notin Sockets
ASSUME BoundsAssumption == MaxPosts \in Nat /\ MaxCalls \in Nat

W == INSTANCE WireFormat WITH Unreadable <- Null

\* What a server sends.  A message has the wire type 0 in its field 2, so that
\* field is absent; a receipt has it present.
Kinds == {"handshake", "confirm", "text", "message", "receipt"}
Frames == [kind : Kinds, from : Sockets, n : 0..MaxPosts]
Frame(k, s) == [kind |-> k, from |-> s, n |-> 0]

ASSUME NullAssumption == Null \notin Frames

\* The bytes of a frame, as the server marshals them: its handshake and its
\* confirmation (the server's version is 1), a message or a receipt it hands on,
\* and the words of a refusal.  The token of a session is named after its socket.
Relayed(f, type) ==
    [id |-> f.n, type |-> type, receiver |-> f.from, sender |-> f.from,
     body |-> f.from, sign |-> f.from]

Bytes(f) ==
    CASE f.kind \in {"handshake", "confirm"} ->
            W!Serialize(W!GoServerHandShake, [serverversion |-> 1, token |-> f.from])
      [] f.kind = "message" ->
            W!Serialize(W!GoSignedMsg, Relayed(f, W!SignedMsgType.MESSAGE))
      [] f.kind = "receipt" ->
            W!Serialize(W!GoSignedMsg, Relayed(f, W!SignedMsgType.RECEIPT))
      [] f.kind = "text" -> W!Text

\* A mutant: the words of a refusal can be read as a handshake.
ServerHandShake_Lenient(f) ==
    IF f.kind = "text" THEN [serverversion |-> 0, token |-> ""]
    ELSE W!Deserialize(W!ServerHandShake.reads, Bytes(f))

ServerHandShake(f) == W!Deserialize(W!ServerHandShake.reads, Bytes(f))
getToken(f) == ServerHandShake(f).token

VARIABLES
    state,      \* TMCSAnonymous.state
    websocket,  \* TMCSAnonymous.websocket
    at,         \* where the running call of connect is
    waiter,     \* who has set dequeueResolve
    queue,      \* the Queue of WebSocketMessageQueue
    reading,    \* frames whose blob is being read (readBlob)
    onclose,    \* the sockets whose onclose is set
    calls,      \* calls of connect from outside
    sock,       \* [Sockets -> ...]: the sockets as the browser sees them
    arriving,   \* [Sockets -> Seq(Frames)]: sent and not yet a message event
    server,     \* [Sockets -> ...]: where the server's handshake is
    signed,     \* [Sockets -> token or Null]: the SignIn sent on each socket
    posted,     \* frames posted so far
    took,       \* for the properties: the frames this attempt has received
    last,       \* for the properties: the frame that left the queue last
    missed      \* for the properties: see CloseEvent

client == <<state, websocket, at, waiter, queue, took, last>>
browser == <<reading, onclose, calls, missed>>
network == <<sock, arriving, server, signed, posted>>
vars == <<client, browser, network>>

TypeOK ==
    /\ state \in {"registed", "connecting", "ready"}
    /\ websocket \in Sockets \cup {Null}
    /\ at \in {"none", "open", "handshake", "sign", "confirm", "done", "failed"}
    /\ waiter \in {"none", "connect", "loop"}
    /\ DOMAIN queue.nodes \subseteq Frames
    /\ queue.length = Cardinality(DOMAIN queue.nodes)
    /\ reading \subseteq Frames
    /\ onclose \subseteq Sockets
    /\ calls \in 0..MaxCalls
    /\ sock \in [Sockets -> {"unused", "connecting", "open", "closing", "lost", "closed"}]
    /\ arriving \in [Sockets -> Seq(Frames)]
    /\ server \in [Sockets -> {"none", "hello", "signin", "serving", "rejected", "gone"}]
    /\ signed \in [Sockets -> Sockets \cup {Null, ""}]
    /\ posted \in 0..MaxPosts
    /\ took \in Seq(Frames)
    /\ last \in Frames \cup {Null}
    /\ missed \subseteq Sockets

Init ==
    /\ state = "registed" /\ websocket = Null /\ at = "none" /\ waiter = "none"
    /\ queue = EmptyQueue /\ reading = {} /\ onclose = {} /\ calls = 0
    /\ sock = [s \in Sockets |-> "unused"]
    /\ arriving = [s \in Sockets |-> << >>]
    /\ server = [s \in Sockets |-> "none"]
    /\ signed = [s \in Sockets |-> Null]
    /\ posted = 0 /\ took = << >> /\ last = Null /\ missed = {}

-----------------------------------------------------------------------------
(* connect                                                                 *)

Unused == {s \in Sockets : sock[s] = "unused"}
NewSocket == CHOOSE s \in Sockets : sock[s] = "unused"

\* From the guards to the await of the open event, with the sockets as they are
\* after the event that led here.  Closing a socket that has closed already does
\* nothing; what still arrives on one that is being closed is dropped, and the
\* server's session ends.  update rejects whoever waits on the queue.
\* A mutant: update does not reject the message loop.
Attempt_NoReject(sockets) ==
    LET closing == state = "ready" /\ sockets[websocket] \in {"open", "lost"}
    IN  /\ Unused # {}
        /\ state' = "connecting"
        /\ websocket' = NewSocket
        /\ sock' = [s \in Sockets |->
                      CASE s = NewSocket -> "connecting"
                        [] s = websocket /\ closing -> "closing"
                        [] OTHER -> sockets[s]]
        /\ arriving' = [s \in Sockets |->
                          IF closing /\ s = websocket THEN << >> ELSE arriving[s]]
        /\ server' = [s \in Sockets |->
                        IF closing /\ s = websocket THEN "gone" ELSE server[s]]
        /\ at' = "open" /\ took' = << >>
        /\ UNCHANGED <<waiter, queue, last, reading, signed, posted>>

Attempt(sockets) ==
    LET closing == state = "ready" /\ sockets[websocket] \in {"open", "lost"}
    IN  /\ Unused # {}
        /\ state' = "connecting"
        /\ websocket' = NewSocket
        /\ sock' = [s \in Sockets |->
                      CASE s = NewSocket -> "connecting"
                        [] s = websocket /\ closing -> "closing"
                        [] OTHER -> sockets[s]]
        /\ arriving' = [s \in Sockets |->
                          IF closing /\ s = websocket THEN << >> ELSE arriving[s]]
        /\ server' = [s \in Sockets |->
                        IF closing /\ s = websocket THEN "gone" ELSE server[s]]
        /\ at' = "open" /\ took' = << >>
        /\ waiter' = "none"
        /\ UNCHANGED <<queue, last, reading, signed, posted>>

\* Somebody calls connect; a call during another one throws.
Connect ==
    /\ calls < MaxCalls
    /\ state # "connecting"
    /\ calls' = calls + 1
    /\ Attempt(sock)
    /\ UNCHANGED <<onclose, missed>>

\* The text of an error the server sends instead of a frame is no protobuf
\* message: the reader throws, connect rejects and its state is left as it is.
TakeHandshake(f) ==
    /\ took' = <<f>>
    /\ at' = IF ServerHandShake(f) = Null THEN "failed" ELSE "sign"

\* Any frame that can be read passes for the confirmation.  The loop that
\* starts then handles what is queued and waits.
\* A mutant: onclose is not set.
TakeConfirm_NoOnclose(f, rest) ==
    /\ took' = Append(took, f)
    /\ IF ServerHandShake(f) = Null
       THEN /\ at' = "failed" /\ queue' = rest /\ last' = f /\ waiter' = "none"
            /\ UNCHANGED <<state, onclose>>
       ELSE /\ at' = "done" /\ state' = "ready"
            /\ UNCHANGED onclose
            /\ queue' = Drained(rest) /\ waiter' = "loop"
            /\ last' = IF rest.length = 0 THEN f ELSE Contents(rest)[rest.length]

\* A mutant: onclose is set on the first socket only.
TakeConfirm_OnceOnly(f, rest) ==
    /\ took' = Append(took, f)
    /\ IF ServerHandShake(f) = Null
       THEN /\ at' = "failed" /\ queue' = rest /\ last' = f /\ waiter' = "none"
            /\ UNCHANGED <<state, onclose>>
       ELSE /\ at' = "done" /\ state' = "ready"
            /\ onclose' = IF onclose = {} THEN {websocket} ELSE onclose
            /\ queue' = Drained(rest) /\ waiter' = "loop"
            /\ last' = IF rest.length = 0 THEN f ELSE Contents(rest)[rest.length]

TakeConfirm(f, rest) ==
    /\ took' = Append(took, f)
    /\ IF ServerHandShake(f) = Null
       THEN /\ at' = "failed" /\ queue' = rest /\ last' = f /\ waiter' = "none"
            /\ UNCHANGED <<state, onclose>>
       ELSE /\ at' = "done" /\ state' = "ready"
            /\ onclose' = onclose \cup {websocket}
            /\ queue' = Drained(rest) /\ waiter' = "loop"
            /\ last' = IF rest.length = 0 THEN f ELSE Contents(rest)[rest.length]

\* The open event: the client's handshake is sent and the server's awaited,
\* unless a frame is queued already.
SocketOpen(s) ==
    /\ sock[s] = "connecting"
    /\ sock' = [sock EXCEPT ![s] = "open"]
    /\ server' = [server EXCEPT ![s] = "hello"]
    /\ IF queue.header = Null
       THEN at' = "handshake" /\ waiter' = "connect" /\ UNCHANGED <<queue, last, took>>
       ELSE /\ TakeHandshake(Front(queue))
            /\ queue' = Dequeued(queue) /\ last' = Front(queue)
            /\ UNCHANGED waiter
    /\ UNCHANGED <<state, websocket, browser, arriving, signed, posted>>

\* openpgp has signed the token: SignIn is sent, in vain on a socket that is
\* not open any more, and the confirmation awaited.
SignDone ==
    /\ at = "sign"
    /\ signed' = IF sock[websocket] = "open"
                 THEN [signed EXCEPT ![websocket] = getToken(took[1])] ELSE signed
    /\ IF queue.header = Null
       THEN /\ at' = "confirm" /\ waiter' = "connect"
            /\ UNCHANGED <<state, onclose, queue, last, took>>
       ELSE TakeConfirm(Front(queue), Dequeued(queue))
    /\ UNCHANGED <<websocket, reading, calls, missed, sock, arriving, server, posted>>

-----------------------------------------------------------------------------
(* WebSocketMessageQueue                                                   *)

\* A message event: every socket the queue has ever been given still has its
\* listener.
MessageEvent(s) ==
    /\ sock[s] \in {"open", "lost"}
    /\ arriving[s] # << >>
    /\ reading' = reading \cup {Head(arriving[s])}
    /\ arriving' = [arriving EXCEPT ![s] = Tail(@)]
    /\ UNCHANGED <<client, onclose, calls, missed, sock, server, signed, posted>>

\* The bytes of f are there: f is queued, and handed on to whoever waits.
BlobRead(f) ==
    /\ f \in reading
    /\ reading' = reading \ {f}
    /\ LET queued == Enqueued(queue, f)
           rest == Dequeued(queued)
       IN  CASE waiter = "none" ->
                    queue' = queued /\ UNCHANGED <<state, at, waiter, took, last, onclose>>
             [] waiter = "loop" ->
                    /\ queue' = rest /\ last' = Front(queued)
                    /\ UNCHANGED <<state, at, waiter, took, onclose>>
             [] waiter = "connect" /\ at = "handshake" ->
                    /\ queue' = rest /\ last' = Front(queued) /\ waiter' = "none"
                    /\ TakeHandshake(Front(queued))
                    /\ UNCHANGED <<state, onclose>>
             [] waiter = "connect" /\ at = "confirm" ->
                    TakeConfirm(Front(queued), rest)
    /\ UNCHANGED <<websocket, calls, missed, network>>

-----------------------------------------------------------------------------
(* onDisconnect                                                            *)

\* The close event.  onDisconnect calls connect, which throws while another
\* attempt is under way.  missed remembers the sockets that closed when nobody
\* had set onclose yet although their attempt could still go on, with a frame
\* that was being read.
\* A mutant: the event is handled once more after that (as an error and a close).
CloseEvent_Twice(s) ==
    /\ sock[s] \in {"lost", "closing"}
    /\ arriving[s] = << >>
    /\ LET closed == [sock EXCEPT ![s] = "closed"]
       IN  IF s \in onclose /\ state # "connecting"
           THEN Attempt(sock) /\ UNCHANGED missed
           ELSE /\ sock' = closed
                /\ missed' = IF s \notin onclose /\ reading \cup DOMAIN queue.nodes # {}
                             THEN missed \cup {s} ELSE missed
                /\ UNCHANGED <<client, reading, arriving, server, signed, posted>>
    /\ UNCHANGED <<onclose, calls>>

CloseEvent(s) ==
    /\ sock[s] \in {"lost", "closing"}
    /\ arriving[s] = << >>
    /\ LET closed == [sock EXCEPT ![s] = "closed"]
       IN  IF s \in onclose /\ state # "connecting"
           THEN Attempt(closed) /\ UNCHANGED missed
           ELSE /\ sock' = closed
                /\ missed' = IF s \notin onclose /\ reading \cup DOMAIN queue.nodes # {}
                             THEN missed \cup {s} ELSE missed
                /\ UNCHANGED <<client, reading, arriving, server, signed, posted>>
    /\ UNCHANGED <<onclose, calls>>

-----------------------------------------------------------------------------
(* The server, and the network between.                                    *)

Send(s, f) == arriving' = [arriving EXCEPT ![s] = Append(@, f)]

ServerHandshake(s) ==
    /\ server[s] = "hello"
    /\ server' = [server EXCEPT ![s] = "signin"]
    /\ Send(s, Frame("handshake", s))
    /\ UNCHANGED <<client, browser, sock, signed, posted>>

\* The signature must be one of this session's token.
ServerConfirm(s) ==
    /\ server[s] = "signin"
    /\ signed[s] = s
    /\ server' = [server EXCEPT ![s] = "serving"]
    /\ Send(s, Frame("confirm", s))
    /\ UNCHANGED <<client, browser, sock, signed, posted>>

\* The key is not registered (any more), or the signature is not right: the
\* server says so in words and closes.
ServerReject(s) ==
    /\ server[s] = "signin"
    /\ signed[s] # Null
    /\ server' = [server EXCEPT ![s] = "rejected"]
    /\ sock' = [sock EXCEPT ![s] = "lost"]
    /\ Send(s, Frame("text", s))
    /\ UNCHANGED <<client, browser, signed, posted>>

\* A mutant: messages go out before the confirmation.
ServerPost_Early(s, k) ==
    /\ server[s] \in {"signin", "serving"}
    /\ posted < MaxPosts
    /\ posted' = posted + 1
    /\ Send(s, [kind |-> k, from |-> s, n |-> posted + 1])
    /\ UNCHANGED <<client, browser, sock, server, signed>>

ServerPost(s, k) ==
    /\ server[s] = "serving"
    /\ posted < MaxPosts
    /\ posted' = posted + 1
    /\ Send(s, [kind |-> k, from |-> s, n |-> posted + 1])
    /\ UNCHANGED <<client, browser, sock, server, signed>>

\* The connection breaks; the last frames may never arrive.
Lose(s) ==
    /\ sock[s] \in {"connecting", "open"}
    /\ sock' = [sock EXCEPT ![s] = "lost"]
    /\ server' = [server EXCEPT ![s] = "gone"]
    /\ \E n \in 0..Len(arriving[s]) :
          arriving' = [arriving EXCEPT ![s] = SubSeq(@, 1, n)]
    /\ UNCHANGED <<client, browser, signed, posted>>

Server(s) == ServerHandshake(s) \/ ServerConfirm(s) \/ ServerReject(s)

Next ==
    \/ Connect
    \/ SignDone
    \/ \E f \in reading : BlobRead(f)
    \/ \E s \in Sockets :
          \/ SocketOpen(s) \/ MessageEvent(s) \/ CloseEvent(s)
          \/ Server(s) \/ Lose(s)
          \/ \E k \in {"message", "receipt"} : ServerPost(s, k)

\* The browser goes on with its tasks and the server with its handshake;
\* nobody has to call connect, to post or to lose a connection.
Fairness ==
    /\ WF_vars(SignDone)
    /\ WF_vars(\E f \in reading : BlobRead(f))
    /\ \A s \in Sockets :
          /\ WF_vars(SocketOpen(s))
          /\ WF_vars(MessageEvent(s))
          /\ WF_vars(CloseEvent(s))
          /\ WF_vars(Server(s))

Spec == Init /\ [][Next]_vars
FairSpec == Spec /\ Fairness

-----------------------------------------------------------------------------
(* What the connection promises.                                           *)

\* Who waits on the queue is who has to: the message loop exactly while the
\* client is ready, connect exactly while it awaits a frame of the handshake, and
\* nobody waits while a frame is queued (one loop's waiter never overwrites
\* another's, and no frame lies unseen until the next one).
Listens ==
    /\ waiter = "loop" <=> state = "ready"
    /\ waiter = "connect" <=> at \in {"handshake", "confirm"}
    /\ waiter # "none" => queue.header = Null

\* The attempt has received frames of its own socket only, and no frame of a
\* conversation in the place of the confirmation.
NotMixedUp ==
    \A i \in 1..Len(took) :
        took[i].from = websocket /\ took[i].kind \notin {"message", "receipt"}

\* A client that calls itself ready has been accepted by the server's session
\* of its socket, unless a frame it took for part of the handshake was a message
\* or came from a socket it had before.  The server's refusals, which reach
\* connect as frames like any other, never pass for a confirmation.
ReadyIsSignedIn ==
    state = "ready" /\ NotMixedUp =>
        /\ signed[websocket] = websocket
        /\ \/ server[websocket] = "serving"
           \/ server[websocket] = "gone" /\ sock[websocket] \in {"lost", "closed"}

\* A message that connect swallows as part of its handshake (nobody ever handles
\* it) has won a race: it was still being read when its socket was given up, or
\* it overtook the confirmation that was sent before it.
SwallowedInARace ==
    [][Len(took') > Len(took) =>
          LET f == took'[Len(took')]
          IN  f.kind \in {"message", "receipt"} =>
                IF f.from = websocket
                THEN at = "confirm" /\ Frame("confirm", websocket) \in reading
                ELSE sock[f.from] \in {"closing", "closed"} /\ f \notin DOMAIN queue'.nodes]_vars

\* A ready client notices the end of its socket: it is never ready on a socket
\* that has closed, unless the close event came before onclose was set, while a
\* frame that connect took afterwards was still being read.
ReadyIsAlive ==
    state = "ready" /\ sock[websocket] = "closed" => websocket \in missed

\* The client never closes an open socket by itself: with one call of connect
\* from outside, however often the connection is lost, no reconnection cuts
\* another one's connection.
NoSelfClose ==
    [][calls' <= 1 => \A s \in Sockets : sock[s] = "open" => sock'[s] # "closing"]_vars

\* A client that calls itself ready is signed in, on a socket whose end it will
\* notice, with the exceptions stated above.
ReadyIsTrue == ReadyIsSignedIn /\ ReadyIsAlive

\* What the receivers see of the message queue is a queue.
Abstract == INSTANCE Fifo WITH
    Items <- Frames, Nothing <- Null, items <- Contents(queue), last <- last
QueueIsFifo == Abstract!Spec

Restored == state = "ready" /\ sock[websocket] = "open"

\* The reasons for which a reconnection may come to nothing: no socket is left
\* (the bound), the new socket was lost too (connect is called once per loss), or
\* frames were mixed up.
Hopeless(s) ==
    \/ Unused = {}
    \/ websocket \notin {Null, s} /\ sock[websocket] \in {"lost", "closed"}
    \/ ~NotMixedUp

\* A ready client whose connection is lost is connected and ready again, unless
\* the new connection is lost or refused as well.
Reconnects ==
    \A s \in Sockets :
        (state = "ready" /\ websocket = s /\ sock[s] = "lost") ~> (Restored \/ Hopeless(s))

=============================================================================

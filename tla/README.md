# TMCS Anonymous: specifications

TLA+ models of the TMCS Anonymous server and client, their model-checking
configurations, and proofs. Paths of the repository are given from its root:
`src/` is the Go server, `www/lib/tmcs-anonymous/src/` the TypeScript client
library, `www/src/` the page in the browser.

## The system

A client makes a PGP key, registers it over HTTP and gets an invite link. It
opens a web socket, signs a token the server chose, and from then on sends
messages to other fingerprints and receives theirs. Whoever follows an invite
link registers a key of their own and becomes a contact of the link's owner.
Everything the server keeps is in memory and expires.

| Part | State | Operations | What makes it correct |
|---|---|---|---|
| `cache.ObjectCache` (users, invite links) | the list of elements with their expiry, the map of keys, two request channels | `Set`, `Get`, `Has`, `Renew`, `Delete`; the goroutine `process` | list and map agree; nothing is dropped before its lease is over; what is over goes in the end; callers get through |
| `user.Session` and the handler of `/ws` | `Connected`, `connection`, `chClose`; the user's `Session` | `Start`, `Join`, `Close`, the loops `recv` and `send` | the process survives; a connection that is gone is closed and its goroutines end; one that is there is served |
| message dispatch | `chPost` of each user, `Contacts`, `BlackList` | `dispacth`, `Post`, `CheckContact`, the body of `send` | a message is delivered at most once, to a connection of the key it is for, in order; `recv` never waits for a receiver |
| registration | the two caches, the configuration, `Contacts` | the HTTP handlers `handleRegister`, `handleJoin`, `handleSessionJoin`, `handleSessionRegister`, `keyHandler`; `userRenewer` | a user object is replaced by another only if they registered at the same time or the first has lapsed; a session has the user its messages are posted to; a link leads to its owner for as long as the owner's own life time lasts |
| `lib.LifeCycleMgr` | a list of elements, three channels | `Add`, `Remove`, `Renew`, `cleanup` | every expired element is reported once; nobody waits for ever |
| client connection | `state`, `websocket`, the message queue with its one waiter | `connect`, `onDisconnect`, `msgLoop`, `WebSocketMessageQueue`, `Queue` | a client that says it is ready is; it reconnects; the queue keeps order and loses nothing; no frame of another connection or of a conversation is taken for the handshake |
| client messages | `contacts`, `sessions`, `messageArchive`, the promises of messages, event triggers | `contactRequest`, `Session.send`, `send`, `sendPack`, `msgHandler`, `receiptHandler` | a session is agreed on by both; a text is shown once and confirmed only if it was shown; no text stays pending |
| wire formats | the classes of the protobuf definitions, as the browser reads them, as it writes them, and as the server's structs have them | serialise, deserialise | what one party writes the other reads; what another class has written is told apart, or not |
| start-up guide | the active page, its two buttons, what the pages await | `next`, `back`, the `onPageActive` of seven pages | the key in use is the registered one; the user is never without a way on |
| page of the conversations | the lists it shows, the visible session, message cards | listeners, `resolveContactRequest`, `sessionTagClick`, `send` | what the library knows is shown; a card tells the state of its message |
| browser console | one question at a time | `accept`, `reject`, wrappers of the library | (see `ChatClient`) |

How they interact: HTTP handlers and session goroutines call the caches, which
answer reads from the caller's goroutine without any lock and apply writes in
the goroutine `process`. Every message that `recv` or `send` handles renews its
user in the cache, which may block. A handler of `/ws` starts a session's two
goroutines and afterwards registers the session with its user, or makes the
session registered there *join* the new connection. `recv` of one user posts to
the bounded channel that `send` of another reads. On the client everything is
callbacks and promises on one thread, so that state read before an `await` may
be stale after it. The library tells the page of new sessions, requests and
messages by event triggers with one listener each, which queue what happens
while there is none; the page keeps copies of what it was told. The guide's pages
drive the library (key, registration, connection) and go on when an `await` is
over, on whatever page the guide is then.

What is hard: unsynchronised fields and maps shared by goroutines, channels that
are full or closed, a panic inside a deferred function, timers that are made
anew before they fire, the overlap of several connections of one user, and
expiry while something else is going on; in the client, listeners that stay on
sockets that were given up, frames that overtake each other while their bytes
are read, packs that overtake each other while they are signed, and components
that copy or are reused. `PROJECT.json` lists these hazards at their lines with
the properties that cover them; those without one say why.

## Modules

| Module | What it is |
|---|---|
| `LeaseTable` | abstract specification of the cache: leases that are put, dropped and expire |
| `ObjectCache` | `src/cache/object_cache.go`, callers and `process` |
| `ObjectCache_proofs` | lemmas on sequences; proofs about `ObjectCache` |
| `SessionLife` | `Session` of `src/user/session.go` and the handler of `/ws` in `src/tmcs/server_handler.go` |
| `MCSessionLife` | constants for TLC |
| `SessionLife_proofs` | proofs about `SessionLife` |
| `Registration` | the handlers of `src/tmcs/server_handler.go` that sign users up, the invite links and the renewal of users, over two instances of `LeaseTable` |
| `MCRegistration` | constants for TLC |
| `Registration_proofs` | proofs about `Registration` |
| `Relay` | abstract specification of the message relay |
| `Messaging` | what `recv` and `send` do with messages, over user objects that come and go: `src/user/session.go`, `src/user/user.go` |
| `MCMessaging` | constants for TLC |
| `Messaging_proofs` | proofs about `Messaging`, among them that it implements `Relay` |
| `WireFormat` | what the classes of `www/src/proto/tmcs_msg_pb.js` read and write, and the structs of `src/tmcs_msg/` on the server: which fields are written, and what a class reads out of bytes |
| `Fifo` | abstract specification of a queue whose elements may be handed over at once |
| `MessageQueue` | `Queue` of `util.ts`: the linked list |
| `ReconnectClient` | `connect`, `onDisconnect` and the message loop of `index.ts`, `WebSocketMessageQueue` of `util.ts`, over web sockets and the server's handshake; it uses `MessageQueue` and `WireFormat` and implements `Fifo` |
| `ReconnectClient_proofs` | proofs about `MessageQueue`, `WireFormat` and `ReconnectClient` |
| `Conversation` | abstract specification of what happens to the texts users send |
| `EventTrigger` | `PromiseEventTrigger` of `event.ts` |
| `ChatClient` | requests, sessions, texts and receipts of `index.ts` and `session.ts` between several clients, some at the console |
| `ChatClient_proofs`, `ChatText_proofs` | proofs about `ChatClient`; the second shows that it implements `Conversation`, and what it takes to get two sessions with one peer |
| `StartupGuide` | `Guide` of `components.tsx` and its pages in `startup.tsx` |
| `ChatUI` | `TMCSAnonymousUI`, `ChatSession`, `MessageCard` of `tmcs-ui.tsx` over the library's event triggers |
| `ClientApp` | `App` of `main.tsx`: the guide, the page and the library's connection composed |
| `MCClientApp` | constants for TLC |
| `ClientApp_proofs` | proofs about the three |

Definitions whose names carry a suffix (`Expired_Early`, `CloseUnset_Kept`) are
faulty variants that stand just before the definition they vary. No
specification uses them; they serve to try out the properties.

### ObjectCache

A caller is a process that executes one operation: a lookup reads the list and
the map, a `Set` or `Delete` sends to `chSet` or `chRemove` and waits while the
channel is full. `process` takes a request or the timer and applies it; a map
write is a step of its own between the two updates of list and map, during which
a caller may read the map. Go's runtime detects some of these concurrent
accesses and stops the process, so a lookup during a write has both outcomes.
A sweep (`cleanup`) reads the clock once and goes through the list element by
element. Time is a tick that brings every lease one unit nearer to its end; what
`time.After` has left is counted down and reset by every turn of the select.

`LeaseTable` says what a user of the cache may rely on: requests in flight, a
table of values and remaining life times, and entries that leave by a drop
request or after their lease is over. `ObjectCache` implements it; the mapping
`Table` reads the map and, while a write is in progress, the entry as it will be.

### SessionLife

Every connection brings a `Session`, so connections name sessions too. The
processes are `recv` and `send` of session *s* for connection *c*, and the
handler of each connection. `Close` is modelled statement by statement, because
its statements read the shared fields anew: the check of `Connected`, the two
sends to `chClose` (which wait when it is full and panic when it is closed), the
closing of the connection, the reset of `Connected`, the closing of the channel.
A panic in a loop calls `Close` again from the deferred function; a second panic
there ends the process; a panic in a handler is recovered by `net/http`. `recv`
looks at `chClose` in its select (`RecvTop`) and reads the field `connection` anew
afterwards (`RecvDefault`), so a `Join` may come between the two.

The loops look users up in the cache: `recv` the receiver, `send` the sender
(`CheckContact`), both their own user when they renew it. A lookup that runs while
`process` replaces that entry may find a slot without its pointer and panic; `ObjectCache`
has the lookup, and `LookupPanic` what comes of it here: the deferred function, and so
`Close`, in a loop that was about to handle or had just written a message. A lookup
that panics in the handler ends the handler with the session unregistered
(`ServeLookup`); one inside the handshake fails it.

Two simultaneous writes to one connection make gorilla/websocket panic in one of
the writers: in the later one at once, or, if that has not seen the flag of the
other, in whichever ends last. The action takes the panic of either writer at
the moment the overlap begins; a write has no effect on the rest of the state,
so that an earlier panic is an interleaving that a later one allows as well.
`clash` records that two writes have overlapped or a lookup has panicked; without
either, the only panics are those of `Close`. `crowded` records that two handlers were
in the `Join` of one session at once, which takes a third connection: `Close`
puts two values into the channel, and if recv's own `Close` comes as well, three
goroutines share the room for two and may all wait for ever.

`AtRest` says place by place that no goroutine can take a step before a client or
a message comes: it reads a connection that has nothing to read, it waits for a
channel that has no value, or it waits for room in one that is full. (On the
instance of `session_reconnect` TLC finds it equal to "no `Step` is enabled".)

Left out: the contents of messages, the single messages of the handshake (it
succeeds or fails in one step, and its connection is not read by anyone else
meanwhile), a user that expires and is registered again, and the end of the program
when Go's runtime notices a lookup during a map write (`ObjectCache` has it).

### Registration

The module stands on the abstract specification of the cache, twice: `Users` and
`RegistedKeys` are instances of `LeaseTable`, whose steps (a `Set` is put on its
way, a `Set` takes effect, a lease ends, time passes) are taken over unchanged.
What `LeaseTable` does not promise is added: while `process` writes the map of a
cache (`userWrite`, `linkWrite`) a lookup may miss any key and may find the one
that comes or goes (`Seen`).

A request is one POST to `key/register` with what comes before and after it. It
may have come over an invite link (`Join`, `SessionJoin`, `FindContact`) or not;
`TryRegister` is the lookup of the key, after which the handler either draws a
link and stores it (`DrawLink`, `RegisterLink`) or makes the two users contacts
(`AddContacts`), and stores the user (`Register`). Each is a step of its own, for
the caches change in between. The client may then sign in (`SignIn`), which looks
its key up again, and its session renews the user in two steps, because
`ObjectCache.Renew` reads the map and sends a `Set` of what it has read. A request
that is refused (a malformed one, a wrong signature, a contact with too many
contacts), and one whose handler panics on a slot without its pointer, simply goes
no further.

`rivals`, `lapsed` and `late` only serve the properties: whom a lookup of the key
overlooked, whose key the cache has given up since, and whose user was stored
before the link.

### Messaging

The same sessions and loops as in `SessionLife`, seen from the messages. `recv`
reads a message, checks it, looks the receiver up, writes to the sender's
`Contacts`, posts to the receiver's `chPost` or an error to its own; `send` takes
from the channel of its session's user, looks the sender up, writes. A step is
what lies between two points at which others interfere: the lookup and the start
of the map write are one step, the end of that write and the `Post` the next.
What `SessionLife` models statement by statement is coarse here: a handshake is
one step, the rest of the handler another (the user may have been replaced in
between), and a connection may be closed at any time. A `Join` is possible where
the handler finds a session in the slot of the registered user object.

The registry is the cache of users without its clock: any user may expire at any
time, and a user object once made may be stored again at any time, because the
request of a `Renew` that has read the object may be carried out arbitrarily
late. That is more than the cache does (`ObjectCache` has the details), so what
holds here holds of the code.

`Contacts` is written without a lock by every `recv` of the user object and by the
registration of a guest; Go's runtime ends the process when it notices two
writers, so the second one has both outcomes. What the map holds is left out:
only `AddContact` looks at its size. `BlackList` is empty, as nothing writes to it.

`Relay` is the promise: a message is taken from a connection only under the key
that signed in there, and written at most once, to a connection of the key it is
for; it may be dropped; there is no order. The mapping collects the messages in
the hands of the loops and in the channels.

### WireFormat and MessageQueue

There are three tables, each written down from its own code: what the browser's
classes read (the switch of `deserializeBinaryFromReader`: which setter and which
reader for each field number), what they write (`serializeBinaryToWriter`: which
getter and which writer), and the tags and types of the server's structs, which serve
for both. An object is a record by the names of the fields, and bytes are the set of
field numbers that are present with their wire types and values: a default value is
not written, unknown fields are skipped, a field of the wrong wire type makes the
browser's reader throw (Go would skip it; the server is only sent what the browser
writes). `Passages` says who reads what whom has written: browser to server, server to
browser, and browser to browser in the bodies that the server passes on unread. (Of
those bodies the Go code has structs as well, in which `msgId` is a number and not a
string as in the browser's; the server never parses one.)

The wire types decide which frame can pass for which: the client never checks what it
was sent and simply deserialises. A message passes for a `ServerHandShake`, because its
type is 0 and hence not written; a receipt and the text of a refusal make the reader
throw. In `ReconnectClient` a frame is what the server's structs write (`Bytes`) and the
client takes out of it what its own class reads.

A node of the queue is named after its element, which is never queued twice. The
list is kept as the code keeps it: `header`, `tail`, `prior`, `next` and `length`
are assigned piecemeal, and `tail` goes on naming a node that has left.

### ReconnectClient

Sockets are those `connect` will have made, used one after the other; the server
at the other end of each is a party with the steps handshake, confirmation,
refusal and post. `connect` is split at its awaits: the open event, the first
frame, the signature, the second frame. A message event starts reading a blob,
and blobs are read in any order; each is queued and handed to the one waiter, if
there is one. Every socket the queue has ever been given keeps its listener. Of
`onDisconnect`, what matters is whether `onclose` is set when the close event
comes and whether `connect` throws. A socket can be lost at any time together
with the last frames on it. `took` (the frames the present attempt has received),
`last` and `missed` (a close event that came before anyone listened) serve the
properties.

### ChatClient

A step is what a client does between two awaits. A message is made, sent (it gets
its msgId, the index in the archive), encrypted and signed (`outbox`), under way
(`network`, a set: nothing keeps packs in order), then handled in two parts, since
a stranger's message is decrypted and its user asked before the handler goes on.
The two lookups of contacts and sessions lie on either side of that. At the
console `accept()` and `reject()` are overwritten by the next request, so an
earlier one can no longer be answered. `Conversation` is the promise about texts;
the mapping counts at how many places a text is displayed.

### StartupGuide, ChatUI, ClientApp

`tasks` holds what the pages await; a step is a click or the end of one task with
everything up to the next await. `Guide.next`, reached from a click or from a
task, is one operator (`Advance`). `overlap` remembers that two tasks that go on
with the guide were awaited at once, which takes a click on BACK while a key is
being generated or the QR code is being drawn. Tasks that do not go on with the guide
do not count (`Aside`): the page of the conversations may connect while the QR code of
the guide it has replaced is drawn, and the client may reconnect under any page.

Every task may fail. A key may not be generated (`NotGenerated`: NEXT does nothing from
then on, BACK is left). A registration may be refused, or taken with its answer lost
(`NotRegistered`: `registered` has the key, the guide does not know), and a key the
server has taken may lapse at any time (`Lapse`), after which it can be registered
again and no connection succeeds. `connect` may reject or never return, and then keeps
the client at `connecting`. `sockets` counts the connections that are open with
`onDisconnect` set. When one ends (`Disconnected`) the client connects anew by itself;
while it does, its state is `connecting`, and a page that calls `connect` throws:
`WaitConfirm` is stuck on the last page (`failed`), and the page of the conversations
never registers for events, which stay queued.

A contact request `<<p, n>>` is the n-th of peer p. `msgHandler` takes it up if p is no
contact (`RequestComes`), decrypts twice, and then asks the page whatever has changed
meanwhile (`RequestRead`): p may have asked a second time, or have become a contact. So
a peer may be on the list more than once, once for each request.

`view` holds the components of the page and the part of the library they listen
to, and what an event does to it is a function of it, as one event may render
several times. Cards are reused by position, as React does with components whose
key is the index. `ClientApp` composes the two: every step of the guide may
complete it and open the page, every connection lets packs come.

## Runs

| Run | Instance | What it shows |
|---|---|---|
| `cache` | 2 callers, 2 keys, 1 value, life time 1, channels of 1, under fairness | agreement of list and map, no live entry leaves, refinement of `LeaseTable`; blocked callers return, removals take effect, a cache nobody uses empties itself |
| `cache_starved` | the same kind of instance, 1 caller | **violated**: an expired entry need not be removed while the cache is in use |
| `session_reconnect` | 2 connections, posted messages, symmetry | the safety of two connections of one user, and what holds when all has come to rest |
| `session_alone` | 1 connection, text and posted messages and lookups that panic, under fairness | it ends when its client hangs up, or sends text and goes on reading, unless two writes overlap or a lookup panics |
| `session_wedged` | the same | **violated**: a `Close` of a connected session need not close it |
| `registration` | 2 requests, 2 keys, 1 link, links of life time 1, symmetry | a user object replaces another only if their registrations overlapped; a session keeps getting its messages unless its registration lapsed or overlapped; a link leads to a registered user for as long as that user's life time lasts |
| `messaging_talk` | 2 users, 2 connections, 2 messages, channels of 2 | order between connections no older session has joined; a crash over `Contacts` needs a guest or a key that is connected twice |
| `messaging_progress` | 1 connection, 2 messages, also forged and broken ones, channels of 1, a guest, one of two users registered a second time, under fairness | types, refinement of `Relay`, `recv` never waits, the channel of a user whose clients read is emptied while it is served |
| `messaging_errors` | 1 connection, 1 message | **violated**: what `send` leaves out is not only what a blacklist names |
| `client_link` | 3 sockets, 2 posts, 2 calls of `connect`, under fairness | types; who waits on the queue; a ready client is signed in and will notice the end of its socket; which messages `connect` can swallow; no reconnection cuts a connection that works; the linked list is a queue; a lost connection comes back |
| `client_talk` | 2 clients, one at the console, 2 requests and 2 texts (3 together), 1 lost pack, under fairness | types; sessions are agreed on; two sessions with one peer need crossing requests or an overtaken receipt; refinement of `Conversation`; texts are confirmed at last |
| `client_app` | 3 peers, one of them the inviter, 2 keys, 1 click on BACK, 2 messages, 2 requests of a peer (3 of both together), connections that are lost and come back, symmetry | types; the key in use is one the server has taken; a button works or a task will enable one; sessions, messages and each request are shown once; cards are true |

The bounds. For the cache, two keys and two callers give every pair of requests on the
same or different keys, channels of one slot are full as soon as one request waits, and
a life time of 1 lets an entry expire before, during and after a sweep. What the run
says of safety is proved for any values, life times and capacities, so its one value and
one life time lose nothing there; an instance with two values and life times 0 and 1 has
been checked for safety as well, and takes longer than a regular run should together
with the liveness. For registration, two requests are the least that can overlap, on one
key or on two; one of them may come over the link of the other. With a life time of 1 a
link and its user can pass through every combination of not yet, stored, over and gone.
`Backlog` bounds the renewals that are on their way at once. A third request has been
simulated, and the proofs cover any number of everything. For the sessions, two
connections are the least for a `Join`, and they already give four loops on one user,
both kinds of overlap of a `Close` with a `Join`, and both orders of registration. A
third connection adds a second `Join` of the same session, also at the same time as the
first (`crowded` is never TRUE with two connections); that is beyond the reach of these
runs, but the proofs cover all six properties of `session_reconnect` for any number of
connections. Lookups that panic are in the runs with one connection. Message contents do
not matter to either model, so a "posted message" can come at any time and no number of
messages is bounded. For `Messaging`, two messages are the least that can be out of
order or in each other's way in a map; two connections let the two users talk, or let
one user reconnect and talk to itself, with the loops of both sessions sharing a
channel; a channel of one is full as soon as one message waits, so that the second meets
a full channel, or the error for it does. `MaxSent` bounds the messages and with them
everything else that is counted.

For the client's connection, three sockets are the least with which a
reconnection can be lost in its turn and leave a third one to the other call of
`connect`; two posts are the least that can overtake each other, or of which one
is swallowed and the next is not. Everything else that is counted hangs on the
sockets, each of which is used once. All properties but `Reconnects` are proved
without any bound. For the conversations, two clients with two requests let
requests cross or one be repeated, a request and two texts can overtake each
other and their receipts, and one lost pack may be any of them; three clients
differ only in what the console overwrites. The proofs cover any number. For the
page, two conversations are needed for cards to be reused and two queued requests
for one to be missed; three peers give both at once, with the inviter or without.
Two requests of one peer can both be on the list, or one be read after the other has
been accepted; `MaxTraffic` bounds requests and messages together and does not keep two
requests of one peer, or requests of three, from meeting a message.
Two keys and one BACK give the overlap of two key generations. The run has 1.8 million
states; an instance with two peers, two requests of each and two messages without the
common bound (6.5 million states) has been checked as well and takes longer than a
regular run should. The proofs cover any number of all of them.

`session_reconnect` states eventualities as invariants of states at rest (`AtRest`). This is
what a temporal property would say if the system comes to rest, without the need
for fairness, and it is compatible with symmetry.

Fairness. A goroutine that can run does run (weak fairness of its steps: Go's
scheduler is preemptive), with one exception: nothing sets a deadline for
`WriteMessage`, so a write to a connection that is open at both ends comes to its end
only if the client reads, and nothing makes a client read. In `SessionLife` the steps of
a goroutine are fair except in such a write (`Stalls`), in `Messaging` those of a loop
that it can do alone (`RecvHandle`, `SendAlone`). `TextDisconnects` and `MailMoves` say
in so many words that they are about clients that go on reading; `RecvReturns` and
`HangUpEndsSession` hold without. Go's select chooses at random among the ready cases, so
a case that is ready again and again is taken: strong fairness for the cases of
`process` and for the stop case of `send`. Clients, messages and calls are under
no fairness at all.
In `Messaging` the handler is not under fairness, because its `Join` may wait for
ever, nor is a loop's noticing that it should stop.

On the client the browser's event loop runs every task that is ready: weak
fairness of events, of blobs that are being read, of encryption and signatures.
The server goes on with its handshake. Packs under way arrive, unless the bounded
losses take them. Nobody has to call `connect`, to post, to answer a request or
to write a text. `client_app` states no eventuality and needs no fairness.

Deadlock checking is off where the system may stop: when all calls have been
made, all clients are gone, or no messages are left.

### What the violated runs show

* `ExpiredIsRemoved`. `README.md:100` says of `sessionExpire` that "The session
  without any action will be remove after this time." `process` makes a new
  `time.After` at every turn of its select (`object_cache.go:116`), so a cleanup
  happens only after a whole interval without any request. One user who is
  renewed more often than that keeps all expired entries alive.
* `CloseCloses`. `session.go:354` says `// Close the connection`. `Close` first
  puts two values into a channel for two values that only the two loops read.
  If `recv` answers a text message while `send` is writing, gorilla panics in one
  of them and both end up in `Close`: each puts in one value and waits for ever
  at its second one. The connection stays open and `Connected` stays true.
* `DiscardsAreBlacklisted`. `session.go:124` says `// Discard messages from
  blacklist`. `CheckContact` wants a sender who is registered, and the errors that
  the server posts have the sender `""`: all of them are discarded, and the
  client's `errorHandler` never runs. The black list itself is never written.

## Proofs

For every value of the constants (which satisfy only the named assumptions).

`ObjectCache_proofs`: lemmas on what appending to and removing from a list do to the set
of its elements and to its being free of duplicates; the type invariant
(`TypeCorrectness`), `ListAndMapAgree`, `SweepIsSafe`, `LiveEntriesStay` (an action
property) and `Refinement`, that every step of the cache is a step of `LeaseTable` or
leaves it as it is. The inductive invariant strengthens the agreement of list and map by
what holds in the middle of a write: the list has no key twice, the key being written is
the only one in which list and map may differ, and between the sweep's reading of the
clock and its removal the element at hand is expired and cannot be renewed, because the
only goroutine that renews is the one that sweeps.

`SessionLife_proofs`: the type invariant (`TypeCorrectness`) and
`PanicsAreContained`, that `crashed => clash`. `CrashNeedsClash` is not inductive,
since it says nothing of who is about to panic. The invariant `Inv` adds:
goroutines only work for sessions that are started and hold channels of their
own session; a channel is closed only after `Connected` of its session was reset;
no started session is started again. So a loop that panics on a closed channel
finds `Connected` false in its deferred `Close` and returns, and is never past
the first statement there; only a panic of gorilla's or one over a lookup can leave
`Connected` true.
`InvNext` has one lemma per action.

`NoneIsAbandoned` says that every open connection has a `recv`
loop that can still notice its end, or somebody inside `Close` of its session; it
holds for any number of connections and also when writes have overlapped or lookups
have panicked.
`AbandonedIsNoticed` says this of whatever session holds the connection; what is
inductive is more precise (`WatchInv`): while a connection is open, the session that
started it has neither joined another connection nor reset `Connected` (both come
after its `Close` has closed the connection), its channel is not closed, and a value
in the channel, which could end the `recv` loop, was put there by somebody who has
yet to close the connection. Each action is shown to meet six conditions (`Kept`
to `FreshKept`) that together keep this.

`ClosersReturn`, `GoneGetClosed`, `OpenGetServed` and `ConnectedStaysTrue` prove the
four properties of states at rest, for any number of connections. Their invariant
`RestInv` holds while no writes have overlapped, no lookup has panicked and no handlers
have met (`Calm`), and is at its heart a count of values. Of all who find a session
connected, only its first `recv` and one handler get past the check of `Close`
(`FewClose`); each puts in two values, and the two loops take one each when they end
(`Tally`). So when both are stuck, for which the channel has to be full, `send` still
has a value to take. Whoever gets through closes the channel, which frees the other,
unless the handler has replaced the channel; but then only `recv` is left
(`UnsetIsSealed`), and the new channel has room for it (`LaterChannels`). What a step
does is stated once per kind of step, as the value of each variable at a point, and each
part of the invariant is proved from that. `NobodyIsStuck` and `ConnectedIsServed` draw
the conclusions.

`Messaging_proofs`: `TypeCorrectness`, `CrashesNeedCompany`, `RelayKeepsItsPromise`
(`Messaging` implements `Relay`) and `MessagesKeepOrder`, for any number of connections,
user objects, keys and messages and any capacity. `Sound` has the types and what belongs
together: a loop works for a session that has signed in, under the key of its user.
`Unique` says that a message under way is in one place, the hands of one loop or one
slot of one channel; that is why a step that moves it is a step of `Relay`, whose set of
messages under way has no order. `Lined` is about order: the messages of one connection,
read along the way from the connection they are written to back to the one they came
from (written, in the hands of `send`, in the channel, in the hands of `recv`), have
ascending numbers as long as there is only one `recv` at one end and one `send` at the
other.

`Registration_proofs`: the types, and all three properties of `registration`
(`SessionsAreReached`, `TakeoversNeedOverlap`, `LinksLeadToUsers`), for any number of
requests, keys and links, any life times and any backlog. Three invariants: `Shape` says
what belongs together (a `Set` on its way is of the key and the life time of the user it
carries, a session and what it renews have the key of their client, only a request that
is far enough has been stored). `UserInv` adds that a user whose client was told is on
its way, or its key is taken, or it has lapsed (`KeptOrLapsed`), and that of two users
of one key that are past their lookup they overlapped, or one is gone for good: lapsed,
not in the cache, and with no `Set` on its way and no `Renew` that has read it to bring
it back (`OneAtATime`). A registration that finds nothing has therefore overlooked the
others, which `rivals` records, or come after they lapsed. `LinkInv` compares clocks:
the link is sent first, so a user stored after its link loses no more of his life time
than the link has of its own, whatever the two are (`Left` takes the difference of the
two life times from what is left of the link; the proof does not use that the
configuration makes them equal), and a renewal only adds to that; until then the user is
about to be stored, or was stored before the link (`Following`).

`ReconnectClient_proofs`: `LinkTypes`, `OneWaiter`, `Readiness`, `SwallowedFrames`,
`OwnSocketsStayOpen` and `Refinement`, which say that every property of
`client_link` but the liveness holds for any number of sockets, calls and posts.
What connect may conclude from a frame depends on where the frame has been, so
the inductive invariant `Inv` follows the frames. `Apart` puts each in one place
(on the wire, being read, queued, taken). `AllSent` tells from a frame how far the
server at the other end of its socket had come when it was sent: a confirmation
means that the token was signed. `InOrder` and `Confirmed` say that the
confirmation is sent before messages, so when a message is taken in its place the
confirmation is still being read. `SocketsOK` says that all sockets but the last
are closing or closed, which is why a message of another socket is a late one, and
why a reconnection has nothing open to close; `Watched` and `Alive` say whose end
will be noticed. Each action has a lemma. That the list of nodes is a queue is
`Linked`: it represents the sequence of what dequeueing will return.
`Enqueued` appends to that sequence and `Dequeued` takes its tail, also when
`tail` names a node that has gone. The sequence is defined by the recursive
function `After`; that this exists is proved with a least number for which it
would not. `WhatIsWrittenIsRead`, on `WireFormat`, says of every passage that what one
party writes by its table the other reads by its own, the fields left out included. Its
core is that the two tables agree field by field (`Agree`), which is checked class by
class: a getter paired with the wrong field number, a reader of another type or a tag
that differs between the server and the browser would break it.

`ChatClient_proofs`: `ClientTypes` (`TypeOK`) and `Agreement` (`SessionIsAgreed`).
Sessions are made out of packs, so the invariant is about these: each leads to an
entry of an archive, and its two ends are the author and the addressee of that
message. Archives only grow, so nothing under way can change this.

`ChatText_proofs`: `Refinement`, that `ChatClient` implements `Conversation`. The
invariant `TextInv` says that a text is in one place: not yet sent, in one pack,
or on display at its receiver; and that a receipt for it is made only where it is
put on display. So it is counted once, and confirmed after it was counted. A text
can reach the branch for strangers only if its sender has a session with a client
that has no contact, which `SessionIsAgreed` excludes.

`ChatText_proofs` also has `TwinsNeedCrossing` (`TwinNeedsCrossing`). Nothing in the
code keeps two sessions with one peer apart: `msgHandler` makes a session for every
receipt of a request and for every first text. So the invariant `TwinInv` follows the
only request between two clients along its way. `WaitsOnce`: its pack is in one place,
under way or waiting for the user's decision, so that it is decided once and answered
once. `TextHasSession`: a text under way was sent in a session its author has.
`LoneRequests`: as long as the two have made one request and no text has overtaken the
answer, either end has a session with the other only after the decision, and then one,
and the asker's comes with the one receipt.

`ClientApp_proofs`: `TypeCorrectness`, `AlwaysAWayOn` (`NotTrapped`), `ChatsWithHisKey`
(`KeyIsRight`), `ThePageIsCurrent` (`ViewIsCurrent`) and `TheCardsAreTrue`, which is all
of `client_app`, for any number of peers, requests, keys, clicks on BACK, messages and
losses of the connection. `AppInv` has two parts, each of which says more while nothing
has overlapped. In the part about the guide (`GuideInv`), `WayOn` tells which task will
enable a button on which page: both pages that disable their buttons await something
that enables one again, or their failure shows. It holds also with overlaps. `TasksFit`,
`ButtonsFit` and `KeyFits` need that there is one task only: it belongs to the page that
is there, so a key is registered under the user who is still the user at the end, and
nobody goes back from where the client connects. Without these a user whose key was
replaced after it had been registered would be at the end as well. That an answer may be
lost or a key lapse does not disturb them: `registered` is what the server has ever
taken, and the guide turns only on its answer. In the part about the page
(`AppViewInv`), `ViewOK` says that every index in the view leads somewhere, with or
without overlaps. `Current` says that the view agrees with the library, and is needed in
four pieces. `Calm`: a message is in one place of one session, is readable or being
decrypted or still queued for the session's listener, and a card has the state of the
message it was mounted for and is that message's listener if it is the user's own (only
such a message changes its state). `Shown`: the visible session is listened to, and
drawn. `Listed`: sessions without a listener are in the queue. `Asked`: every request
that waits for its answer is on the list, in the queue or missed, and in one place only,
and no other request is. That it comes to one place once rests on the request itself and
not on its sender, who may have others: each is read once (`HandlingOK`), and leaves the
list by its position. Before the client has signed in nothing has arrived (`Blank`), so
a new key does no harm, and afterwards the user does not change (`GuideEffect`), also
over a lost connection. Rendering and every event of the library is a function of the
view, and has a lemma that tells what it keeps (`DrawnCalm`, `RenderedKeeps`,
`SessionAddedKeeps`, `MessageAddedKeeps`, `ListeningKeeps` and so on), which the lemmas
of the actions combine.

Every invariant that a passing run checks is proved. Only model-checked: the liveness
properties (fairness is out of the prover's reach), among them `Reconnects` and
`SentIsAnswered`.

## What the models show besides

But for the first (`README.md:100` gives `sessionExpire` as the life time of a
session), no document or comment says anything about these, so they are no findings; the
properties name them as their exceptions.

* `sessionExpire` has no effect: `config.go:38` computes the life time of users from
  `inviteLinkExpire`, where `README.md:100` says that a session without any action is
  removed after `sessionExpire`. With the values of `tmcs-config.json` a user lives
  300 s and not 1800. Nothing in the code reads the setting, so no model has a state in
  which it could be told from any other number; `LinkLeadsToUser` is stated, and proved,
  for any pair of life times, and so holds of the code as it is and as documented.
* A client that stays connected and stops reading holds its `send` loop in
  `WriteMessage` for ever; its channel fills and messages to it are answered with an
  error (which `send` discards). A text message from such a client, too, is answered
  before `Close`, so that client is not disconnected (`TextDisconnects`).
* A lookup in the middle of a replacement panics. In a loop that closes the session; in
  the handler it leaves the new connection with its two loops running and registered
  with nobody.
* Two registrations of one key at the same time both succeed. The later one takes
  the place of the earlier, whose client, if it has signed in already, gets no more
  messages, and keeps the other's user alive: `Renew` looks the key up
  (`TakeoverNeedsOverlap`, `SessionIsReached`). The same happens to a client whose
  user expires while it is connected, when somebody registers the key again.
* The `Set` of a link and that of its user go through two caches, so the user may
  be stored first; the link then outlasts it (`late` in `LinkLeadsToUser`).
* Three connections of one user can wedge it: the handlers of two of them may be in
  `Join` of the session of the first at once, and if its `recv` is in `Close` as well,
  three goroutines have put values into the channel for two, and each waits for room
  for its next one (`crowded`, the exception of the four properties of states at
  rest). The connection stays open and the handlers never return.
* A listener stays on every socket the queue was given. A frame of a socket that
  was given up, if its bytes are still being read, is taken for the handshake of
  the next one, or for its confirmation (`SwallowedInARace`, `NotMixedUp`).
* Messages overtake each other, and the confirmation, while their blobs are read.
* `onclose` is set when the handshake is over: a socket that closes earlier is
  never noticed. Either the attempt stays at `connecting` for ever, with every
  later `connect` throwing, or (a frame was still being read) the client is ready
  on a dead socket (`ReadyIsAlive`). A refusal also leaves `connecting`, and
  `receive` ignores its timeout, so that a silent server does the same.
* `onDisconnect` tries once: a reconnection that is lost is not repeated
  (`Hopeless`).
* Two clients that ask each other at once may end up with two sessions each, and a
  peer's first text that overtakes its receipt makes a second one
  (`TwinNeedsCrossing`). At the console, a second request makes the first
  unanswerable.
* A pack that is lost leaves its text pending for ever (`SentIsAnswered`).
* A page that opens with the connection there (after an invitation) loses all but
  the last of the requests that waited (`ViewIsCurrent`). One that opens while the
  client is reconnecting calls `connect`, which throws: it never listens, and what comes
  stays queued for ever.
* A peer who asks twice is on the list twice, and a request that is being decrypted when
  its sender becomes a contact is listed all the same. Accepting both makes two sessions.
* A registration whose answer is lost has taken the key: trying again is refused as a
  duplicate until the key lapses, so the user must generate another. A user who lapses
  while the guide goes on meets a failed connection at its end (`NotTrapped` excepts the
  last page).
* A card that has been reused for another message keeps the state and the
  listener of the one it was made for (`CardsAreTrue` speaks of the others).
* Generating a key goes on after BACK: it replaces the key, registered or not, and
  turns whatever page is there (`overlap`). A page drawn after that may throw.
* Drawing the QR code goes on after BACK as well, and then enables NEXT on whatever
  page is there. If that is `SignUp` with a new key that is being registered, NEXT
  leads on before the key is registered, or if it cannot be (`overlap`, too).

## Not modelled

* Of registration: the reasons for a refusal (in `Registration` a refused request
  goes no further), `ContactLimit` (it refuses), the handler that shows a key (one
  lookup), the routes, and the end of the program when Go's runtime notices a
  lookup during a map write (`ObjectCache` has it).
* `LifeCycleMgr`: the server uses `ObjectCache` in its place.
* The statements of the handshake on the server (`SessionLife` and `Messaging`
  have it as one step, `ReconnectClient` as the four messages the client sees),
  and `Contacts` as a map: nothing reads what is in it.
* PGP: an encrypted or signed message is a value that only its reader can use. The
  guide and the page keep which key a message is for.
* `www/src/proto/tmcs_msg_pb.js` is modelled as it is in the repository; the
  library proper takes its classes from a submodule that is not part of the
  repository. Of the Go classes those that travel on a web socket are modelled.
* The console's commands other than `accept` and `reject`: thin calls of the
  library, at times in an order the page never uses (`quickJoin` requests a
  contact as soon as the library is told to connect).
* The log, start-up code, icons, layout, text boxes and clipboard, the tests of
  third-party type declarations, and code nobody calls.

## Plan

Done, in this order: the cache, the sessions, the relay of messages, the client's
connection, its conversations, its page, registration; each with the proofs listed
above. Left:

1. The conversations over connections that are lost and restored: `ChatClient`
   with the losses that `ReconnectClient` allows instead of a bounded number.
2. `Messaging` over `Registration` instead of a registry without a clock.

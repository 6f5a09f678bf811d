---------------------------- MODULE SessionLife -----------------------------
(***************************************************************************)
(* The life of one user's connections on the server: the web socket        *)
(* handler of src/tmcs/server_handler.go (lines 107-125) and the Session   *)
(* of src/user/session.go with its goroutines recv and send, and its       *)
(* Start, Join and Close.                                                  *)
(*                                                                         *)
(* Every connection gets a Session of its own, named here by the           *)
(* connection; the user remembers the first one, and every later handler   *)
(* makes that first Session Join the new connection.  A pair of goroutines *)
(* is started by Start and another by each Join, and none of Session's     *)
(* fields is protected: Close, Join and the loops read them anew at each   *)
(* statement, which is the grain of the actions below.                     *)
(*                                                                         *)
(* What a message says is left out: a client message makes recv go round   *)
(* its loop, a posted message makes send write to the connection.          *)
(***************************************************************************)
EXTENDS Integers

CONSTANTS
    Conns,         \* web socket connections, and the Session each one brings
    Traffic,       \* what comes by: text messages of clients, posted messages,
                   \* lookups that run into the cache's replacing of an entry
    Nil

ASSUME TrafficAssumption == Traffic \subseteq {"text", "post", "race"}

\* The channel session s makes when it starts on, or joins, connection c.
Chan == Conns \X Conns

ASSUME NilAssumption == Nil \notin Conns \cup Chan

\* Goroutines: recv and send of session s for connection c, and the handler
\* that serves connection c.
Loop == Conns \X Conns \X {"recv", "send"}
Handler == {<<c, c, "serve">> : c \in Conns}
Proc == Loop \cup Handler

\* The places inside Close, and those of a goroutine as a whole.
Closing == {"check", "push1", "push2", "shut", "unset", "seal"}
Place ==
    Closing \cup {"none", "top", "read", "echo", "select", "write", "end"}
            \cup {"default", "idle", "lookup", "assign", "swapConn", "swapChan"}

Capacity == 2      \* what make(chan int, 2) holds

VARIABLES
    peer,        \* the client's end: "absent", "up" or "gone"
    conn,        \* the server's end: "none", "open" or "closed"
    connected,   \* Session.Connected
    connection,  \* Session.connection
    chClose,     \* Session.chClose
    tokens,      \* how many values each channel holds (its capacity is 2)
    sealed,      \* the channels that are closed
    registered,  \* User.Session
    pc,          \* where each goroutine is
    deferred,    \* goroutines that are in their deferred function
    heldChan,    \* the channel a blocked send or a select waits on
    heldConn,    \* the connection a ReadMessage or WriteMessage works on
    joining,     \* the Session a handler asks to Join
    crowded,     \* for the properties: two handlers were in one Session's Join at once
    clash,       \* two goroutines have written to one connection at once, or
                 \* one has looked a user up while the cache was replacing it
    crashed      \* a panic has ended the process

ends == <<peer, conn>>
session == <<connected, connection, chClose>>
chans == <<tokens, sealed>>
held == <<heldChan, heldConn>>
joins == <<joining, crowded>>
faults == <<clash, crashed>>
vars == <<ends, session, chans, registered, pc, deferred, held, joins, faults>>

\* Type invariant: every variable keeps the shape the comments above give it,
\* so that a channel never holds more than the two values it was made for.
TypeOK ==
    /\ peer \in [Conns -> {"absent", "up", "gone"}]
    /\ conn \in [Conns -> {"none", "open", "closed"}]
    /\ connected \in [Conns -> BOOLEAN]
    /\ connection \in [Conns -> Conns]
    /\ chClose \in [Conns -> Chan \cup {Nil}]
    /\ tokens \in [Chan -> 0 .. Capacity]
    /\ sealed \subseteq Chan
    /\ registered \in Conns \cup {Nil}
    /\ pc \in [Proc -> Place]
    /\ deferred \subseteq Loop
    /\ heldChan \in [Proc -> Chan \cup {Nil}]
    /\ heldConn \in [Proc -> Conns \cup {Nil}]
    /\ joining \in [Conns -> Conns \cup {Nil}]
    /\ crowded \in BOOLEAN
    /\ clash \in BOOLEAN
    /\ crashed \in BOOLEAN

-----------------------------------------------------------------------------

\* The Session whose Close a goroutine calls.
SessionOf(p) == IF p \in Handler THEN joining[p[1]] ELSE p[1]

Goto(p, label) == pc' = [pc EXCEPT ![p] = label]

Writers(c) == {p \in Loop : pc[p] \in {"write", "echo"} /\ heldConn[p] = c}
Readers(c) == {p \in Loop : pc[p] = "read" /\ heldConn[p] = c}

\* Nobody recovers: the panic of a loop is the end of the process.
Panic_Unrecovered(p) ==
    /\ heldChan' = [heldChan EXCEPT ![p] = Nil]
    /\ heldConn' = [heldConn EXCEPT ![p] = Nil]
    /\ Goto(p, "end")
    /\ crashed' = (crashed \/ p \in Loop)
    /\ UNCHANGED deferred

\* What a panic does: the loops recover in their deferred function, which
\* calls Close; a second panic there ends the process.  A handler is
\* recovered by net/http.
Panic(p) ==
    /\ heldChan' = [heldChan EXCEPT ![p] = Nil]
    /\ heldConn' = [heldConn EXCEPT ![p] = Nil]
    /\ \/ /\ p \in Handler
          /\ Goto(p, "end")
          /\ UNCHANGED <<deferred, crashed>>
       \/ /\ p \in Loop \ deferred
          /\ Goto(p, "check")
          /\ deferred' = deferred \cup {p}
          /\ UNCHANGED crashed
       \/ /\ p \in Loop \cap deferred
          /\ crashed' = TRUE
          /\ Goto(p, "end")
          /\ UNCHANGED deferred

-----------------------------------------------------------------------------
\* Close

\* Close returns: the handler goes on with Join, a loop is over.
Return(p) ==
    /\ Goto(p, IF p \in Handler THEN "swapConn" ELSE "end")
    /\ deferred' = deferred \ {p}

CloseCheck(p) ==
    /\ ~crashed
    /\ pc[p] = "check"
    /\ \/ /\ connected[SessionOf(p)]
          /\ Goto(p, "push1")
          /\ UNCHANGED deferred
       \/ /\ ~connected[SessionOf(p)]
          /\ Return(p)
    /\ UNCHANGED <<ends, session, chans, registered, held, joins, faults>>

Room(ch) == tokens[ch] < Capacity

\* session.chClose <- 1: the channel is the one the field holds when the
\* statement starts, also when the sender has to wait for room.
PushTarget(p) == IF heldChan[p] # Nil THEN heldChan[p] ELSE chClose[SessionOf(p)]

ClosePush(p) ==
    /\ ~crashed
    /\ pc[p] \in {"push1", "push2"}
    /\ LET ch == PushTarget(p) IN
         \/ /\ ch \in sealed
            /\ Panic(p)
            /\ UNCHANGED tokens
         \/ /\ ch \notin sealed
            /\ Room(ch)
            /\ tokens' = [tokens EXCEPT ![ch] = @ + 1]
            /\ Goto(p, IF pc[p] = "push1" THEN "push2" ELSE "shut")
            /\ heldChan' = [heldChan EXCEPT ![p] = Nil]
            /\ UNCHANGED <<deferred, heldConn, crashed>>
         \/ /\ ch \notin sealed
            /\ ~Room(ch)
            /\ heldChan[p] = Nil
            /\ heldChan' = [heldChan EXCEPT ![p] = ch]
            /\ UNCHANGED <<tokens, pc, deferred, heldConn, crashed>>
    /\ UNCHANGED <<ends, session, sealed, registered, joins, clash>>

\* The connection is left open.
CloseShut_Skipped(p) ==
    /\ ~crashed
    /\ pc[p] = "shut"
    /\ Goto(p, "unset")
    /\ UNCHANGED <<ends, session, chans, registered, deferred, held, joins, faults>>

\* connection.Close()
CloseShut(p) ==
    /\ ~crashed
    /\ pc[p] = "shut"
    /\ conn' = [conn EXCEPT ![connection[SessionOf(p)]] = "closed"]
    /\ Goto(p, "unset")
    /\ UNCHANGED <<peer, session, chans, registered, deferred, held, joins, faults>>

\* Connected is not reset.
CloseUnset_Kept(p) ==
    /\ ~crashed
    /\ pc[p] = "unset"
    /\ Goto(p, "seal")
    /\ UNCHANGED <<ends, session, chans, registered, deferred, held, joins, faults>>

\* Connected = false
CloseUnset(p) ==
    /\ ~crashed
    /\ pc[p] = "unset"
    /\ connected' = [connected EXCEPT ![SessionOf(p)] = FALSE]
    /\ Goto(p, "seal")
    /\ UNCHANGED <<ends, connection, chClose, chans, registered, deferred, held, joins, faults>>

\* The channel is never closed.
CloseSeal_Skipped(p) ==
    /\ ~crashed
    /\ pc[p] = "seal"
    /\ Return(p)
    /\ UNCHANGED <<ends, session, chans, registered, held, joins, faults>>

\* close(chClose), which panics when it is closed already
CloseSeal(p) ==
    /\ ~crashed
    /\ pc[p] = "seal"
    /\ LET ch == chClose[SessionOf(p)] IN
         \/ /\ ch \in sealed
            /\ Panic(p)
            /\ UNCHANGED sealed
         \/ /\ ch \notin sealed
            /\ sealed' = sealed \cup {ch}
            /\ Return(p)
            /\ UNCHANGED <<held, crashed>>
    /\ UNCHANGED <<ends, session, tokens, registered, joins, clash>>

Close(p) == CloseCheck(p) \/ ClosePush(p) \/ CloseShut(p) \/ CloseUnset(p) \/ CloseSeal(p)

-----------------------------------------------------------------------------
\* recv

\* The select at the top of the loop.
RecvTop(p) ==
    /\ ~crashed
    /\ p[3] = "recv" /\ pc[p] = "top"
    /\ LET ch == chClose[p[1]] IN
         \/ /\ tokens[ch] > 0
            /\ tokens' = [tokens EXCEPT ![ch] = @ - 1]
            /\ Goto(p, "end")
         \/ /\ tokens[ch] = 0 /\ ch \in sealed
            /\ Goto(p, "end")
            /\ UNCHANGED tokens
         \/ /\ tokens[ch] = 0 /\ ch \notin sealed
            /\ Goto(p, "default")
            /\ UNCHANGED tokens
    /\ UNCHANGED <<ends, session, sealed, registered, deferred, held, joins, faults>>

\* On its default ReadMessage, of the connection the field holds by then.
RecvDefault(p) ==
    /\ ~crashed
    /\ p[3] = "recv" /\ pc[p] = "default"
    /\ heldConn' = [heldConn EXCEPT ![p] = connection[p[1]]]
    /\ Goto(p, "read")
    /\ UNCHANGED <<ends, session, chans, registered, deferred, heldChan, joins, faults>>

\* A message of the client, whatever becomes of it, unless a lookup panics.
RecvMessage(p) ==
    /\ ~crashed
    /\ p[3] = "recv" /\ pc[p] = "read"
    /\ conn[heldConn[p]] = "open" /\ peer[heldConn[p]] = "up"
    /\ heldConn' = [heldConn EXCEPT ![p] = Nil]
    /\ Goto(p, "top")
    /\ UNCHANGED <<ends, session, chans, registered, deferred, heldChan, joins, faults>>

\* The loop gives up without Close.
RecvError_Quiet(p) ==
    /\ ~crashed
    /\ p[3] = "recv" /\ pc[p] = "read"
    /\ \/ conn[heldConn[p]] = "closed"
       \/ peer[heldConn[p]] = "gone"
       \/ Readers(heldConn[p]) # {p}
    /\ heldConn' = [heldConn EXCEPT ![p] = Nil]
    /\ Goto(p, "end")
    /\ UNCHANGED <<ends, session, chans, registered, deferred, heldChan, joins, faults>>

\* ReadMessage fails: an end is closed, or two readers have torn a frame.
RecvError(p) ==
    /\ ~crashed
    /\ p[3] = "recv" /\ pc[p] = "read"
    /\ \/ conn[heldConn[p]] = "closed"
       \/ peer[heldConn[p]] = "gone"
       \/ Readers(heldConn[p]) # {p}
    /\ heldConn' = [heldConn EXCEPT ![p] = Nil]
    /\ Goto(p, "check")
    /\ UNCHANGED <<ends, session, chans, registered, deferred, heldChan, joins, faults>>

\* A WriteMessage starts.  When two overlap, gorilla panics in one of them:
\* in the later at its start or, if that has missed the other, in whichever
\* ends last.  Nothing but its own writes depends on when that is.
BeginWrite(p, label) ==
    LET c == connection[p[1]] IN
    /\ heldChan' = [heldChan EXCEPT ![p] = Nil]
    /\ \/ /\ Writers(c) = {}
          /\ heldConn' = [heldConn EXCEPT ![p] = c]
          /\ Goto(p, label)
          /\ UNCHANGED <<deferred, clash>>
       \/ /\ Writers(c) # {}
          /\ \E loser \in Writers(c) \cup {p} :
               /\ heldConn' = [heldConn EXCEPT ![p] = c, ![loser] = Nil]
               /\ pc' = [pc EXCEPT ![p] = label, ![loser] = "check"]
               /\ deferred' = deferred \cup {loser}
          /\ clash' = TRUE

EndWrite(p, label) ==
    /\ heldConn' = [heldConn EXCEPT ![p] = Nil]
    /\ Goto(p, label)
    /\ UNCHANGED <<deferred, heldChan, clash>>

\* A text message: recv answers on the connection and calls Close.
RecvText(p) ==
    /\ ~crashed
    /\ "text" \in Traffic
    /\ p[3] = "recv" /\ pc[p] = "read"
    /\ conn[heldConn[p]] = "open" /\ peer[heldConn[p]] = "up"
    /\ BeginWrite(p, "echo")
    /\ UNCHANGED <<ends, session, chans, registered, joins, crashed>>

\* After the answer the loop goes on.
RecvEchoed_GoesOn(p) ==
    /\ ~crashed
    /\ pc[p] = "echo"
    /\ EndWrite(p, "top")
    /\ UNCHANGED <<ends, session, chans, registered, joins, crashed>>

RecvEchoed(p) ==
    /\ ~crashed
    /\ pc[p] = "echo"
    /\ EndWrite(p, "check")
    /\ UNCHANGED <<ends, session, chans, registered, joins, crashed>>

Recv(p) == RecvTop(p) \/ RecvDefault(p) \/ RecvError(p) \/ RecvEchoed(p)

-----------------------------------------------------------------------------
\* send

\* The select is entered with the channel the field holds now.
SendTop(p) ==
    /\ ~crashed
    /\ p[3] = "send" /\ pc[p] = "top"
    /\ heldChan' = [heldChan EXCEPT ![p] = chClose[p[1]]]
    /\ Goto(p, "select")
    /\ UNCHANGED <<ends, session, chans, registered, deferred, heldConn, joins, faults>>

\* A token or the closing of the channel ends the loop.
SendStop(p) ==
    /\ ~crashed
    /\ p[3] = "send" /\ pc[p] = "select"
    /\ LET ch == heldChan[p] IN
         \/ /\ tokens[ch] > 0
            /\ tokens' = [tokens EXCEPT ![ch] = @ - 1]
         \/ /\ tokens[ch] = 0 /\ ch \in sealed
            /\ UNCHANGED tokens
    /\ heldChan' = [heldChan EXCEPT ![p] = Nil]
    /\ Goto(p, "end")
    /\ UNCHANGED <<ends, session, sealed, registered, deferred, heldConn, joins, faults>>

\* A message of chPost passes CheckContact and is written, unless a lookup panics.
SendMessage(p) ==
    /\ ~crashed
    /\ "post" \in Traffic
    /\ p[3] = "send" /\ pc[p] = "select"
    /\ BeginWrite(p, "write")
    /\ UNCHANGED <<ends, session, chans, registered, joins, crashed>>

\* The result of WriteMessage is not looked at.  The user is renewed, unless that
\* lookup panics.
SendWritten(p) ==
    /\ ~crashed
    /\ pc[p] = "write"
    /\ EndWrite(p, "top")
    /\ UNCHANGED <<ends, session, chans, registered, joins, crashed>>

Send(p) == SendTop(p) \/ SendStop(p) \/ SendWritten(p)

\* A lookup in the cache that runs while the cache replaces that entry finds an
\* empty slot and panics (RenewGet of ObjectCache): in recv that of the receiver,
\* or of Renew, once a message is read; in send that of the sender (CheckContact)
\* before the write, or of Renew after it.
LookupPanic(p) ==
    /\ ~crashed
    /\ "race" \in Traffic
    /\ \/ pc[p] = "read" /\ conn[heldConn[p]] = "open" /\ peer[heldConn[p]] = "up"
       \/ pc[p] = "select" /\ "post" \in Traffic
       \/ pc[p] = "write"
    /\ heldChan' = [heldChan EXCEPT ![p] = Nil]
    /\ heldConn' = [heldConn EXCEPT ![p] = Nil]
    /\ Goto(p, "check")
    /\ deferred' = deferred \cup {p}
    /\ clash' = TRUE
    /\ UNCHANGED <<ends, session, chans, registered, joins, crashed>>

-----------------------------------------------------------------------------
\* The handler

\* Start forgets the loop that sends.
ServeStart_NoSend(c) ==
    LET p == <<c, c, "serve">> IN
    /\ ~crashed
    /\ pc[p] = "idle"
    /\ peer' = [peer EXCEPT ![c] = "up"]
    /\ conn' = [conn EXCEPT ![c] = "open"]
    /\ connected' = [connected EXCEPT ![c] = TRUE]
    /\ chClose' = [chClose EXCEPT ![c] = <<c, c>>]
    /\ pc' = [pc EXCEPT ![p] = "lookup", ![<<c, c, "recv">>] = "top"]
    /\ UNCHANGED <<connection, chans, registered, deferred, held, joins, faults>>

\* A client connects; if the handshake succeeds, Start fills the session and
\* starts its goroutines.
ServeStart(c) ==
    LET p == <<c, c, "serve">> IN
    /\ ~crashed
    /\ pc[p] = "idle"
    /\ \/ /\ peer' = [peer EXCEPT ![c] = "up"]
          /\ conn' = [conn EXCEPT ![c] = "open"]
          /\ connected' = [connected EXCEPT ![c] = TRUE]
          /\ chClose' = [chClose EXCEPT ![c] = <<c, c>>]
          /\ pc' = [pc EXCEPT ![p] = "lookup",
                              ![<<c, c, "recv">>] = "top", ![<<c, c, "send">>] = "top"]
       \/ /\ conn' = [conn EXCEPT ![c] = "closed"]
          /\ Goto(p, "end")
          /\ UNCHANGED <<peer, connected, chClose>>
    /\ UNCHANGED <<connection, chans, registered, deferred, held, joins, faults>>

\* The handler of connection d is inside Join of session s.
InJoin(d, s) == joining[d] = s /\ pc[<<d, d, "serve">>] # "end"

\* The user is looked up again: it has a Session, or has none yet, or has
\* expired (the type assertion on nil panics; so does a lookup that finds an
\* empty slot).
ServeLookup(c) ==
    LET p == <<c, c, "serve">> IN
    /\ ~crashed
    /\ pc[p] = "lookup"
    /\ \/ /\ registered # Nil
          /\ joining' = [joining EXCEPT ![c] = registered]
          /\ crowded' = (crowded \/ \E d \in Conns \ {c} : InJoin(d, registered))
          /\ Goto(p, "check")
       \/ /\ registered = Nil
          /\ Goto(p, "assign")
          /\ UNCHANGED joins
       \/ /\ Goto(p, "end")
          /\ UNCHANGED joins
    /\ UNCHANGED <<ends, session, chans, registered, deferred, held, faults>>

ServeAssign(c) ==
    /\ ~crashed
    /\ pc[<<c, c, "serve">>] = "assign"
    /\ registered' = c
    /\ Goto(<<c, c, "serve">>, "end")
    /\ UNCHANGED <<ends, session, chans, deferred, held, joins, faults>>

\* Join after its Close: connection, then chClose and the two goroutines.
ServeJoinConn(c) ==
    /\ ~crashed
    /\ pc[<<c, c, "serve">>] = "swapConn"
    /\ connection' = [connection EXCEPT ![joining[c]] = c]
    /\ Goto(<<c, c, "serve">>, "swapChan")
    /\ UNCHANGED <<ends, connected, chClose, chans, registered, deferred, held, joins, faults>>

ServeJoinLoops(c) ==
    LET s == joining[c] IN
    /\ ~crashed
    /\ pc[<<c, c, "serve">>] = "swapChan"
    /\ chClose' = [chClose EXCEPT ![s] = <<s, c>>]
    /\ pc' = [pc EXCEPT ![<<c, c, "serve">>] = "end",
                        ![<<s, c, "recv">>] = "top", ![<<s, c, "send">>] = "top"]
    /\ joining' = [joining EXCEPT ![c] = Nil]
    /\ UNCHANGED <<crowded, ends, connected, connection, chans, registered, deferred, held, faults>>

Serve(c) == ServeLookup(c) \/ ServeAssign(c) \/ ServeJoinConn(c) \/ ServeJoinLoops(c)

\* The client closes its end, or the network does.
ClientGone(c) ==
    /\ ~crashed
    /\ peer[c] = "up"
    /\ peer' = [peer EXCEPT ![c] = "gone"]
    /\ UNCHANGED <<conn, session, chans, registered, pc, deferred, held, joins, faults>>

-----------------------------------------------------------------------------

Init ==
    /\ peer = [c \in Conns |-> "absent"]
    /\ conn = [c \in Conns |-> "none"]
    /\ connected = [s \in Conns |-> FALSE]
    /\ connection = [s \in Conns |-> s]
    /\ chClose = [s \in Conns |-> Nil]
    /\ tokens = [ch \in Chan |-> 0]
    /\ sealed = {}
    /\ registered = Nil
    /\ pc = [p \in Proc |-> IF p \in Handler THEN "idle" ELSE "none"]
    /\ deferred = {}
    /\ heldChan = [p \in Proc |-> Nil]
    /\ heldConn = [p \in Proc |-> Nil]
    /\ joining = [c \in Conns |-> Nil]
    /\ crowded = FALSE
    /\ clash = FALSE
    /\ crashed = FALSE

Next ==
    \/ \E c \in Conns : ServeStart(c) \/ Serve(c) \/ ClientGone(c)
    \/ \E p \in Loop : Recv(p) \/ RecvMessage(p) \/ RecvText(p)
    \/ \E p \in Loop : Send(p) \/ SendMessage(p) \/ LookupPanic(p)
    \/ \E p \in Proc : Close(p)

Spec == Init /\ [][Next]_vars

\* A write to a client that is connected and reads nothing: nothing sets a
\* deadline, so it may last for ever.
Stalls(p) ==
    /\ pc[p] \in {"write", "echo"}
    /\ conn[heldConn[p]] = "open" /\ peer[heldConn[p]] = "up"

\* A goroutine that can run does run, unless it is in such a write, and a select
\* that finds a token again and again takes it.  Clients and messages come as
\* they like.
Step(p) ==
    Close(p) \/ IF p \in Handler THEN Serve(p[1]) ELSE Recv(p) \/ Send(p)

Fairness ==
    /\ \A p \in Proc : WF_vars(~Stalls(p) /\ Step(p))
    /\ \A p \in Loop : SF_vars(SendStop(p))

FairSpec == Spec /\ Fairness

-----------------------------------------------------------------------------
\* Properties

\* What a goroutine does that can take no step before a client or a message comes:
\* its connection has nothing to read, its channel has no value, or has no room.
AtRead(p) ==
    /\ pc[p] = "read"
    /\ conn[heldConn[p]] # "closed" /\ peer[heldConn[p]] # "gone"
    /\ Readers(heldConn[p]) = {p}
AtSelect(p) == pc[p] = "select" /\ tokens[heldChan[p]] = 0 /\ heldChan[p] \notin sealed
AtPush(p) ==
    /\ pc[p] \in {"push1", "push2"} /\ heldChan[p] # Nil
    /\ ~Room(heldChan[p]) /\ heldChan[p] \notin sealed
AtRest ==
    \A p \in Proc :
      pc[p] \in {"none", "idle", "end"} \/ AtRead(p) \/ AtSelect(p) \/ AtPush(p)

\* Nothing but two goroutines writing to one connection at the same time, or a
\* lookup that runs into the cache's replacing of an entry, ends the process.
\* Close may well panic (its channel is closed under it by another Close); what
\* saves the process is that the deferred Close then finds Connected already
\* reset and returns before it can panic again.
CrashNeedsClash == crashed => clash

\* The end of a client does not go unnoticed, whatever has joined what: a recv
\* loop whose session holds that connection is alive, or someone is closing it.
AbandonedIsNoticed ==
    \A c \in Conns :
      conn[c] = "open" /\ peer[c] = "gone" =>
        \/ \E p \in Loop : p[3] = "recv" /\ connection[p[1]] = c /\ pc[p] \notin {"none", "end"}
        \/ \E p \in Proc : pc[p] \in Closing /\ connection[SessionOf(p)] = c

\* The four properties of a state at rest are about sessions whose writes have not
\* overlapped, whose lookups have not panicked and that two handlers have not asked
\* to Join at the same time: with recv's own Close those would be three that put
\* values into a channel for two, and may all wait for room in it for ever.

\* Without such overlaps nobody is left inside Close for ever, although every
\* Close puts two values into a channel for two and only the two loops take any
\* out: the Close that wins closes the channel under the others.
ClosersFinish == ~clash /\ ~crowded /\ AtRest => \A p \in Proc : pc[p] \notin Closing

\* Without such overlaps the server's end of a connection whose client is gone is
\* closed when everything has come to rest.
GoneIsClosed ==
    ~clash /\ ~crowded /\ AtRest => \A c \in Conns : peer[c] = "gone" => conn[c] = "closed"

\* Without such overlaps a connection that is open at both ends is served when
\* everything has come to rest: some recv waits for what its client says and
\* some send waits for what it is sent, also after another handler's Join has
\* closed, or replaced, the connection of the session the user keeps.
OpenIsServed ==
    ~clash /\ ~crowded /\ AtRest =>
      \A c \in Conns :
        conn[c] = "open" /\ peer[c] = "up" =>
          /\ \E p \in Loop : pc[p] = "read" /\ heldConn[p] = c
          /\ \E p \in Loop : pc[p] = "select" /\ connection[p[1]] = c

\* Without such overlaps a Session says it is Connected, when everything has
\* come to rest, only if the connection it now holds is open.
ConnectedIsOpen ==
    ~clash /\ ~crowded /\ AtRest => \A s \in Conns : connected[s] => conn[connection[s]] = "open"

\* When the client of a connection is gone, the connection is closed in the
\* end and its own two loops return, unless two writes overlap or a lookup panics.
HangUpEndsSession ==
    \A c \in Conns :
      peer[c] = "gone" ~>
        \/ clash
        \/ /\ conn[c] = "closed"
           /\ \A what \in {"recv", "send"} : pc[<<c, c, what>>] = "end"

\* A client that sends a text message and goes on reading is disconnected, unless
\* the answer overlaps with a message that is being sent or a lookup panics.
TextDisconnects ==
    (\A p \in Loop : []<>~Stalls(p)) =>
      \A c \in Conns : pc[<<c, c, "recv">>] = "echo" ~> clash \/ conn[c] = "closed"

\* A Close that finds its session connected closes the connection in the end.
CloseCloses ==
    \A c \in Conns : \A what \in {"recv", "send"} :
      pc[<<c, c, what>>] = "push1" ~> conn[connection[c]] = "closed"

=============================================================================

------------------------- MODULE SessionLife_proofs -------------------------
(***************************************************************************)
(* Proofs about SessionLife, for every set of connections and every kind   *)
(* of traffic, in three parts.                                             *)
(*                                                                         *)
(* The types, and that nothing but two overlapping writes ends the         *)
(* process.  Close can panic, and it is called again by the deferred       *)
(* function of the loop that panicked.  The argument is that the first     *)
(* panic happens on a channel that is closed, that a channel is closed     *)
(* only after Connected was reset, and that no session is ever connected   *)
(* again; so the second Close returns at once.                             *)
(*                                                                         *)
(* That the end of a client is noticed.  A connection is opened by Start,  *)
(* together with the recv loop that reads from it, and Join replaces a     *)
(* session's connection only after Close has closed it.  So an open        *)
(* connection is still the one its own session started with; that session  *)
(* has not been closed, its recv loop ends by itself only if it takes a    *)
(* value that another Close has put into the channel, and whoever puts     *)
(* values there goes on to close the connection.                           *)
(*                                                                         *)
(* What holds when everything has come to rest: nobody is stuck in Close,  *)
(* and what is open is served.  The argument is given at its beginning.    *)
(***************************************************************************)
EXTENDS SessionLife, TLAPS

\* A session that Start has filled; it stays so.
Started(s) == chClose[s] # Nil

\* The channels a goroutine meets belong to the session it works for.
OwnChannels ==
    /\ \A s \in Conns : Started(s) => chClose[s][1] = s
    /\ \A p \in Loop : heldChan[p] # Nil => heldChan[p][1] = p[1]
    /\ \A p \in Handler :
         heldChan[p] # Nil => pc[p] \in {"push1", "push2"} /\ heldChan[p][1] = joining[p[1]]

\* Nobody works for a session that is not started.
WorkIsStarted ==
    /\ registered # Nil => Started(registered)
    /\ \A p \in Loop : pc[p] # "none" => Started(p[1])
    /\ \A p \in Handler :
         /\ pc[p] = "idle" => ~Started(p[1])
         /\ pc[p] \in {"lookup", "assign"} => Started(p[1])
         /\ pc[p] \in Closing \cup {"swapConn", "swapChan"} =>
              joining[p[1]] \in Conns /\ Started(joining[p[1]])

\* A channel is closed only after Connected was reset.
SealedIsUnset ==
    /\ \A ch \in sealed : Started(ch[1]) /\ ~connected[ch[1]]
    /\ \A p \in Proc : pc[p] = "seal" => ~connected[SessionOf(p)]

\* A loop that a failed Close has sent into its deferred function works for a
\* session that is no longer connected, and does not get past Close's check.
DeferredIsUnset ==
    ~clash =>
      \A p \in deferred :
        Started(p[1]) /\ ~connected[p[1]] /\ pc[p] \notin Closing \ {"check"}

Inv ==
    /\ TypeOK
    /\ OwnChannels
    /\ WorkIsStarted
    /\ SealedIsUnset
    /\ DeferredIsUnset
    /\ CrashNeedsClash

-----------------------------------------------------------------------------

\* What the proofs need to know of the names of goroutines and channels.
LEMMA Names ==
    /\ Proc = Loop \cup Handler
    /\ \A p \in Loop : p[1] \in Conns /\ p \notin Handler
    /\ \A p \in Handler : p[1] \in Conns /\ p = <<p[1], p[1], "serve">>
    /\ \A c \in Conns : <<c, c, "serve">> \in Handler /\ <<c, c, "serve">>[1] = c
    /\ \A s, c \in Conns : \A what \in {"recv", "send"} :
         <<s, c, what>> \in Loop /\ <<s, c, what>>[1] = s
    /\ \A ch \in Chan : ch[1] \in Conns /\ ch # Nil
    /\ \A s, c \in Conns : <<s, c>> \in Chan /\ <<s, c>>[1] = s
  <1>1. \A p \in Loop : p[1] \in Conns /\ p[3] \in {"recv", "send"}
    BY DEF Loop
  <1>2. \A p \in Handler : p[1] \in Conns /\ p[3] = "serve" /\ p = <<p[1], p[1], "serve">>
    BY DEF Handler
  <1>3. \A c \in Conns : <<c, c, "serve">> \in Handler /\ <<c, c, "serve">>[1] = c
    BY DEF Handler
  <1>4. \A s, c \in Conns : \A what \in {"recv", "send"} :
          <<s, c, what>> \in Loop /\ <<s, c, what>>[1] = s
    BY DEF Loop
  <1>5. \A ch \in Chan : ch[1] \in Conns /\ ch # Nil
    BY NilAssumption DEF Chan
  <1>6. \A s, c \in Conns : <<s, c>> \in Chan /\ <<s, c>>[1] = s
    BY DEF Chan
  <1> QED
    BY <1>1, <1>2, <1>3, <1>4, <1>5, <1>6 DEF Proc

\* A goroutine inside Close works for a session that is started, and puts its
\* values into a channel of that session.
LEMMA Closer ==
    ASSUME TypeOK, OwnChannels, WorkIsStarted, NEW p \in Proc, pc[p] \in Closing
    PROVE  /\ SessionOf(p) \in Conns
           /\ Started(SessionOf(p))
           /\ chClose[SessionOf(p)] \in Chan
           /\ chClose[SessionOf(p)][1] = SessionOf(p)
           /\ PushTarget(p) \in Chan
           /\ PushTarget(p)[1] = SessionOf(p)
  <1>1. SessionOf(p) \in Conns /\ Started(SessionOf(p))
    <2>1. CASE p \in Loop
      BY <2>1, Names DEF WorkIsStarted, SessionOf, Closing
    <2>2. CASE p \in Handler
      BY <2>2 DEF WorkIsStarted, SessionOf
    <2> QED
      BY <2>1, <2>2, Names
  <1>2. chClose[SessionOf(p)] \in Chan /\ chClose[SessionOf(p)][1] = SessionOf(p)
    BY <1>1 DEF TypeOK, OwnChannels, Started
  <1>3. heldChan[p] # Nil => heldChan[p] \in Chan /\ heldChan[p][1] = SessionOf(p)
    BY Names DEF TypeOK, OwnChannels, SessionOf
  <1> QED
    BY <1>1, <1>2, <1>3 DEF PushTarget

\* The invariant holds at the start.
LEMMA InvInit == Init => Inv
  <1> SUFFICES ASSUME Init PROVE Inv
    OBVIOUS
  <1>1. TypeOK
    <2>1. pc \in [Proc -> Place]
      BY DEF Init, Place
    <2>2. tokens \in [Chan -> 0 .. Capacity]
      BY DEF Init, Capacity
    <2> QED
      BY <2>1, <2>2 DEF Init, TypeOK
  <1>2. OwnChannels
    BY Names DEF Init, OwnChannels, Started
  <1>3. WorkIsStarted
    BY Names DEF Init, WorkIsStarted, Started, Closing
  <1>4. SealedIsUnset /\ DeferredIsUnset /\ CrashNeedsClash
    BY Names DEF Init, SealedIsUnset, DeferredIsUnset, CrashNeedsClash
  <1> QED
    BY <1>1, <1>2, <1>3, <1>4 DEF Inv

-----------------------------------------------------------------------------
\* Every action keeps the invariant.

\* Close reads Connected.
LEMMA CloseCheckKeeps == ASSUME Inv, NEW p \in Proc, CloseCheck(p) PROVE Inv'
  <1> USE DEF Inv
  <1>1. TypeOK'
    BY DEF TypeOK, Place, Closing, CloseCheck, Goto, ends, session, chans, held,
       faults, Return, joins
  <1>2. OwnChannels'
    BY Names DEF TypeOK, OwnChannels, Started, CloseCheck, Goto, session, held, Return, joins
  <1>3. WorkIsStarted'
    BY Names DEF TypeOK, WorkIsStarted, Started, Closing, CloseCheck, Goto, session,
       Return, joins
  <1>4. SealedIsUnset'
    BY DEF TypeOK, SealedIsUnset, Started, SessionOf, CloseCheck, Goto, session,
       chans, Return, joins
  <1>5. DeferredIsUnset'
    BY Names DEF TypeOK, DeferredIsUnset, Started, SessionOf, CloseCheck, Goto,
       session, faults, Return
  <1>6. CrashNeedsClash'
    BY DEF CrashNeedsClash, CloseCheck, faults
  <1> QED
    BY <1>1, <1>2, <1>3, <1>4, <1>5, <1>6

\* Close closes the connection.
LEMMA CloseShutKeeps == ASSUME Inv, NEW p \in Proc, CloseShut(p) PROVE Inv'
  <1> USE DEF Inv
  <1>1. TypeOK'
    BY DEF TypeOK, Place, Closing, CloseShut, Goto, session, chans, held, faults, joins
  <1>2. OwnChannels'
    BY DEF OwnChannels, Started, CloseShut, Goto, session, held, joins
  <1>3. WorkIsStarted'
    BY DEF WorkIsStarted, Started, Closing, CloseShut, Goto, session, joins
  <1>4. SealedIsUnset'
    BY DEF SealedIsUnset, Started, SessionOf, CloseShut, Goto, session, chans, joins
  <1>5. DeferredIsUnset'
    BY DEF DeferredIsUnset, Started, Closing, CloseShut, Goto, session, faults
  <1>6. CrashNeedsClash'
    BY DEF CrashNeedsClash, CloseShut, faults
  <1> QED
    BY <1>1, <1>2, <1>3, <1>4, <1>5, <1>6

\* Close resets Connected.
LEMMA CloseUnsetKeeps == ASSUME Inv, NEW p \in Proc, CloseUnset(p) PROVE Inv'
  <1> USE DEF Inv
  <1>1. TypeOK'
    BY DEF TypeOK, Place, Closing, CloseUnset, Goto, ends, chans, held, faults, joins
  <1>2. OwnChannels'
    BY DEF OwnChannels, Started, CloseUnset, Goto, held, joins
  <1>3. WorkIsStarted'
    BY DEF WorkIsStarted, Started, Closing, CloseUnset, Goto, joins
  <1>4. SealedIsUnset'
    BY Closer DEF TypeOK, SealedIsUnset, Started, SessionOf, Closing, CloseUnset,
       Goto, chans, joins
  <1>5. DeferredIsUnset'
    BY DEF DeferredIsUnset, Started, Closing, CloseUnset, Goto, faults
  <1>6. CrashNeedsClash'
    BY DEF CrashNeedsClash, CloseUnset, faults
  <1> QED
    BY <1>1, <1>2, <1>3, <1>4, <1>5, <1>6

\* A recv loop takes a value of its own session's channel and ends, or goes on
\* to read.
LEMMA RecvTopKeeps == ASSUME Inv, NEW p \in Loop, RecvTop(p) PROVE Inv'
  <1> USE DEF Inv
  <1>1. TypeOK'
    BY Names DEF TypeOK, Place, Capacity, RecvTop, Goto, held, ends, session, faults, joins
  <1>2. OwnChannels'
    BY Names DEF TypeOK, OwnChannels, Started, RecvTop, Goto, held, session, joins
  <1>3. WorkIsStarted'
    BY Names DEF TypeOK, WorkIsStarted, Started, RecvTop, Goto, session, joins
  <1>4. SealedIsUnset'
    BY DEF TypeOK, SealedIsUnset, Started, SessionOf, RecvTop, Goto, session, joins
  <1>5. DeferredIsUnset'
    BY Names DEF TypeOK, DeferredIsUnset, Started, Closing, RecvTop, Goto, session,
       faults
  <1>6. CrashNeedsClash'
    BY DEF CrashNeedsClash, RecvTop, faults
  <1> QED
    BY <1>1, <1>2, <1>3, <1>4, <1>5, <1>6

\* A recv loop begins to read the connection its session holds.
LEMMA RecvDefaultKeeps == ASSUME Inv, NEW p \in Loop, RecvDefault(p) PROVE Inv'
  <1> USE DEF Inv
  <1>1. TypeOK'
    BY Names DEF TypeOK, Place, RecvDefault, Goto, ends, session, chans, faults, joins
  <1>2. OwnChannels'
    BY DEF OwnChannels, Started, RecvDefault, Goto, session, joins
  <1>3. WorkIsStarted'
    BY Names DEF WorkIsStarted, Started, RecvDefault, Goto, session, joins
  <1>4. SealedIsUnset'
    BY DEF SealedIsUnset, Started, SessionOf, RecvDefault, Goto, session, chans, joins
  <1>5. DeferredIsUnset'
    BY DEF DeferredIsUnset, Started, Closing, RecvDefault, Goto, session, faults
  <1>6. CrashNeedsClash'
    BY DEF CrashNeedsClash, RecvDefault, faults
  <1> QED
    BY <1>1, <1>2, <1>3, <1>4, <1>5, <1>6

\* A message is read and handled.
LEMMA RecvMessageKeeps == ASSUME Inv, NEW p \in Loop, RecvMessage(p) PROVE Inv'
  <1> USE DEF Inv
  <1>1. TypeOK'
    BY DEF TypeOK, Place, RecvMessage, Goto, ends, session, chans, faults, joins
  <1>2. OwnChannels'
    BY DEF OwnChannels, Started, RecvMessage, Goto, session, joins
  <1>3. WorkIsStarted'
    BY Names DEF WorkIsStarted, Started, RecvMessage, Goto, session, joins
  <1>4. SealedIsUnset'
    BY DEF SealedIsUnset, Started, SessionOf, RecvMessage, Goto, session, chans, joins
  <1>5. DeferredIsUnset'
    BY DEF DeferredIsUnset, Started, Closing, RecvMessage, Goto, session, faults
  <1>6. CrashNeedsClash'
    BY DEF CrashNeedsClash, RecvMessage, faults
  <1> QED
    BY <1>1, <1>2, <1>3, <1>4, <1>5, <1>6

\* A read fails and Close begins.
LEMMA RecvErrorKeeps == ASSUME Inv, NEW p \in Loop, RecvError(p) PROVE Inv'
  <1> USE DEF Inv
  <1>1. TypeOK'
    BY DEF TypeOK, Place, Closing, RecvError, Goto, ends, session, chans, faults, joins
  <1>2. OwnChannels'
    BY DEF OwnChannels, Started, RecvError, Goto, session, joins
  <1>3. WorkIsStarted'
    BY Names DEF WorkIsStarted, Started, RecvError, Goto, session, joins
  <1>4. SealedIsUnset'
    BY DEF SealedIsUnset, Started, SessionOf, RecvError, Goto, session, chans, joins
  <1>5. DeferredIsUnset'
    BY DEF DeferredIsUnset, Started, RecvError, Goto, session, faults
  <1>6. CrashNeedsClash'
    BY DEF CrashNeedsClash, RecvError, faults
  <1> QED
    BY <1>1, <1>2, <1>3, <1>4, <1>5, <1>6

\* A text message is answered, or gorilla panics and the deferred Close begins.
LEMMA RecvTextKeeps == ASSUME Inv, NEW p \in Loop, RecvText(p) PROVE Inv'
  <1> USE DEF Inv
  <1>1. TypeOK'
    <2>1. connection[p[1]] \in Conns /\ p \in Proc
      BY Names DEF TypeOK
    <2>2. pc' \in [Proc -> Place] /\ deferred' \subseteq Loop
      BY Names DEF TypeOK, Place, Closing, Writers, Goto, BeginWrite, RecvText
    <2>3. heldChan' \in [Proc -> Chan \cup {Nil}] /\ heldConn' \in [Proc -> Conns \cup {Nil}]
      BY <2>1 DEF TypeOK, BeginWrite, RecvText
    <2>4. clash' \in BOOLEAN
      BY DEF TypeOK, BeginWrite, RecvText
    <2> QED
      BY <2>2, <2>3, <2>4 DEF TypeOK, RecvText, ends, session, chans, joins
  <1>2. OwnChannels'
    BY Names DEF TypeOK, OwnChannels, Started, Writers, RecvText, Goto, session,
       BeginWrite, joins
  <1>3. WorkIsStarted'
    BY Names DEF TypeOK, WorkIsStarted, Started, Writers, RecvText, Goto, session,
       BeginWrite, joins
  <1>4. SealedIsUnset'
    BY DEF TypeOK, SealedIsUnset, Started, SessionOf, Writers, RecvText, Goto,
       session, chans, BeginWrite, joins
  <1>5. DeferredIsUnset'
    BY Names DEF TypeOK, DeferredIsUnset, Started, Closing, Writers, RecvText, Goto,
       session, BeginWrite
  <1>6. CrashNeedsClash'
    BY DEF CrashNeedsClash, RecvText
  <1> QED
    BY <1>1, <1>2, <1>3, <1>4, <1>5, <1>6

\* The answer is written and Close begins.
LEMMA RecvEchoedKeeps == ASSUME Inv, NEW p \in Loop, RecvEchoed(p) PROVE Inv'
  <1> USE DEF Inv
  <1>1. TypeOK'
    BY DEF TypeOK, Place, Closing, RecvEchoed, Goto, ends, session, chans, EndWrite, joins
  <1>2. OwnChannels'
    BY DEF OwnChannels, Started, RecvEchoed, Goto, session, EndWrite, joins
  <1>3. WorkIsStarted'
    BY Names DEF WorkIsStarted, Started, RecvEchoed, Goto, session, EndWrite, joins
  <1>4. SealedIsUnset'
    BY DEF SealedIsUnset, Started, SessionOf, RecvEchoed, Goto, session, chans, EndWrite, joins
  <1>5. DeferredIsUnset'
    BY DEF DeferredIsUnset, Started, RecvEchoed, Goto, session, EndWrite
  <1>6. CrashNeedsClash'
    BY DEF CrashNeedsClash, RecvEchoed
  <1> QED
    BY <1>1, <1>2, <1>3, <1>4, <1>5, <1>6

\* send waits for a value or a message.
LEMMA SendTopKeeps == ASSUME Inv, NEW p \in Loop, SendTop(p) PROVE Inv'
  <1> USE DEF Inv
  <1>1. TypeOK'
    BY Names DEF TypeOK, Place, SendTop, Goto, ends, session, chans, faults, joins
  <1>2. OwnChannels'
    BY Names DEF OwnChannels, Started, SendTop, Goto, session, joins
  <1>3. WorkIsStarted'
    BY Names DEF WorkIsStarted, Started, SendTop, Goto, session, joins
  <1>4. SealedIsUnset'
    BY DEF SealedIsUnset, Started, SessionOf, SendTop, Goto, session, chans, joins
  <1>5. DeferredIsUnset'
    BY DEF DeferredIsUnset, Started, Closing, SendTop, Goto, session, faults
  <1>6. CrashNeedsClash'
    BY DEF CrashNeedsClash, SendTop, faults
  <1> QED
    BY <1>1, <1>2, <1>3, <1>4, <1>5, <1>6

\* send takes a value and ends.
LEMMA SendStopKeeps == ASSUME Inv, NEW p \in Loop, SendStop(p) PROVE Inv'
  <1> USE DEF Inv
  <1>1. TypeOK'
    BY Names DEF TypeOK, Place, Capacity, SendStop, Goto, ends, session, faults, joins
  <1>2. OwnChannels'
    BY DEF OwnChannels, Started, SendStop, Goto, session, joins
  <1>3. WorkIsStarted'
    BY Names DEF WorkIsStarted, Started, SendStop, Goto, session, joins
  <1>4. SealedIsUnset'
    BY DEF SealedIsUnset, Started, SessionOf, SendStop, Goto, session, joins
  <1>5. DeferredIsUnset'
    BY DEF DeferredIsUnset, Started, Closing, SendStop, Goto, session, faults
  <1>6. CrashNeedsClash'
    BY DEF CrashNeedsClash, SendStop, faults
  <1> QED
    BY <1>1, <1>2, <1>3, <1>4, <1>5, <1>6

\* A posted message is being written, or gorilla panics and the deferred Close
\* begins.
LEMMA SendMessageKeeps == ASSUME Inv, NEW p \in Loop, SendMessage(p) PROVE Inv'
  <1> USE DEF Inv
  <1>1. TypeOK'
    <2>1. connection[p[1]] \in Conns /\ p \in Proc
      BY Names DEF TypeOK
    <2>2. pc' \in [Proc -> Place] /\ deferred' \subseteq Loop
      BY Names DEF TypeOK, Place, Closing, Writers, Goto, BeginWrite, SendMessage
    <2>3. heldChan' \in [Proc -> Chan \cup {Nil}] /\ heldConn' \in [Proc -> Conns \cup {Nil}]
      BY <2>1 DEF TypeOK, BeginWrite, SendMessage
    <2>4. clash' \in BOOLEAN
      BY DEF TypeOK, BeginWrite, SendMessage
    <2> QED
      BY <2>2, <2>3, <2>4 DEF TypeOK, SendMessage, ends, session, chans, joins
  <1>2. OwnChannels'
    BY Names DEF TypeOK, OwnChannels, Started, Writers, SendMessage, Goto, session,
       BeginWrite, joins
  <1>3. WorkIsStarted'
    BY Names DEF TypeOK, WorkIsStarted, Started, Writers, SendMessage, Goto, session,
       BeginWrite, joins
  <1>4. SealedIsUnset'
    BY DEF TypeOK, SealedIsUnset, Started, SessionOf, Writers, SendMessage, Goto,
       session, chans, BeginWrite, joins
  <1>5. DeferredIsUnset'
    BY Names DEF TypeOK, DeferredIsUnset, Started, Closing, Writers, SendMessage,
       Goto, session, BeginWrite
  <1>6. CrashNeedsClash'
    BY DEF CrashNeedsClash, SendMessage
  <1> QED
    BY <1>1, <1>2, <1>3, <1>4, <1>5, <1>6

\* The message is written.
LEMMA SendWrittenKeeps == ASSUME Inv, NEW p \in Loop, SendWritten(p) PROVE Inv'
  <1> USE DEF Inv
  <1>1. TypeOK'
    BY DEF TypeOK, Place, SendWritten, Goto, ends, session, chans, EndWrite, joins
  <1>2. OwnChannels'
    BY DEF OwnChannels, Started, SendWritten, Goto, session, EndWrite, joins
  <1>3. WorkIsStarted'
    BY Names DEF WorkIsStarted, Started, SendWritten, Goto, session, EndWrite, joins
  <1>4. SealedIsUnset'
    BY DEF SealedIsUnset, Started, SessionOf, SendWritten, Goto, session, chans,
       EndWrite, joins
  <1>5. DeferredIsUnset'
    BY DEF DeferredIsUnset, Started, Closing, SendWritten, Goto, session, EndWrite
  <1>6. CrashNeedsClash'
    BY DEF CrashNeedsClash, SendWritten
  <1> QED
    BY <1>1, <1>2, <1>3, <1>4, <1>5, <1>6

\* A lookup fails and the deferred Close begins.
LEMMA LookupPanicKeeps == ASSUME Inv, NEW p \in Loop, LookupPanic(p) PROVE Inv'
  <1> USE DEF Inv
  <1>0. p \in Proc /\ p \notin Handler
    BY Names
  <1>1. TypeOK'
    <2>1. pc' \in [Proc -> Place] /\ deferred' \subseteq Loop
      BY <1>0 DEF TypeOK, Place, Closing, Goto, LookupPanic
    <2>2. heldChan' \in [Proc -> Chan \cup {Nil}] /\ heldConn' \in [Proc -> Conns \cup {Nil}]
      BY DEF TypeOK, LookupPanic
    <2> QED
      BY <2>1, <2>2 DEF TypeOK, LookupPanic, ends, session, chans, joins
  <1>2. OwnChannels'
    BY <1>0 DEF TypeOK, OwnChannels, Started, LookupPanic, Goto, session, joins
  <1>3. WorkIsStarted'
    BY <1>0, Names DEF TypeOK, WorkIsStarted, Started, LookupPanic, Goto, session, joins
  <1>4. SealedIsUnset'
    BY <1>0 DEF TypeOK, SealedIsUnset, Started, SessionOf, LookupPanic, Goto,
       session, chans, joins
  <1>5. DeferredIsUnset' /\ CrashNeedsClash'
    BY DEF DeferredIsUnset, CrashNeedsClash, LookupPanic
  <1> QED
    BY <1>1, <1>2, <1>3, <1>4, <1>5

\* The handshake is over: the session starts, or its connection is closed.
LEMMA ServeStartKeeps == ASSUME Inv, NEW c \in Conns, ServeStart(c) PROVE Inv'
  <1> USE DEF Inv
  <1>h. <<c, c, "serve">> \in Handler /\ <<c, c, "serve">>[1] = c
    BY Names
  <1>p. PICK p \in Handler : p = <<c, c, "serve">> /\ p[1] = c
    BY <1>h
  <1>q. /\ \A q \in Handler : q[1] = c => q = p
        /\ p \in Proc /\ p \notin Loop
    BY <1>p, Names
  <1>k. /\ <<c, c, "recv">> \in Loop /\ <<c, c, "recv">>[1] = c
        /\ <<c, c, "send">> \in Loop /\ <<c, c, "send">>[1] = c
        /\ <<c, c>> \in Chan /\ <<c, c>>[1] = c /\ <<c, c>> # Nil
    BY Names
  <1> DEFINE r == <<c, c, "recv">>
             t == <<c, c, "send">>
             ch == <<c, c>>
  <1>r. r \in Loop /\ t \in Loop /\ r[1] = c /\ t[1] = c
    BY <1>k
  <1>a. /\ pc[p] = "idle"
        /\ UNCHANGED <<connection, tokens, sealed, registered, deferred, heldChan, heldConn>>
        /\ UNCHANGED <<joining, crowded, clash, crashed>>
    BY <1>p DEF ServeStart, chans, held, faults, joins
  <1>b. \/ /\ peer' = [peer EXCEPT ![c] = "up"]
           /\ conn' = [conn EXCEPT ![c] = "open"]
           /\ connected' = [connected EXCEPT ![c] = TRUE]
           /\ chClose' = [chClose EXCEPT ![c] = ch]
           /\ pc' = [pc EXCEPT ![p] = "lookup", ![r] = "top", ![t] = "top"]
        \/ /\ conn' = [conn EXCEPT ![c] = "closed"]
           /\ pc' = [pc EXCEPT ![p] = "end"]
           /\ UNCHANGED <<peer, connected, chClose>>
    BY <1>p, <1>r DEF ServeStart, Goto
  <1>c. ch \in Chan /\ ch[1] = c /\ ch # Nil
    BY <1>k
  <1> HIDE DEF r, t, ch
  <1>t. r \in Proc /\ t \in Proc
    BY <1>r, Names
  <1>v. pc \in [Proc -> Place]
    BY DEF TypeOK
  <1>d. ~Started(c)
    BY <1>a, <1>p DEF WorkIsStarted
  <1>1. TypeOK'
    <2>1. pc' \in [Proc -> Place]
      BY <1>b, <1>q, <1>t, <1>v DEF Place
    <2>2. /\ peer' \in [Conns -> {"absent", "up", "gone"}]
          /\ conn' \in [Conns -> {"none", "open", "closed"}]
      BY <1>b DEF TypeOK
    <2>3. connected' \in [Conns -> BOOLEAN]
      BY <1>b DEF TypeOK
    <2>4. chClose' \in [Conns -> Chan \cup {Nil}]
      BY <1>b, <1>c DEF TypeOK
    <2> QED
      BY <1>a, <2>1, <2>2, <2>3, <2>4 DEF TypeOK
  <1>e. \A s \in Conns :
          Started(s) => Started(s)' /\ chClose'[s] = chClose[s] /\ connected'[s] = connected[s]
    BY <1>b, <1>d DEF TypeOK, Started
  <1>f. \A q \in Proc : pc'[q] # pc[q] => q \in {p, r, t} /\ pc'[q] \in {"lookup", "top", "end"}
    BY <1>b, <1>q, Names DEF TypeOK
  <1>g. \A q \in Proc : heldChan[q] # Nil => q # p
    BY <1>a, <1>q DEF OwnChannels
  <1>2. OwnChannels'
    <2>1. \A s \in Conns : Started(s)' => chClose'[s][1] = s
      BY <1>b, <1>c DEF TypeOK, OwnChannels, Started
    <2>2. \A q \in Handler : pc'[q] = pc[q] \/ q = p
      BY <1>f, <1>r, Names
    <2> QED
      BY <1>a, <1>g, <2>1, <2>2, Names DEF OwnChannels
  <1>3. WorkIsStarted'
    <2>1. (registered # Nil => Started(registered))'
      BY <1>a, <1>e DEF TypeOK, WorkIsStarted
    <2>2. \A q \in Loop : pc'[q] # "none" => Started(q[1])'
      <3>1. CASE pc'[p] = "end"
        BY <1>b, <1>e, <1>q, <3>1, Names DEF TypeOK, WorkIsStarted
      <3>2. CASE pc'[p] # "end"
        <4>1. Started(c)'
          BY <1>b, <1>c, <1>q, <3>2 DEF TypeOK, Started
        <4> QED
          <5>1. \A q \in Loop : q \in Proc /\ q # p /\ q[1] \in Conns
            BY <1>q, Names
          <5>2. \A q \in Loop : q \notin {r, t} => pc'[q] = pc[q]
            BY <1>b, <1>t, <1>v, <3>2, <5>1
          <5> QED
            BY <1>e, <1>r, <4>1, <5>1, <5>2 DEF WorkIsStarted
      <3> QED
        BY <3>1, <3>2
    <2>3. ASSUME NEW q \in Handler, q # p
          PROVE  pc'[q] = pc[q] /\ (Started(q[1])' <=> Started(q[1]))
      <3>1. q[1] # c /\ q[1] \in Conns
        BY <1>q, <2>3, Names
      <3> QED
        BY <3>1, <1>b, <1>r, <2>3, Names DEF TypeOK, Started
    <2>4. pc'[p] = "end" \/ (pc'[p] = "lookup" /\ Started(p[1])')
      BY <1>b, <1>c, <1>p, <1>q, <1>r, Names DEF TypeOK, Started
    <2> QED
      BY <1>a, <1>e, <2>1, <2>2, <2>3, <2>4 DEF WorkIsStarted, Closing
  <1>4. SealedIsUnset'
    <2>1. \A x \in sealed : x[1] # c /\ x[1] \in Conns
      BY <1>d, Names DEF SealedIsUnset, TypeOK
    <2>2. \A q \in Proc : pc'[q] = "seal" => pc[q] = "seal" /\ SessionOf(q)' = SessionOf(q)
      BY <1>a, <1>f DEF SessionOf
    <2>3. \A q \in Proc : pc[q] = "seal" => SessionOf(q) \in Conns /\ Started(SessionOf(q))
      BY Closer DEF Closing
    <2> QED
      BY <1>a, <1>e, <2>1, <2>2, <2>3 DEF SealedIsUnset
  <1>5. DeferredIsUnset'
    BY <1>a, <1>e, <1>f, Names DEF TypeOK, DeferredIsUnset, Closing
  <1>6. CrashNeedsClash'
    BY <1>a DEF CrashNeedsClash
  <1> QED
    BY <1>1, <1>2, <1>3, <1>4, <1>5, <1>6

\* The handler looks its user up.
LEMMA ServeLookupKeeps == ASSUME Inv, NEW c \in Conns, ServeLookup(c) PROVE Inv'
  <1> USE DEF Inv
  <1>h. <<c, c, "serve">> \in Handler /\ <<c, c, "serve">>[1] = c
    BY Names
  <1>p. PICK p \in Handler : p = <<c, c, "serve">> /\ p[1] = c
    BY <1>h
  <1>q. /\ \A q \in Handler : q[1] = c => q = p
        /\ p \in Proc /\ p \notin Loop
    BY <1>p, Names
  <1>a. /\ pc[p] = "lookup"
        /\ UNCHANGED <<peer, conn, connected, connection, chClose, tokens, sealed, registered>>
        /\ UNCHANGED <<deferred, heldChan, heldConn, clash, crashed>>
    BY <1>p DEF ServeLookup, ends, session, chans, held, faults
  <1>b. \/ /\ registered # Nil
           /\ joining' = [joining EXCEPT ![c] = registered]
           /\ pc' = [pc EXCEPT ![p] = "check"]
        \/ /\ pc' = [pc EXCEPT ![p] = "assign"] \/ pc' = [pc EXCEPT ![p] = "end"]
           /\ UNCHANGED joining
    BY <1>p DEF ServeLookup, Goto, joins
  <1>1. TypeOK'
    <2>1. pc' \in [Proc -> Place]
      BY <1>b DEF TypeOK, Place, Closing
    <2>2. crowded' \in BOOLEAN
      BY <1>p DEF TypeOK, ServeLookup, joins
    <2> QED
      BY <1>a, <1>b, <2>1, <2>2 DEF TypeOK
  <1>c. \A q \in Proc : q # p => pc'[q] = pc[q] /\ SessionOf(q)' = SessionOf(q)
    BY <1>b, <1>q, Names DEF TypeOK, SessionOf
  <1>d. pc'[p] \in {"check", "assign", "end"}
    BY <1>b, <1>q DEF TypeOK
  <1>e. heldChan[p] = Nil
    BY <1>a DEF OwnChannels
  <1>f. \A q \in Handler : q # p => joining'[q[1]] = joining[q[1]]
    BY <1>b, <1>q, Names DEF TypeOK
  <1>2. OwnChannels'
    BY <1>a, <1>c, <1>e, <1>f, <1>q, Names DEF OwnChannels, Started
  <1>3. WorkIsStarted'
    BY <1>a, <1>b, <1>c, <1>f, <1>p, <1>q, Names DEF TypeOK, WorkIsStarted, Started,
       Closing
  <1>4. SealedIsUnset'
    BY <1>a, <1>c, <1>d DEF SealedIsUnset, Started
  <1>5. DeferredIsUnset'
    BY <1>a, <1>c, <1>q, Names DEF TypeOK, DeferredIsUnset, Started
  <1>6. CrashNeedsClash'
    BY <1>a DEF CrashNeedsClash
  <1> QED
    BY <1>1, <1>2, <1>3, <1>4, <1>5, <1>6

\* The handler makes its session the user's.
LEMMA ServeAssignKeeps == ASSUME Inv, NEW c \in Conns, ServeAssign(c) PROVE Inv'
  <1> USE DEF Inv
  <1>1. TypeOK'
    BY DEF TypeOK, Place, ServeAssign, Goto, ends, session, chans, held, faults, joins
  <1>2. OwnChannels'
    BY DEF OwnChannels, Started, ServeAssign, Goto, session, held, joins
  <1>3. WorkIsStarted'
    BY Names DEF WorkIsStarted, Started, Closing, ServeAssign, Goto, session, joins
  <1>4. SealedIsUnset'
    BY DEF SealedIsUnset, Started, SessionOf, ServeAssign, Goto, session, chans, joins
  <1>5. DeferredIsUnset'
    BY DEF DeferredIsUnset, Started, Closing, ServeAssign, Goto, session, faults
  <1>6. CrashNeedsClash'
    BY DEF CrashNeedsClash, ServeAssign, faults
  <1> QED
    BY <1>1, <1>2, <1>3, <1>4, <1>5, <1>6

\* Join takes the other session's connection.
LEMMA ServeJoinConnKeeps == ASSUME Inv, NEW c \in Conns, ServeJoinConn(c) PROVE Inv'
  <1> USE DEF Inv
  <1>1. TypeOK'
    BY DEF TypeOK, Place, ServeJoinConn, Goto, ends, chans, held, faults, joins
  <1>2. OwnChannels'
    BY DEF OwnChannels, Started, ServeJoinConn, Goto, held, joins
  <1>3. WorkIsStarted'
    BY DEF WorkIsStarted, Started, ServeJoinConn, Goto, joins
  <1>4. SealedIsUnset'
    BY DEF SealedIsUnset, Started, SessionOf, ServeJoinConn, Goto, chans, joins
  <1>5. DeferredIsUnset'
    BY DEF DeferredIsUnset, Started, Closing, ServeJoinConn, Goto, faults
  <1>6. CrashNeedsClash'
    BY DEF CrashNeedsClash, ServeJoinConn, faults
  <1> QED
    BY <1>1, <1>2, <1>3, <1>4, <1>5, <1>6

\* Join makes the new channel and loops.
LEMMA ServeJoinLoopsKeeps == ASSUME Inv, NEW c \in Conns, ServeJoinLoops(c) PROVE Inv'
  <1> USE DEF Inv
  <1>h. <<c, c, "serve">> \in Handler /\ <<c, c, "serve">>[1] = c
    BY Names
  <1>p. PICK p \in Handler : p = <<c, c, "serve">> /\ p[1] = c
    BY <1>h
  <1>q. /\ \A q \in Handler : q[1] = c => q = p
        /\ p \in Proc /\ p \notin Loop
    BY <1>p, Names
  <1> DEFINE s == joining[c]
  <1>s. s \in Conns /\ Started(s) /\ pc[p] = "swapChan"
    BY <1>p DEF ServeJoinLoops, WorkIsStarted
  <1>k. /\ <<s, c, "recv">> \in Loop /\ <<s, c, "recv">>[1] = s
        /\ <<s, c, "send">> \in Loop /\ <<s, c, "send">>[1] = s
        /\ <<s, c>> \in Chan /\ <<s, c>>[1] = s /\ <<s, c>> # Nil
    BY <1>s, Names
  <1> DEFINE r == <<s, c, "recv">>
             t == <<s, c, "send">>
             ch == <<s, c>>
  <1>r. r \in Loop /\ t \in Loop /\ r[1] = s /\ t[1] = s
    BY <1>k
  <1>c. ch \in Chan /\ ch[1] = s /\ ch # Nil
    BY <1>k
  <1>a. /\ chClose' = [chClose EXCEPT ![s] = ch]
        /\ pc' = [pc EXCEPT ![p] = "end", ![r] = "top", ![t] = "top"]
        /\ joining' = [joining EXCEPT ![c] = Nil]
        /\ UNCHANGED <<peer, conn, connected, connection, tokens, sealed, registered>>
        /\ UNCHANGED <<deferred, heldChan, heldConn, crowded, clash, crashed>>
    BY <1>p, <1>r, <1>c DEF ServeJoinLoops, ends, chans, held, faults
  <1> HIDE DEF s, r, t, ch
  <1>1. TypeOK'
    <2>1. pc' \in [Proc -> Place]
      BY <1>a DEF TypeOK, Place
    <2>2. chClose' \in [Conns -> Chan \cup {Nil}]
      BY <1>a, <1>c DEF TypeOK
    <2>3. joining' \in [Conns -> Conns \cup {Nil}]
      BY <1>a DEF TypeOK
    <2> QED
      BY <1>a, <2>1, <2>2, <2>3 DEF TypeOK
  <1>b. \A x : x \in Conns => (Started(x)' <=> Started(x))
    BY <1>a, <1>c, <1>s DEF TypeOK, Started
  <1>d. \A q \in Proc : pc'[q] # pc[q] => q \in {p, r, t} /\ pc'[q] \in {"end", "top"}
    BY <1>a DEF TypeOK
  <1>e. \A q \in Handler :
          \/ q = p /\ pc'[q] = "end" /\ heldChan[q] = Nil
          \/ q # p /\ pc'[q] = pc[q] /\ joining'[q[1]] = joining[q[1]]
    BY <1>a, <1>q, <1>r, <1>s, Names DEF TypeOK, OwnChannels
  <1>2. OwnChannels'
    <2>1. \A x \in Conns : Started(x)' => chClose'[x][1] = x
      BY <1>a, <1>c DEF TypeOK, OwnChannels, Started
    <2> QED
      BY <1>a, <1>e, <2>1 DEF OwnChannels
  <1>3. WorkIsStarted'
    <2>1. \A q \in Loop : pc'[q] # "none" => Started(q[1])'
      BY <1>b, <1>d, <1>q, <1>r, <1>s, Names DEF WorkIsStarted
    <2>2. (registered # Nil => Started(registered))'
      BY <1>a, <1>b DEF TypeOK, WorkIsStarted
    <2> QED
      BY <1>b, <1>e, <2>1, <2>2, Names DEF WorkIsStarted, Closing
  <1>4. SealedIsUnset'
    <2>1. \A q \in Proc : pc'[q] = "seal" => pc[q] = "seal" /\ SessionOf(q)' = SessionOf(q)
      BY <1>d, <1>e, Names DEF SessionOf
    <2> QED
      BY <1>a, <1>b, <2>1, Names DEF TypeOK, SealedIsUnset
  <1>5. DeferredIsUnset'
    BY <1>a, <1>b, <1>d, Names DEF TypeOK, DeferredIsUnset, Closing
  <1>6. CrashNeedsClash'
    BY <1>a DEF CrashNeedsClash
  <1> QED
    BY <1>1, <1>2, <1>3, <1>4, <1>5, <1>6

\* The client is gone.
LEMMA ClientGoneKeeps == ASSUME Inv, NEW c \in Conns, ClientGone(c) PROVE Inv'
  <1> USE DEF Inv
  <1>1. TypeOK'
    BY DEF TypeOK, ClientGone, session, chans, held, faults, joins
  <1>2. OwnChannels'
    BY DEF OwnChannels, Started, ClientGone, session, held, joins
  <1>3. WorkIsStarted'
    BY DEF WorkIsStarted, Started, ClientGone, session, joins
  <1>4. SealedIsUnset'
    BY DEF SealedIsUnset, Started, SessionOf, ClientGone, session, chans, joins
  <1>5. DeferredIsUnset'
    BY DEF DeferredIsUnset, Started, ClientGone, session, faults
  <1>6. CrashNeedsClash'
    BY DEF CrashNeedsClash, ClientGone, faults
  <1> QED
    BY <1>1, <1>2, <1>3, <1>4, <1>5, <1>6

\* Close puts a value into the channel, or panics.
LEMMA ClosePushKeeps == ASSUME Inv, NEW p \in Proc, ClosePush(p) PROVE Inv'
  <1> USE DEF Inv
  <1>0. /\ pc[p] \in {"push1", "push2"} /\ pc[p] \in Closing
        /\ PushTarget(p) \in Chan /\ PushTarget(p)[1] = SessionOf(p)
        /\ UNCHANGED <<peer, conn, connected, connection, chClose, sealed, registered, joining,
                       crowded, clash>>
    BY Closer DEF ClosePush, Closing, ends, session, joins
  <1>1. TypeOK'
    <2>1. pc' \in [Proc -> Place] /\ deferred' \subseteq Loop /\ crashed' \in BOOLEAN
      <3>1. pc' \in [Proc -> Place]
        BY DEF TypeOK, Place, Closing, Goto, Panic, ClosePush
      <3>2. deferred' \subseteq Loop
        BY DEF TypeOK, Panic, ClosePush
      <3>3. crashed' \in BOOLEAN
        BY DEF TypeOK, Panic, ClosePush
      <3> QED
        BY <3>1, <3>2, <3>3
    <2>2. tokens' \in [Chan -> 0 .. Capacity]
      BY <1>0 DEF TypeOK, Capacity, Room, ClosePush
    <2>3. heldChan' \in [Proc -> Chan \cup {Nil}] /\ heldConn' \in [Proc -> Conns \cup {Nil}]
      BY <1>0 DEF TypeOK, Panic, ClosePush
    <2> QED
      BY <1>0, <2>1, <2>2, <2>3 DEF TypeOK
  <1>2. OwnChannels'
    <2>1. \A q \in Proc : q # p => pc'[q] = pc[q] /\ heldChan'[q] = heldChan[q]
      BY DEF TypeOK, Goto, Panic, ClosePush
    <2>2. \/ heldChan'[p] = Nil
          \/ pc'[p] = pc[p] /\ heldChan'[p] = PushTarget(p)
      BY DEF TypeOK, Goto, Panic, ClosePush
    <2> QED
      BY <1>0, <2>1, <2>2, Names DEF OwnChannels, Started, SessionOf
  <1>3. WorkIsStarted'
    BY Names DEF TypeOK, WorkIsStarted, Started, Closing, ClosePush, Goto, session,
       Panic, joins
  <1>4. SealedIsUnset'
    BY DEF TypeOK, SealedIsUnset, Started, SessionOf, ClosePush, Goto, session, Panic, joins
  <1>5. DeferredIsUnset'
    BY Names, Closer DEF TypeOK, SealedIsUnset, DeferredIsUnset, Started, SessionOf,
       Closing, ClosePush, Goto, session, Panic
  <1>6. CrashNeedsClash'
    BY DEF DeferredIsUnset, CrashNeedsClash, Closing, ClosePush, Panic
  <1> QED
    BY <1>1, <1>2, <1>3, <1>4, <1>5, <1>6

\* Close closes the channel, or panics.
LEMMA CloseSealKeeps == ASSUME Inv, NEW p \in Proc, CloseSeal(p) PROVE Inv'
  <1> USE DEF Inv
  <1>1. TypeOK'
    <2>1. chClose[SessionOf(p)] \in Chan
      BY Closer DEF CloseSeal, Closing
    <2>2. pc' \in [Proc -> Place] /\ deferred' \subseteq Loop /\ crashed' \in BOOLEAN
      <3>1. pc' \in [Proc -> Place]
        BY DEF TypeOK, Place, Closing, Goto, Panic, Return, CloseSeal, faults
      <3>2. deferred' \subseteq Loop
        BY DEF TypeOK, Panic, Return, CloseSeal, faults
      <3>3. crashed' \in BOOLEAN
        BY DEF TypeOK, Panic, Return, CloseSeal, faults
      <3> QED
        BY <3>1, <3>2, <3>3
    <2>3. heldChan' \in [Proc -> Chan \cup {Nil}] /\ heldConn' \in [Proc -> Conns \cup {Nil}]
      BY DEF TypeOK, Panic, CloseSeal, held
    <2>4. sealed' \subseteq Chan
      BY <2>1 DEF TypeOK, CloseSeal
    <2> QED
      BY <2>2, <2>3, <2>4 DEF TypeOK, CloseSeal, ends, session, joins
  <1>2. OwnChannels'
    BY Names, Closer DEF TypeOK, OwnChannels, Started, CloseSeal, Goto, session, held,
       Panic, Return, joins
  <1>3. WorkIsStarted'
    BY Names DEF TypeOK, WorkIsStarted, Started, Closing, CloseSeal, Goto, session,
       Panic, Return, joins
  <1>4. SealedIsUnset'
    BY Closer DEF TypeOK, SealedIsUnset, Started, SessionOf, Closing, CloseSeal, Goto,
       session, Panic, Return, joins
  <1>5. DeferredIsUnset'
    BY Names DEF TypeOK, SealedIsUnset, DeferredIsUnset, Started, SessionOf, Closing,
       CloseSeal, Goto, session, Panic, Return
  <1>6. CrashNeedsClash'
    BY DEF DeferredIsUnset, CrashNeedsClash, Closing, CloseSeal, Panic
  <1> QED
    BY <1>1, <1>2, <1>3, <1>4, <1>5, <1>6

\* Every step keeps it.
LEMMA InvNext == Inv /\ [Next]_vars => Inv'
  <1> SUFFICES ASSUME Inv, [Next]_vars PROVE Inv'
    OBVIOUS
  <1>1. ASSUME NEW c \in Conns, ServeStart(c) \/ Serve(c) \/ ClientGone(c) PROVE Inv'
    BY <1>1, ServeStartKeeps, ServeLookupKeeps, ServeAssignKeeps, ServeJoinConnKeeps,
       ServeJoinLoopsKeeps, ClientGoneKeeps DEF Serve
  <1>2. ASSUME NEW p \in Loop, Recv(p) \/ RecvMessage(p) \/ RecvText(p) PROVE Inv'
    BY <1>2, RecvTopKeeps, RecvDefaultKeeps, RecvMessageKeeps, RecvErrorKeeps, RecvTextKeeps,
       RecvEchoedKeeps
    DEF Recv
  <1>3. ASSUME NEW p \in Loop, Send(p) \/ SendMessage(p) \/ LookupPanic(p) PROVE Inv'
    BY <1>3, SendTopKeeps, SendStopKeeps, SendMessageKeeps, SendWrittenKeeps, LookupPanicKeeps
    DEF Send
  <1>4. ASSUME NEW p \in Proc, Close(p) PROVE Inv'
    BY <1>4, CloseCheckKeeps, ClosePushKeeps, CloseShutKeeps, CloseUnsetKeeps,
       CloseSealKeeps
    DEF Close
  <1>5. CASE UNCHANGED vars
    BY <1>5 DEF vars, ends, session, chans, held, faults, Inv, TypeOK, OwnChannels,
       Started,
       WorkIsStarted, SealedIsUnset, SessionOf, DeferredIsUnset, CrashNeedsClash, joins
  <1> QED
    BY <1>1, <1>2, <1>3, <1>4, <1>5 DEF Next

\* What the theorems below rest on: Inv holds in every reachable state.
THEOREM Invariance == Spec => []Inv
  BY InvInit, InvNext, PTL DEF Spec

-----------------------------------------------------------------------------

\* Types: every variable of the sessions and their goroutines keeps its shape;
\* in particular a goroutine never works with a channel that was not made.
THEOREM TypeCorrectness == Spec => []TypeOK
  <1>1. Inv => TypeOK
    BY DEF Inv
  <1> QED
    BY <1>1, Invariance, PTL

\* However many connections a user has and however Start, Join, Close and the
\* loops interleave, no panic of Close reaches the process: only two writes to
\* one connection at once can end it.
THEOREM PanicsAreContained == Spec => []CrashNeedsClash
  <1>1. Inv => CrashNeedsClash
    BY DEF Inv
  <1> QED
    BY <1>1, Invariance, PTL

-----------------------------------------------------------------------------
(* No open connection is left without a goroutine that will notice its end *)


\* Somebody is inside Close of session s and has not yet closed its connection.
ClosingSoon(s, places) == \E p \in Proc : pc[p] \in places /\ SessionOf(p) = s

Watched(c) ==
    \/ pc[<<c, c, "recv">>] \notin {"none", "end"}
    \/ ClosingSoon(c, {"push1", "push2", "shut"})

\* What holds of the session of a connection that is open.
OpenIsWatched ==
    \A c \in Conns :
      conn[c] = "open" =>
        /\ Started(c)
        /\ connection[c] = c
        /\ connected[c]
        /\ Watched(c)
        /\ \A ch \in Chan :
             ch[1] = c =>
               /\ ch \notin sealed
               /\ tokens[ch] > 0 => ClosingSoon(c, {"push2", "shut"})

\* Whoever is past the closing of the connection does not find it open again.
ShutIsClosed ==
    \A p \in Proc :
      pc[p] \in {"unset", "seal", "swapConn", "swapChan"} => conn[SessionOf(p)] # "open"

\* A session that is not started is as NewSession made it.
FreshSession ==
    \A c \in Conns :
      ~Started(c) =>
        /\ connection[c] = c
        /\ \A ch \in Chan : ch[1] = c => tokens[ch] = 0

WatchInv == OpenIsWatched /\ ShutIsClosed /\ FreshSession

-----------------------------------------------------------------------------

Pushing == {"push1", "push2", "shut"}

\* What a step has to do to keep WatchInv: connections do not open, a session
\* whose connection stays open keeps its fields, whoever is about to close such
\* a connection goes on to do so, and the recv loops of open connections end
\* only while somebody is closing them.
Kept ==
    \A c \in Conns :
      conn'[c] = "open" =>
        /\ conn[c] = "open"
        /\ connection'[c] = connection[c]
        /\ connected'[c] = connected[c]
        /\ Started(c) => Started(c)'

RecvKept ==
    \A q \in Loop :
      q[3] = "recv" /\ conn'[q[1]] = "open" /\ pc[q] \notin {"none", "end"} =>
        pc'[q] \notin {"none", "end"} \/ ClosingSoon(q[1], Pushing)

ChannelsKept ==
    \A ch \in Chan :
      /\ ch \in sealed' => ch \in sealed \/ conn'[ch[1]] # "open"
      /\ tokens'[ch] > 0 => tokens[ch] > 0 \/ ClosingSoon(ch[1], {"push2", "shut"})'

ClosersGoOn ==
    \A q \in Proc :
      pc[q] \in Pushing =>
        \/ conn'[SessionOf(q)] # "open"
        \/ /\ SessionOf(q)' = SessionOf(q)
           /\ pc'[q] \in Pushing
           /\ pc[q] # "push1" => pc'[q] # "push1"

ShutKept ==
    \A q \in Proc :
      pc'[q] \in {"unset", "seal", "swapConn", "swapChan"} => conn'[SessionOf(q)'] # "open"

FreshKept ==
    \A c \in Conns :
      ~Started(c)' =>
        /\ ~Started(c)
        /\ connection'[c] = connection[c]
        /\ \A ch \in Chan : ch[1] = c => tokens'[ch] = 0

\* The six conditions are enough.
LEMMA WatchStep ==
    ASSUME WatchInv, Kept, RecvKept, ChannelsKept, ClosersGoOn, ShutKept, FreshKept
    PROVE  WatchInv'
  <1>1. ASSUME NEW c \in Conns, conn'[c] = "open", ClosingSoon(c, Pushing)
        PROVE  ClosingSoon(c, Pushing)'
    BY <1>1 DEF ClosersGoOn, ClosingSoon
  <1>2. ASSUME NEW c \in Conns, conn'[c] = "open", ClosingSoon(c, {"push2", "shut"})
        PROVE  ClosingSoon(c, {"push2", "shut"})'
    BY <1>2 DEF ClosersGoOn, ClosingSoon, Pushing
  <1>3. ASSUME NEW c \in Conns, conn'[c] = "open"
        PROVE  /\ Started(c)' /\ connection'[c] = c /\ connected'[c]
               /\ Watched(c)'
               /\ \A ch \in Chan :
                    ch[1] = c =>
                      /\ ch \notin sealed'
                      /\ tokens'[ch] > 0 => ClosingSoon(c, {"push2", "shut"})'
    <2>1. /\ conn[c] = "open" /\ Started(c) /\ connection[c] = c /\ connected[c] /\ Watched(c)
          /\ \A ch \in Chan :
               ch[1] = c => /\ ch \notin sealed
                            /\ tokens[ch] > 0 => ClosingSoon(c, {"push2", "shut"})
      BY <1>3 DEF Kept, WatchInv, OpenIsWatched
    <2>2. <<c, c, "recv">> \in Loop /\ <<c, c, "recv">>[1] = c /\ <<c, c, "recv">>[3] = "recv"
      BY Names
    <2>3. pc[<<c, c, "recv">>] \notin {"none", "end"} =>
            pc'[<<c, c, "recv">>] \notin {"none", "end"} \/ ClosingSoon(c, Pushing)
      BY <1>3, <2>2 DEF RecvKept
    <2>4. Watched(c)'
      BY <1>1, <1>3, <2>1, <2>3 DEF Watched, Pushing
    <2> QED
      BY <1>2, <1>3, <2>1, <2>4 DEF Kept, ChannelsKept
  <1>4. OpenIsWatched'
    BY <1>3 DEF OpenIsWatched
  <1> QED
    BY <1>4 DEF WatchInv, ShutIsClosed, ShutKept, FreshSession, FreshKept

\* A recv loop takes a value of its own session's channel and ends, or goes on
\* to read: it ends only on a value whose sender is still about to close the
\* connection.
LEMMA RecvTopWatches == ASSUME Inv, WatchInv, NEW p \in Loop, RecvTop(p) PROVE WatchInv'
  <1> USE DEF Inv, WatchInv
  <1>1. Kept
    BY DEF Kept, Started, RecvTop, ends, session
  <1>2. RecvKept
    <2> SUFFICES ASSUME conn[p[1]] = "open", pc'[p] = "end"
                 PROVE  ClosingSoon(p[1], Pushing)
      BY Names DEF TypeOK, RecvTop, RecvKept, Goto, ends
    <2>1. chClose[p[1]] \in Chan /\ chClose[p[1]][1] = p[1] /\ p[1] \in Conns
      BY Names DEF TypeOK, OwnChannels, OpenIsWatched, Started
    <2>2. tokens[chClose[p[1]]] > 0
      BY <2>1 DEF TypeOK, OpenIsWatched, RecvTop, Goto
    <2> QED
      BY <2>1, <2>2 DEF OpenIsWatched, ClosingSoon, Pushing
  <1>3. ChannelsKept
    BY DEF TypeOK, ChannelsKept, RecvTop
  <1>4. ClosersGoOn
    BY DEF TypeOK, ClosersGoOn, Pushing, SessionOf, RecvTop, Goto, joins
  <1>5. ShutKept
    BY DEF TypeOK, ShutIsClosed, ShutKept, SessionOf, RecvTop, Goto, ends, joins
  <1>6. FreshKept
    BY DEF TypeOK, FreshSession, FreshKept, Started, RecvTop, session
  <1> QED
    BY <1>1, <1>2, <1>3, <1>4, <1>5, <1>6, WatchStep

\* A recv loop begins to read.
LEMMA RecvDefaultWatches ==
    ASSUME Inv, WatchInv, NEW p \in Loop, RecvDefault(p) PROVE WatchInv'
  <1> USE DEF Inv, WatchInv
  <1>1. Kept
    BY DEF Kept, Started, RecvDefault, ends, session
  <1>2. RecvKept
    BY DEF RecvKept, RecvDefault, Goto
  <1>3. ChannelsKept
    BY DEF ChannelsKept, RecvDefault, chans
  <1>4. ClosersGoOn
    BY DEF ClosersGoOn, Pushing, SessionOf, RecvDefault, Goto, joins
  <1>5. ShutKept
    BY DEF ShutIsClosed, ShutKept, SessionOf, RecvDefault, Goto, ends, joins
  <1>6. FreshKept
    BY DEF FreshSession, FreshKept, Started, RecvDefault, session, chans
  <1> QED
    BY <1>1, <1>2, <1>3, <1>4, <1>5, <1>6, WatchStep

\* A message is read and handled.
LEMMA RecvMessageWatches ==
    ASSUME Inv, WatchInv, NEW p \in Loop, RecvMessage(p) PROVE WatchInv'
  <1> USE DEF Inv, WatchInv
  <1>1. Kept
    BY DEF Kept, Started, RecvMessage, ends, session
  <1>2. RecvKept
    BY DEF RecvKept, RecvMessage, Goto
  <1>3. ChannelsKept
    BY DEF ChannelsKept, RecvMessage, chans
  <1>4. ClosersGoOn
    BY DEF ClosersGoOn, Pushing, SessionOf, RecvMessage, Goto, joins
  <1>5. ShutKept
    BY DEF ShutIsClosed, ShutKept, SessionOf, RecvMessage, Goto, ends, joins
  <1>6. FreshKept
    BY DEF FreshSession, FreshKept, Started, RecvMessage, session, chans
  <1> QED
    BY <1>1, <1>2, <1>3, <1>4, <1>5, <1>6, WatchStep

\* A read fails and Close begins: the loop is about to close the connection.
LEMMA RecvErrorWatches ==
    ASSUME Inv, WatchInv, NEW p \in Loop, RecvError(p) PROVE WatchInv'
  <1> USE DEF Inv, WatchInv
  <1>1. Kept
    BY DEF Kept, Started, RecvError, ends, session
  <1>2. RecvKept
    BY DEF RecvKept, RecvError, Goto
  <1>3. ChannelsKept
    BY DEF ChannelsKept, RecvError, chans
  <1>4. ClosersGoOn
    BY DEF ClosersGoOn, Pushing, SessionOf, RecvError, Goto, joins
  <1>5. ShutKept
    BY DEF ShutIsClosed, ShutKept, SessionOf, RecvError, Goto, ends, joins
  <1>6. FreshKept
    BY DEF FreshSession, FreshKept, Started, RecvError, session, chans
  <1> QED
    BY <1>1, <1>2, <1>3, <1>4, <1>5, <1>6, WatchStep

\* A text message is answered, or gorilla panics and the deferred Close begins:
\* a loop that panics goes on to Close.
LEMMA RecvTextWatches ==
    ASSUME Inv, WatchInv, NEW p \in Loop, RecvText(p) PROVE WatchInv'
  <1> USE DEF Inv, WatchInv
  <1>1. Kept
    BY DEF Kept, Started, RecvText, ends, session
  <1>2. RecvKept
    BY Names DEF TypeOK, RecvKept, RecvText, Goto, BeginWrite
  <1>3. ChannelsKept
    BY DEF ChannelsKept, RecvText, chans
  <1>4. ClosersGoOn
    BY DEF TypeOK, ClosersGoOn, Pushing, SessionOf, RecvText, Goto, BeginWrite, Writers, joins
  <1>5. ShutKept
    BY DEF TypeOK, ShutIsClosed, ShutKept, SessionOf, RecvText, Goto, ends, BeginWrite, joins
  <1>6. FreshKept
    BY DEF FreshSession, FreshKept, Started, RecvText, session, chans
  <1> QED
    BY <1>1, <1>2, <1>3, <1>4, <1>5, <1>6, WatchStep

\* The answer is written and Close begins: the loop goes on to Close.
LEMMA RecvEchoedWatches ==
    ASSUME Inv, WatchInv, NEW p \in Loop, RecvEchoed(p) PROVE WatchInv'
  <1> USE DEF Inv, WatchInv
  <1>1. Kept
    BY DEF Kept, Started, RecvEchoed, ends, session
  <1>2. RecvKept
    BY DEF RecvKept, RecvEchoed, Goto, EndWrite
  <1>3. ChannelsKept
    BY DEF ChannelsKept, RecvEchoed, chans
  <1>4. ClosersGoOn
    BY DEF ClosersGoOn, Pushing, SessionOf, RecvEchoed, Goto, EndWrite, joins
  <1>5. ShutKept
    BY DEF ShutIsClosed, ShutKept, SessionOf, RecvEchoed, Goto, ends, EndWrite, joins
  <1>6. FreshKept
    BY DEF FreshSession, FreshKept, Started, RecvEchoed, session, chans
  <1> QED
    BY <1>1, <1>2, <1>3, <1>4, <1>5, <1>6, WatchStep

\* send waits for a value or a message.
LEMMA SendTopWatches == ASSUME Inv, WatchInv, NEW p \in Loop, SendTop(p) PROVE WatchInv'
  <1> USE DEF Inv, WatchInv
  <1>1. Kept
    BY DEF Kept, Started, SendTop, ends, session
  <1>2. RecvKept
    BY DEF RecvKept, SendTop, Goto
  <1>3. ChannelsKept
    BY DEF ChannelsKept, SendTop, chans
  <1>4. ClosersGoOn
    BY DEF ClosersGoOn, Pushing, SessionOf, SendTop, Goto, joins
  <1>5. ShutKept
    BY DEF ShutIsClosed, ShutKept, SessionOf, SendTop, Goto, ends, joins
  <1>6. FreshKept
    BY DEF FreshSession, FreshKept, Started, SendTop, session, chans
  <1> QED
    BY <1>1, <1>2, <1>3, <1>4, <1>5, <1>6, WatchStep

\* send takes a value and ends: no recv loop ends.
LEMMA SendStopWatches ==
    ASSUME Inv, WatchInv, NEW p \in Loop, SendStop(p) PROVE WatchInv'
  <1> USE DEF Inv, WatchInv
  <1>1. Kept
    BY DEF Kept, Started, SendStop, ends, session
  <1>2. RecvKept
    BY DEF RecvKept, SendStop, Goto
  <1>3. ChannelsKept
    BY DEF TypeOK, ChannelsKept, SendStop
  <1>4. ClosersGoOn
    BY DEF ClosersGoOn, Pushing, SessionOf, SendStop, Goto, joins
  <1>5. ShutKept
    BY DEF ShutIsClosed, ShutKept, SessionOf, SendStop, Goto, ends, joins
  <1>6. FreshKept
    BY DEF TypeOK, FreshSession, FreshKept, Started, SendStop, session
  <1> QED
    BY <1>1, <1>2, <1>3, <1>4, <1>5, <1>6, WatchStep

\* A posted message is being written, or gorilla panics and the deferred Close
\* begins: a panic leads to Close.
LEMMA SendMessageWatches ==
    ASSUME Inv, WatchInv, NEW p \in Loop, SendMessage(p) PROVE WatchInv'
  <1> USE DEF Inv, WatchInv
  <1>1. Kept
    BY DEF Kept, Started, SendMessage, ends, session
  <1>2. RecvKept
    BY Names DEF TypeOK, RecvKept, SendMessage, Goto, BeginWrite
  <1>3. ChannelsKept
    BY DEF ChannelsKept, SendMessage, chans
  <1>4. ClosersGoOn
    BY DEF TypeOK, ClosersGoOn, Pushing, SessionOf, SendMessage, Goto, BeginWrite,
       Writers, joins
  <1>5. ShutKept
    BY DEF TypeOK, ShutIsClosed, ShutKept, SessionOf, SendMessage, Goto, ends,
       BeginWrite, joins
  <1>6. FreshKept
    BY DEF FreshSession, FreshKept, Started, SendMessage, session, chans
  <1> QED
    BY <1>1, <1>2, <1>3, <1>4, <1>5, <1>6, WatchStep

\* The message is written.
LEMMA SendWrittenWatches ==
    ASSUME Inv, WatchInv, NEW p \in Loop, SendWritten(p) PROVE WatchInv'
  <1> USE DEF Inv, WatchInv
  <1>1. Kept
    BY DEF Kept, Started, SendWritten, ends, session
  <1>2. RecvKept
    BY DEF RecvKept, SendWritten, Goto, EndWrite
  <1>3. ChannelsKept
    BY DEF ChannelsKept, SendWritten, chans
  <1>4. ClosersGoOn
    BY DEF ClosersGoOn, Pushing, SessionOf, SendWritten, Goto, EndWrite, joins
  <1>5. ShutKept
    BY DEF ShutIsClosed, ShutKept, SessionOf, SendWritten, Goto, ends, EndWrite, joins
  <1>6. FreshKept
    BY DEF FreshSession, FreshKept, Started, SendWritten, session, chans
  <1> QED
    BY <1>1, <1>2, <1>3, <1>4, <1>5, <1>6, WatchStep

\* A lookup fails: the loop is about to close the connection of its session.
LEMMA LookupPanicWatches ==
    ASSUME Inv, WatchInv, NEW p \in Loop, LookupPanic(p) PROVE WatchInv'
  <1> USE DEF Inv, WatchInv
  <1>0. p \in Proc /\ p \notin Handler /\ SessionOf(p) = p[1]
    BY Names DEF SessionOf
  <1>1. Kept
    BY DEF Kept, Started, LookupPanic, ends, session
  <1>2. RecvKept
    BY DEF TypeOK, RecvKept, LookupPanic, Goto
  <1>3. ChannelsKept
    BY DEF ChannelsKept, LookupPanic, chans
  <1>4. ClosersGoOn
    BY <1>0 DEF TypeOK, ClosersGoOn, Pushing, SessionOf, LookupPanic, Goto, joins
  <1>5. ShutKept
    BY <1>0 DEF TypeOK, ShutIsClosed, ShutKept, SessionOf, LookupPanic, Goto, ends, joins
  <1>6. FreshKept
    BY DEF FreshSession, FreshKept, Started, LookupPanic, session, chans
  <1> QED
    BY <1>1, <1>2, <1>3, <1>4, <1>5, <1>6, WatchStep

\* The handler looks its user up.
LEMMA ServeLookupWatches ==
    ASSUME Inv, WatchInv, NEW c \in Conns, ServeLookup(c) PROVE WatchInv'
  <1> USE DEF Inv, WatchInv
  <1>h. <<c, c, "serve">> \in Handler /\ <<c, c, "serve">>[1] = c
    BY Names
  <1>p. PICK p \in Handler : p = <<c, c, "serve">> /\ p[1] = c
    BY <1>h
  <1>q. /\ \A q \in Handler : q[1] = c => q = p
        /\ p \in Proc /\ p \notin Loop
    BY <1>p, Names
  <1>a. /\ pc[p] = "lookup"
        /\ UNCHANGED <<conn, connected, connection, chClose, tokens, sealed>>
        /\ \A q \in Proc : q # p => pc'[q] = pc[q] /\ SessionOf(q)' = SessionOf(q)
        /\ pc'[p] \in {"check", "assign", "end"}
    BY <1>p, <1>q, Names DEF TypeOK, SessionOf, ServeLookup, Goto, ends, session, chans, joins
  <1>1. Kept
    BY <1>a DEF Kept, Started
  <1>2. RecvKept
    BY <1>a, Names DEF RecvKept
  <1>3. ChannelsKept
    BY <1>a DEF ChannelsKept
  <1>4. ClosersGoOn
    BY <1>a DEF ClosersGoOn, Pushing
  <1>5. ShutKept
    BY <1>a DEF ShutIsClosed, ShutKept
  <1>6. FreshKept
    BY <1>a DEF FreshSession, FreshKept, Started
  <1> QED
    BY <1>1, <1>2, <1>3, <1>4, <1>5, <1>6, WatchStep

\* The handler makes its session the user's.
LEMMA ServeAssignWatches ==
    ASSUME Inv, WatchInv, NEW c \in Conns, ServeAssign(c) PROVE WatchInv'
  <1> USE DEF Inv, WatchInv
  <1>1. Kept
    BY DEF Kept, Started, ServeAssign, ends, session
  <1>2. RecvKept
    BY DEF RecvKept, ServeAssign, Goto
  <1>3. ChannelsKept
    BY DEF ChannelsKept, ServeAssign, chans
  <1>4. ClosersGoOn
    BY DEF ClosersGoOn, Pushing, SessionOf, ServeAssign, Goto, joins
  <1>5. ShutKept
    BY DEF ShutIsClosed, ShutKept, SessionOf, ServeAssign, Goto, ends, joins
  <1>6. FreshKept
    BY DEF FreshSession, FreshKept, Started, ServeAssign, session, chans
  <1> QED
    BY <1>1, <1>2, <1>3, <1>4, <1>5, <1>6, WatchStep

\* Join takes the other session's connection: the joining session's own
\* connection is not open: its Close has returned.
LEMMA ServeJoinConnWatches ==
    ASSUME Inv, WatchInv, NEW c \in Conns, ServeJoinConn(c) PROVE WatchInv'
  <1> USE DEF Inv, WatchInv
  <1>1. Kept
    BY Names DEF ShutIsClosed, Kept, Started, SessionOf, ServeJoinConn, ends
  <1>2. RecvKept
    BY DEF RecvKept, ServeJoinConn, Goto
  <1>3. ChannelsKept
    BY DEF ChannelsKept, ServeJoinConn, chans
  <1>4. ClosersGoOn
    BY DEF ShutIsClosed, ClosersGoOn, SessionOf, ServeJoinConn, Goto, ends, joins
  <1>5. ShutKept
    BY DEF ShutIsClosed, ShutKept, SessionOf, ServeJoinConn, Goto, ends, joins
  <1>6. FreshKept
    BY Names DEF WorkIsStarted, FreshSession, FreshKept, Started, ServeJoinConn, chans
  <1> QED
    BY <1>1, <1>2, <1>3, <1>4, <1>5, <1>6, WatchStep

\* Join makes the new channel and loops: only a session whose connection is
\* closed gets them.
LEMMA ServeJoinLoopsWatches ==
    ASSUME Inv, WatchInv, NEW c \in Conns, ServeJoinLoops(c) PROVE WatchInv'
  <1> USE DEF Inv, WatchInv
  <1>h. <<c, c, "serve">> \in Handler /\ <<c, c, "serve">>[1] = c
    BY Names
  <1>p. PICK p \in Handler : p = <<c, c, "serve">> /\ p[1] = c
    BY <1>h
  <1>q. /\ \A q \in Handler : q[1] = c => q = p
        /\ p \in Proc /\ p \notin Loop
    BY <1>p, Names
  <1> DEFINE s == joining[c]
             r == <<s, c, "recv">>
             t == <<s, c, "send">>
             new == <<s, c>>
  <1>s. s \in Conns /\ Started(s) /\ pc[p] = "swapChan" /\ SessionOf(p) = s
    BY <1>p DEF ServeJoinLoops, WorkIsStarted, SessionOf
  <1>o. conn[s] # "open"
    BY <1>s, <1>q DEF ShutIsClosed
  <1>k. /\ r \in Loop /\ r[1] = s /\ t \in Loop /\ t[1] = s
        /\ new \in Chan /\ new[1] = s /\ new # Nil
    BY <1>s, Names
  <1>a. /\ chClose' = [chClose EXCEPT ![s] = new]
        /\ pc' = [pc EXCEPT ![p] = "end", ![r] = "top", ![t] = "top"]
        /\ joining' = [joining EXCEPT ![c] = Nil]
        /\ UNCHANGED <<conn, connected, connection, tokens, sealed>>
    BY <1>p DEF ServeJoinLoops, ends, chans
  <1> HIDE DEF s, r, t, new
  <1>b. \A q \in Proc : q \notin {p, r, t} => pc'[q] = pc[q] /\ SessionOf(q)' = SessionOf(q)
    BY <1>a, <1>q, Names DEF TypeOK, SessionOf
  <1>c. /\ pc'[p] \in {"end", "top"} /\ pc'[r] = "top" /\ pc'[t] = "top"
        /\ SessionOf(r) = s /\ SessionOf(t) = s
    BY <1>a, <1>q, <1>k, Names DEF TypeOK, SessionOf
  <1>d. \A x \in Conns : Started(x)' <=> Started(x)
    BY <1>a, <1>k, <1>s DEF TypeOK, Started
  <1>1. Kept
    BY <1>a, <1>d DEF Kept
  <1>2. RecvKept
    BY <1>b, <1>c, Names DEF RecvKept
  <1>3. ChannelsKept
    BY <1>a DEF ChannelsKept
  <1>4. ClosersGoOn
    BY <1>a, <1>b, <1>c, <1>o, <1>s DEF ClosersGoOn
  <1>5. ShutKept
    BY <1>a, <1>b, <1>c DEF ShutIsClosed, ShutKept
  <1>6. FreshKept
    BY <1>a, <1>d DEF FreshSession, FreshKept
  <1> QED
    BY <1>1, <1>2, <1>3, <1>4, <1>5, <1>6, WatchStep

\* The client is gone.
LEMMA ClientGoneWatches ==
    ASSUME Inv, WatchInv, NEW c \in Conns, ClientGone(c) PROVE WatchInv'
  <1> USE DEF Inv, WatchInv
  <1>1. Kept
    BY DEF Kept, Started, ClientGone, session
  <1>2. RecvKept
    BY DEF RecvKept, ClientGone
  <1>3. ChannelsKept
    BY DEF ChannelsKept, ClientGone, chans
  <1>4. ClosersGoOn
    BY DEF ClosersGoOn, SessionOf, ClientGone, joins
  <1>5. ShutKept
    BY DEF ShutIsClosed, ShutKept, SessionOf, ClientGone, joins
  <1>6. FreshKept
    BY DEF FreshSession, FreshKept, Started, ClientGone, session, chans
  <1> QED
    BY <1>1, <1>2, <1>3, <1>4, <1>5, <1>6, WatchStep

\* Close reads Connected: Connected is TRUE for an open connection, so the
\* closer goes on.
LEMMA CloseCheckWatches ==
    ASSUME Inv, WatchInv, NEW p \in Proc, CloseCheck(p) PROVE WatchInv'
  <1> USE DEF Inv, WatchInv
  <1>1. Kept
    BY DEF Kept, Started, CloseCheck, ends, session
  <1>2. RecvKept
    BY Names DEF TypeOK, OpenIsWatched, RecvKept, SessionOf, CloseCheck, Goto, ends,
       Return
  <1>3. ChannelsKept
    BY DEF ChannelsKept, CloseCheck, chans
  <1>4. ClosersGoOn
    BY DEF TypeOK, ClosersGoOn, Pushing, SessionOf, CloseCheck, Goto, Return, joins
  <1>5. ShutKept
    BY Closer DEF TypeOK, OpenIsWatched, ShutIsClosed, ShutKept, SessionOf, Closing,
       CloseCheck, Goto, ends, Return, joins
  <1>6. FreshKept
    BY DEF FreshSession, FreshKept, Started, CloseCheck, session, chans
  <1> QED
    BY <1>1, <1>2, <1>3, <1>4, <1>5, <1>6, WatchStep

\* Close puts a value into the channel, or panics: the channel of an open
\* connection is not closed, so the closer goes on.
LEMMA ClosePushWatches ==
    ASSUME Inv, WatchInv, NEW p \in Proc, ClosePush(p) PROVE WatchInv'
  <1> USE DEF Inv, WatchInv
  <1>1. Kept
    BY DEF Kept, Started, ClosePush, ends, session
  <1>2. RecvKept
    BY Names, Closer DEF TypeOK, OpenIsWatched, RecvKept, SessionOf, Closing,
       ClosePush, Goto, ends, Panic
  <1>3. ChannelsKept
    BY Closer DEF TypeOK, ChannelsKept, ClosingSoon, SessionOf, Closing, ClosePush,
       Goto, session, Panic, joins
  <1>4. ClosersGoOn
    BY Closer DEF TypeOK, OpenIsWatched, ClosersGoOn, Pushing, SessionOf, Closing,
       ClosePush, Goto, ends, Panic, joins
  <1>5. ShutKept
    BY DEF TypeOK, ShutIsClosed, ShutKept, SessionOf, ClosePush, Goto, ends, Panic, joins
  <1>6. FreshKept
    BY Closer DEF TypeOK, FreshSession, FreshKept, Started, Closing, ClosePush, session
  <1> QED
    BY <1>1, <1>2, <1>3, <1>4, <1>5, <1>6, WatchStep

\* Close closes the connection: connections do not open.
LEMMA CloseShutWatches ==
    ASSUME Inv, WatchInv, NEW p \in Proc, CloseShut(p) PROVE WatchInv'
  <1> USE DEF Inv, WatchInv
  <1>1. Kept
    BY DEF Kept, Started, CloseShut, session
  <1>2. RecvKept
    BY DEF RecvKept, CloseShut, Goto
  <1>3. ChannelsKept
    BY DEF ChannelsKept, CloseShut, chans
  <1>4. ClosersGoOn
    BY Closer DEF TypeOK, OpenIsWatched, ClosersGoOn, SessionOf, Closing, CloseShut,
       Goto, joins
  <1>5. ShutKept
    BY Closer DEF TypeOK, OpenIsWatched, ShutIsClosed, ShutKept, SessionOf, Closing,
       CloseShut, Goto, joins
  <1>6. FreshKept
    BY DEF FreshSession, FreshKept, Started, CloseShut, session, chans
  <1> QED
    BY <1>1, <1>2, <1>3, <1>4, <1>5, <1>6, WatchStep

\* Close resets Connected: the connection is closed by now.
LEMMA CloseUnsetWatches ==
    ASSUME Inv, WatchInv, NEW p \in Proc, CloseUnset(p) PROVE WatchInv'
  <1> USE DEF Inv, WatchInv
  <1>1. Kept
    <2>1. conn[SessionOf(p)] # "open"
      BY DEF ShutIsClosed, CloseUnset
    <2>2. \A c \in Conns : c # SessionOf(p) => connected'[c] = connected[c]
      BY DEF TypeOK, CloseUnset
    <2> QED
      BY <2>1, <2>2 DEF Kept, Started, CloseUnset, ends
  <1>2. RecvKept
    BY DEF RecvKept, CloseUnset, Goto
  <1>3. ChannelsKept
    BY DEF ChannelsKept, CloseUnset, chans
  <1>4. ClosersGoOn
    BY DEF ShutIsClosed, ClosersGoOn, SessionOf, CloseUnset, Goto, ends, joins
  <1>5. ShutKept
    BY DEF ShutIsClosed, ShutKept, SessionOf, CloseUnset, Goto, ends, joins
  <1>6. FreshKept
    BY DEF FreshSession, FreshKept, Started, CloseUnset, chans
  <1> QED
    BY <1>1, <1>2, <1>3, <1>4, <1>5, <1>6, WatchStep

\* Close closes the channel, or panics: the connection is closed by now.
LEMMA CloseSealWatches ==
    ASSUME Inv, WatchInv, NEW p \in Proc, CloseSeal(p) PROVE WatchInv'
  <1> USE DEF Inv, WatchInv
  <1>1. Kept
    BY DEF Kept, Started, CloseSeal, ends, session
  <1>2. RecvKept
    BY Names DEF TypeOK, ShutIsClosed, RecvKept, SessionOf, CloseSeal, Goto, ends,
       Panic, Return
  <1>3. ChannelsKept
    BY Closer DEF ShutIsClosed, ChannelsKept, Closing, CloseSeal, ends
  <1>4. ClosersGoOn
    BY DEF TypeOK, ShutIsClosed, ClosersGoOn, SessionOf, CloseSeal, Goto, ends,
       Panic, Return, joins
  <1>5. ShutKept
    BY DEF TypeOK, ShutIsClosed, ShutKept, SessionOf, CloseSeal, Goto, ends, Panic,
       Return, joins
  <1>6. FreshKept
    BY DEF FreshSession, FreshKept, Started, CloseSeal, session
  <1> QED
    BY <1>1, <1>2, <1>3, <1>4, <1>5, <1>6, WatchStep

\* The handshake is over: the session starts, or its connection is closed: the
\* new loops are there from the first moment on.
LEMMA ServeStartWatches ==
    ASSUME Inv, WatchInv, NEW c \in Conns, ServeStart(c) PROVE WatchInv'
  <1> USE DEF Inv, WatchInv
  <1>h. <<c, c, "serve">> \in Handler /\ <<c, c, "serve">>[1] = c
    BY Names
  <1>p. PICK p \in Handler : p = <<c, c, "serve">> /\ p[1] = c
    BY <1>h
  <1>q. /\ \A q \in Handler : q[1] = c => q = p
        /\ p \in Proc /\ p \notin Loop
    BY <1>p, Names
  <1> DEFINE r == <<c, c, "recv">>
             t == <<c, c, "send">>
             new == <<c, c>>
  <1>k. /\ r \in Loop /\ r[1] = c /\ t \in Loop /\ t[1] = c
        /\ new \in Chan /\ new[1] = c /\ new # Nil
    BY Names
  <1>a. /\ pc[p] = "idle"
        /\ UNCHANGED <<connection, tokens, sealed, joining>>
    BY <1>p DEF ServeStart, chans, held, faults, joins
  <1>b. \/ /\ conn' = [conn EXCEPT ![c] = "open"]
           /\ connected' = [connected EXCEPT ![c] = TRUE]
           /\ chClose' = [chClose EXCEPT ![c] = new]
           /\ pc' = [pc EXCEPT ![p] = "lookup", ![r] = "top", ![t] = "top"]
        \/ /\ conn' = [conn EXCEPT ![c] = "closed"]
           /\ pc' = [pc EXCEPT ![p] = "end"]
           /\ UNCHANGED <<connected, chClose>>
    BY <1>p DEF ServeStart, Goto
  <1>d. ~Started(c)
    BY <1>a, <1>p DEF WorkIsStarted
  <1>e. connection[c] = c /\ \A ch \in Chan : ch[1] = c => tokens[ch] = 0 /\ ch \notin sealed
    BY <1>d, Names DEF TypeOK, SealedIsUnset, FreshSession
  <1>f. pc[r] = "none" /\ pc[t] = "none"
    BY <1>d, <1>k DEF WorkIsStarted
  <1>t. p \in Proc /\ r \in Proc /\ t \in Proc
    BY <1>k, <1>q, Names
  <1>v. pc \in [Proc -> Place]
    BY DEF TypeOK
  <1> HIDE DEF r, t, new
  <1>g. \A q \in Proc :
          \/ pc[q] \in {"idle", "none"} /\ pc'[q] \in {"lookup", "top", "end"}
          \/ pc'[q] = pc[q]
    <2>1. CASE pc' = [pc EXCEPT ![p] = "end"]
      BY <1>a, <1>t, <1>v, <2>1
    <2>2. CASE pc' = [pc EXCEPT ![p] = "lookup", ![r] = "top", ![t] = "top"]
      BY <1>a, <1>f, <1>t, <1>v, <2>2
    <2> QED
      BY <1>b, <2>1, <2>2
  <1>i. \A q \in Proc : SessionOf(q)' = SessionOf(q)
    BY <1>a DEF SessionOf
  <1>j. \A x \in Conns : x # c =>
          /\ conn'[x] = conn[x] /\ connected'[x] = connected[x] /\ (Started(x)' <=> Started(x))
    BY <1>b DEF TypeOK, Started
  <1>m. \A x : \A places \in SUBSET Pushing : ClosingSoon(x, places) => ClosingSoon(x, places)'
    BY <1>g, <1>i DEF ClosingSoon, Pushing
  <1>1. OpenIsWatched'
    <2>1. ASSUME NEW x \in Conns, x # c, conn'[x] = "open"
          PROVE  /\ Started(x)' /\ connection'[x] = x /\ connected'[x] /\ Watched(x)'
                 /\ \A ch \in Chan :
                      ch[1] = x =>
                        /\ ch \notin sealed'
                        /\ tokens'[ch] > 0 => ClosingSoon(x, {"push2", "shut"})'
      <3>1. conn[x] = "open"
        BY <1>j, <2>1
      <3>2. <<x, x, "recv">> \in Loop /\ <<x, x, "recv">>[1] = x
        BY Names
      <3>3. Watched(x) => Watched(x)'
        <4>1. pc[<<x, x, "recv">>] \notin {"none", "end"} =>
                pc'[<<x, x, "recv">>] \notin {"none", "end"}
          <5>1. <<x, x, "recv">> \in Proc /\ <<x, x, "recv">> # p
            BY <1>q, <3>2, Names
          <5>2. \A q \in Proc :
                  q # p /\ pc[q] \notin {"none", "end"} => pc'[q] \notin {"none", "end"}
            <6>1. CASE pc' = [pc EXCEPT ![p] = "end"]
              BY <1>t, <1>v, <6>1
            <6>2. CASE pc' = [pc EXCEPT ![p] = "lookup", ![r] = "top", ![t] = "top"]
              BY <1>t, <1>v, <6>2
            <6> QED
              BY <1>b, <6>1, <6>2
          <5> QED
            BY <5>1, <5>2
        <4>2. ClosingSoon(x, {"push1", "push2", "shut"}) =>
                ClosingSoon(x, {"push1", "push2", "shut"})'
          BY <1>m DEF Pushing
        <4> QED
          BY <4>1, <4>2 DEF Watched
      <3> QED
        BY <1>a, <1>j, <1>m, <2>1, <3>1, <3>3 DEF OpenIsWatched, Pushing
    <2>2. ASSUME conn'[c] = "open"
          PROVE  Started(c)' /\ connection'[c] = c /\ connected'[c] /\ pc'[r] = "top"
      BY <1>a, <1>b, <1>e, <1>k, <1>q, <2>2, Names DEF TypeOK, Started
    <2>3. conn'[c] = "open" => Watched(c)'
      BY <2>2 DEF Watched, r
    <2> QED
      BY <1>a, <1>e, <2>1, <2>2, <2>3 DEF OpenIsWatched
  <1>2. ShutIsClosed'
    <2>1. ASSUME NEW q \in Proc, pc'[q] \in {"unset", "seal", "swapConn", "swapChan"}
          PROVE  conn'[SessionOf(q)'] # "open"
      <3>1. pc[q] = pc'[q] /\ SessionOf(q)' = SessionOf(q)
        BY <1>g, <1>i, <2>1
      <3>2. conn[SessionOf(q)] # "open"
        BY <2>1, <3>1 DEF ShutIsClosed
      <3>3. SessionOf(q) \in Conns /\ Started(SessionOf(q))
        BY <2>1, <3>1, Closer, Names DEF WorkIsStarted, SessionOf, Closing
      <3> QED
        BY <1>d, <1>j, <3>1, <3>2, <3>3
    <2> QED
      BY <2>1 DEF ShutIsClosed
  <1>3. FreshSession'
    BY <1>a, <1>e, <1>j DEF FreshSession
  <1> QED
    BY <1>1, <1>2, <1>3

\* The invariant holds at the start.
LEMMA WatchInit == Init => WatchInv
  BY Names DEF Init, WatchInv, OpenIsWatched, ShutIsClosed, FreshSession

\* Every step keeps it.
LEMMA WatchNext == Inv /\ WatchInv /\ [Next]_vars => WatchInv'
  <1> SUFFICES ASSUME Inv, WatchInv, [Next]_vars PROVE WatchInv'
    OBVIOUS
  <1>1. ASSUME NEW c \in Conns, ServeStart(c) \/ Serve(c) \/ ClientGone(c) PROVE WatchInv'
    BY <1>1, ServeStartWatches, ServeLookupWatches, ServeAssignWatches,
       ServeJoinConnWatches,
       ServeJoinLoopsWatches, ClientGoneWatches DEF Serve
  <1>2. ASSUME NEW p \in Loop, Recv(p) \/ RecvMessage(p) \/ RecvText(p) PROVE WatchInv'
    BY <1>2, RecvTopWatches, RecvDefaultWatches, RecvMessageWatches, RecvErrorWatches,
       RecvTextWatches, RecvEchoedWatches DEF Recv
  <1>3. ASSUME NEW p \in Loop, Send(p) \/ SendMessage(p) \/ LookupPanic(p) PROVE WatchInv'
    BY <1>3, SendTopWatches, SendStopWatches, SendMessageWatches, SendWrittenWatches,
       LookupPanicWatches DEF Send
  <1>4. ASSUME NEW p \in Proc, Close(p) PROVE WatchInv'
    BY <1>4, CloseCheckWatches, ClosePushWatches, CloseShutWatches, CloseUnsetWatches,
       CloseSealWatches DEF Close
  <1>5. CASE UNCHANGED vars
    BY <1>5 DEF vars, ends, session, chans, held, faults, WatchInv, OpenIsWatched,
       Watched,
       ClosingSoon, ShutIsClosed, FreshSession, Started, SessionOf, joins
  <1> QED
    BY <1>1, <1>2, <1>3, <1>4, <1>5 DEF Next

\* However many connections there are, and also when writes have overlapped, an
\* open connection whose client is gone has a recv loop of a session that holds
\* it, or somebody inside that session's Close.
THEOREM NoneIsAbandoned == Spec => []AbandonedIsNoticed
  <1>1. WatchInv => AbandonedIsNoticed
    <2> SUFFICES ASSUME WatchInv, NEW c \in Conns, conn[c] = "open"
                 PROVE  \/ \E p \in Loop : /\ p[3] = "recv" /\ connection[p[1]] = c
                                           /\ pc[p] \notin {"none", "end"}
                        \/ \E p \in Proc : pc[p] \in Closing /\ connection[SessionOf(p)] = c
      BY DEF AbandonedIsNoticed
    <2>1. connection[c] = c /\ Watched(c)
      BY DEF WatchInv, OpenIsWatched
    <2>2. CASE pc[<<c, c, "recv">>] \notin {"none", "end"}
      <3>1. /\ <<c, c, "recv">> \in Loop
            /\ <<c, c, "recv">>[1] = c /\ <<c, c, "recv">>[3] = "recv"
        BY Names
      <3> QED
        BY <2>1, <2>2, <3>1
    <2>3. CASE ClosingSoon(c, {"push1", "push2", "shut"})
      BY <2>1, <2>3 DEF ClosingSoon, Closing
    <2> QED
      BY <2>1, <2>2, <2>3 DEF Watched
  <1>2. Spec => []WatchInv
    BY WatchInit, WatchNext, Invariance, PTL DEF Spec
  <1> QED
    BY <1>1, <1>2, PTL

-----------------------------------------------------------------------------
(* What holds when everything has come to rest, as long as no writes overlap *)
(* and no two handlers are in one session's Join.                            *)
(*                                                                           *)
(* The argument: only the session's first recv and the one handler that asks *)
(* it to Join ever get past Close's check, each puts two values into the     *)
(* channel, and the two loops take one each when they end (Tally).  So when  *)
(* both are stuck, for which the channel has to be full, the send loop still *)
(* has to take a value.  If one gets through, it seals the channel, unless   *)
(* the handler has replaced it, but then only recv is left (UnsetIsSealed).  *)

RecvOf(s) == <<s, s, "recv">>
SendOf(s) == <<s, s, "send">>
ServeOf(c) == <<c, c, "serve">>
OwnChan(s) == <<s, s>>

\* InJoin, by the names used here.
Joins(c, s) == joining[c] = s /\ pc[ServeOf(c)] # "end"

\* A session is never asked to Join its own connection, nor goes on with it while
\* it is connected.
NeverItself ==
    /\ registered # Nil => pc[ServeOf(registered)] = "end"
    /\ \A c \in Conns :
         /\ joining[c] # c
         /\ joining[c] # Nil =>
              pc[ServeOf(c)] \in Closing \cup {"swapConn", "swapChan", "end"}
         /\ pc[ServeOf(c)] \in {"swapConn", "swapChan"} => ~connected[joining[c]]

\* A session that is connected is as Start has left it.
OwnWhileConnected ==
    /\ \A s \in Conns :
         connected[s] => /\ chClose[s] = OwnChan(s) /\ connection[s] = s
                         /\ pc[RecvOf(s)] \notin {"none", "idle"}
                         /\ pc[SendOf(s)] \notin {"none", "idle"}
    /\ \A p \in Loop : pc[p] # "none" /\ p[2] # p[1] => ~connected[p[1]]

\* A connection that a client or a session has met was opened.
MetWasOpened == \A c \in Conns : peer[c] # "absent" \/ Started(c) => conn[c] # "none"

\* What the goroutines of a session have read from it is its own as long as the
\* fields are as Start has left them.
HeldIsOwn ==
    /\ \A p \in Loop :
         /\ pc[p] = "none" => heldConn[p] = Nil /\ heldChan[p] = Nil
         /\ pc[p] = "read" => heldConn[p] # Nil
         /\ pc[p] = "select" => heldChan[p] # Nil
         /\ connection[p[1]] = p[1] => heldConn[p] \in {Nil, p[1]}
    /\ \A p \in Proc : \A s \in Conns :
         SessionOf(p) = s /\ chClose[s] = OwnChan(s) => heldChan[p] \in {Nil, OwnChan(s)}

\* The places of a goroutine that has found its session connected.
Past == {"push1", "push2", "shut", "unset", "seal"}

\* Those who get there: the session's first recv, and one handler before it has
\* replaced the channel.
OneJoins ==
    \A c, d \in Conns :
      joining[c] # Nil /\ Joins(c, joining[c]) /\ Joins(d, joining[c]) => c = d
FewClose ==
    /\ \A p \in Loop :
         /\ pc[p] \in Closing \cup {"echo", "read"} => p[3] = "recv"
         /\ pc[p] \in {"select", "write"} => p[3] = "send"
    /\ \A p \in Loop : pc[p] \in Past => p = RecvOf(p[1])
    /\ \A c \in Conns : pc[ServeOf(c)] \in Past => chClose[joining[c]] = OwnChan(joining[c])

\* Who resets Connected goes on to close the session's first channel; if it has
\* been replaced meanwhile, nobody else is waiting for it.
Sealing(s) == chClose[s] = OwnChan(s) /\ \E p \in Proc : SessionOf(p) = s /\ pc[p] = "seal"
NoneWaits(s) == \A p \in Proc : SessionOf(p) = s => pc[p] \notin Past \ {"seal"}
UnsetIsSealed ==
    \A s \in Conns :
      Started(s) /\ ~connected[s] /\ OwnChan(s) \notin sealed => Sealing(s) \/ NoneWaits(s)

\* Only the session's first recv puts values into a channel that a Join has made.
LaterChannels ==
    \A ch \in Chan :
      ch[2] # ch[1] =>
        /\ connected[ch[1]] \/ pc[RecvOf(ch[1])] = "push1" => tokens[ch] = 0
        /\ pc[RecvOf(ch[1])] = "push2" => tokens[ch] <= 1

\* What a goroutine in Close has put into the channel, and what an ended loop has
\* taken.
Put(p) ==
    IF pc[p] = "push2" THEN 1 ELSE IF pc[p] \in {"shut", "unset", "seal"} THEN 2 ELSE 0
Taken(p) == IF pc[p] = "end" THEN 1 ELSE 0

\* The channel of a connected session holds what was put into it and not taken.
Balance(s, n) ==
    tokens[OwnChan(s)] + Taken(RecvOf(s)) + Taken(SendOf(s)) = Put(RecvOf(s)) + n
Tally ==
    \A s \in Conns :
      connected[s] =>
        /\ \A c \in Conns : Joins(c, s) => Balance(s, Put(ServeOf(c)))
        /\ (\A c \in Conns : ~Joins(c, s)) => Balance(s, 0)

Calm == ~clash /\ ~crowded
Fields == NeverItself /\ OwnWhileConnected /\ HeldIsOwn
Orderly == OneJoins /\ FewClose /\ UnsetIsSealed /\ LaterChannels /\ Tally
RestInv == MetWasOpened /\ (Calm => Fields /\ Orderly)

\* What is used of the names of goroutines and channels below.
LEMMA Goroutines ==
    /\ Proc = Loop \cup Handler /\ Loop \cap Handler = {}
    /\ \A s \in Conns :
         /\ RecvOf(s) \in Loop /\ RecvOf(s)[1] = s /\ RecvOf(s)[2] = s /\ RecvOf(s)[3] = "recv"
         /\ SendOf(s) \in Loop /\ SendOf(s)[1] = s /\ SendOf(s)[2] = s /\ SendOf(s)[3] = "send"
         /\ ServeOf(s) \in Handler /\ ServeOf(s)[1] = s
         /\ OwnChan(s) \in Chan /\ OwnChan(s)[1] = s /\ OwnChan(s)[2] = s
    /\ \A p \in Loop :
         /\ p[1] \in Conns /\ p[2] \in Conns /\ p[3] \in {"recv", "send"}
         /\ p[2] = p[1] => p = IF p[3] = "recv" THEN RecvOf(p[1]) ELSE SendOf(p[1])
    /\ \A p \in Handler : p[1] \in Conns /\ p = ServeOf(p[1])
    /\ \A ch \in Chan :
         /\ ch[1] \in Conns /\ ch[2] \in Conns /\ ch # Nil
         /\ ch[2] = ch[1] => ch = OwnChan(ch[1])
  <1>1. /\ Proc = Loop \cup Handler /\ Loop \cap Handler = {}
        /\ \A p \in Handler : p[1] \in Conns /\ p = ServeOf(p[1])
    BY Names DEF ServeOf
  <1>2. ASSUME NEW s \in Conns
        PROVE  /\ RecvOf(s) \in Loop /\ RecvOf(s)[1] = s /\ RecvOf(s)[2] = s
               /\ RecvOf(s)[3] = "recv"
               /\ SendOf(s) \in Loop /\ SendOf(s)[1] = s /\ SendOf(s)[2] = s
               /\ SendOf(s)[3] = "send"
               /\ ServeOf(s) \in Handler /\ ServeOf(s)[1] = s
               /\ OwnChan(s) \in Chan /\ OwnChan(s)[1] = s /\ OwnChan(s)[2] = s
    BY DEF Loop, Handler, Chan, RecvOf, SendOf, ServeOf, OwnChan
  <1>3. ASSUME NEW p \in Loop
        PROVE  /\ p[1] \in Conns /\ p[2] \in Conns /\ p[3] \in {"recv", "send"}
               /\ p[2] = p[1] => p = IF p[3] = "recv" THEN RecvOf(p[1]) ELSE SendOf(p[1])
    BY DEF Loop, RecvOf, SendOf
  <1>4. ASSUME NEW ch \in Chan
        PROVE  /\ ch[1] \in Conns /\ ch[2] \in Conns /\ ch # Nil
               /\ ch[2] = ch[1] => ch = OwnChan(ch[1])
    BY NilAssumption DEF Chan, OwnChan
  <1> QED
    BY <1>1, <1>2, <1>3, <1>4

\* Whose Close it is.
LEMMA Sessions ==
    /\ \A p \in Loop : SessionOf(p) = p[1]
    /\ \A c \in Conns : SessionOf(ServeOf(c)) = joining[c]
  BY Goroutines DEF SessionOf

-----------------------------------------------------------------------------
\* What the steps do.

Others(p) ==
    \A q \in Proc : q # p =>
      pc'[q] = pc[q] /\ heldChan'[q] = heldChan[q] /\ heldConn'[q] = heldConn[q]
Fixed == UNCHANGED <<connected, connection, chClose, registered, joining>>

\* A loop goes on.
Worked(p) ==
    /\ p \in Loop /\ Others(p) /\ Fixed /\ UNCHANGED chans
    /\ pc[p] \notin Closing \cup {"none", "end"}
    /\ pc'[p] \in {"top", "default", "read", "echo", "check", "select", "write"}
    /\ pc'[p] \in {"default", "echo", "check", "read"} => p[3] = "recv"
    /\ pc'[p] \in {"select", "write"} => p[3] = "send"
    /\ pc'[p] = "read" => heldConn'[p] = connection[p[1]]
    /\ pc'[p] = "select" => heldChan'[p] = chClose[p[1]]
    /\ heldConn'[p] \in {Nil, heldConn[p], connection[p[1]]}
    /\ heldChan'[p] \in {Nil, heldChan[p], chClose[p[1]]}

\* A loop that goes on reads the fields of its session and is in nobody's way.
LEMMA WorkedRests ==
    ASSUME Inv, WatchInv, Fields, Orderly, NEW p, Worked(p)
    PROVE  (Fields /\ Orderly)'
  <1> USE DEF Fields, Orderly, Fixed, Others, Worked, chans
  <1>1. NeverItself'
    <2>1. registered # Nil => registered \in Conns
      BY DEF Inv, TypeOK
    <2>2. \A c \in Conns : pc'[ServeOf(c)] = pc[ServeOf(c)]
      BY Goroutines
    <2> QED
      BY <2>1, <2>2 DEF NeverItself
  <1>2. OwnWhileConnected'
    BY Goroutines DEF OwnWhileConnected, Closing
  <1>3. HeldIsOwn'
    <2>1. p \in Loop /\ p \in Proc /\ p[1] \in Conns
      BY Goroutines
    <2>2. connection[p[1]] # Nil /\ chClose[p[1]] # Nil
      BY <2>1, NilAssumption DEF Inv, TypeOK, WorkIsStarted, Started
    <2>3. \A q \in Loop :
            /\ pc'[q] = "none" => heldConn'[q] = Nil /\ heldChan'[q] = Nil
            /\ pc'[q] = "read" => heldConn'[q] # Nil
            /\ pc'[q] = "select" => heldChan'[q] # Nil
            /\ connection[q[1]] = q[1] => heldConn'[q] \in {Nil, q[1]}
      BY <2>1, <2>2, Goroutines DEF HeldIsOwn
    <2>4. \A q \in Proc : \A s \in Conns :
            SessionOf(q) = s /\ chClose[s] = OwnChan(s) => heldChan'[q] \in {Nil, OwnChan(s)}
      BY <2>1, Sessions DEF HeldIsOwn
    <2> QED
      BY <2>3, <2>4 DEF HeldIsOwn, SessionOf
  <1>4. OneJoins'
    BY Goroutines DEF OneJoins, Joins, Inv, TypeOK
  <1>5. FewClose'
    BY Goroutines DEF FewClose, Closing, Past
  <1>6. UnsetIsSealed'
    BY Goroutines DEF UnsetIsSealed, Sealing, NoneWaits, Past, Closing, SessionOf, Started
  <1>7. LaterChannels'
    BY Goroutines DEF LaterChannels, Closing
  <1>8. Tally'
    BY Goroutines DEF Tally, Joins, Balance, Put, Taken, Closing
  <1> QED
    BY <1>1, <1>2, <1>3, <1>4, <1>5, <1>6, <1>7, <1>8

\* A loop ends: by a value in its channel, or because that is closed.
Ended(p) ==
    /\ p \in Loop /\ Others(p) /\ Fixed /\ UNCHANGED sealed
    /\ pc[p] \in {"top", "select"} /\ pc'[p] = "end"
    /\ heldConn'[p] = heldConn[p] /\ heldChan'[p] \in {Nil, heldChan[p]}
    /\ LET ch == IF pc[p] = "top" THEN chClose[p[1]] ELSE heldChan[p] IN
         /\ ch \in Chan
         /\ \/ tokens[ch] > 0 /\ tokens' = [tokens EXCEPT ![ch] = @ - 1]
            \/ ch \in sealed /\ UNCHANGED tokens

\* A loop that ends has taken one of the two values that the Tally allows for.
LEMMA EndedRests ==
    ASSUME Inv, WatchInv, Fields, Orderly, NEW p, Ended(p)
    PROVE  (Fields /\ Orderly)'
  <1> USE DEF Fields, Orderly, Fixed, Others
  <1>0. p \in Proc /\ p[1] \in Conns
    BY Goroutines DEF Ended
  <1>1. NeverItself'
    <2>1. registered # Nil => registered \in Conns
      BY DEF Inv, TypeOK
    <2>2. \A c \in Conns : pc'[ServeOf(c)] = pc[ServeOf(c)]
      BY Goroutines DEF Ended
    <2>3. UNCHANGED <<registered, joining, connected>>
      BY DEF Ended
    <2> QED
      BY <2>1, <2>2, <2>3 DEF NeverItself
  <1>2. OwnWhileConnected'
    BY Goroutines DEF OwnWhileConnected, Closing, Ended
  <1>3. HeldIsOwn'
    <2>1. \A q \in Loop :
            /\ pc'[q] = "none" => heldConn'[q] = Nil /\ heldChan'[q] = Nil
            /\ pc'[q] = "read" => heldConn'[q] # Nil
            /\ pc'[q] = "select" => heldChan'[q] # Nil
            /\ connection[q[1]] = q[1] => heldConn'[q] \in {Nil, q[1]}
      BY <1>0, Goroutines DEF HeldIsOwn, Ended
    <2>2. \A q \in Proc : \A s \in Conns :
            SessionOf(q) = s /\ chClose[s] = OwnChan(s) => heldChan'[q] \in {Nil, OwnChan(s)}
      BY <1>0, Sessions DEF HeldIsOwn, Ended
    <2> QED
      BY <2>1, <2>2 DEF HeldIsOwn, SessionOf, Ended
  <1>4. OneJoins'
    BY Goroutines DEF OneJoins, Joins, Inv, TypeOK, Ended
  <1>5. FewClose'
    BY Goroutines DEF FewClose, Closing, Past, Ended
  <1>6. UnsetIsSealed'
    BY Goroutines DEF UnsetIsSealed, Sealing, NoneWaits, Past, Closing, SessionOf, Started, Ended
  <1>7. LaterChannels'
    <2>1. \A ch \in Chan : tokens'[ch] <= tokens[ch] /\ tokens'[ch] \in Nat /\ tokens[ch] \in Nat
      BY DEF Ended, Inv, TypeOK, Capacity
    <2>2. \A s \in Conns : pc'[RecvOf(s)] \in {"push1", "push2"} => pc[RecvOf(s)] = pc'[RecvOf(s)]
      BY Goroutines DEF Ended
    <2> QED
      BY <2>1, <2>2, Goroutines DEF LaterChannels, Ended
  <1>8. Tally'
    <2> SUFFICES ASSUME NEW s \in Conns, connected[s], NEW n \in Int, Balance(s, n)
                 PROVE  Balance(s, n)'
      BY Goroutines DEF Tally, Joins, Put, Ended
    <2>1. CASE p[1] = s
      <3>1. p = RecvOf(s) \/ p = SendOf(s)
        BY <2>1, Goroutines DEF OwnWhileConnected, Ended
      <3>2. OwnChan(s) \notin sealed
        BY Goroutines DEF Inv, SealedIsUnset
      <3>3. chClose[s] = OwnChan(s) /\ (heldChan[p] = Nil \/ heldChan[p] = OwnChan(s))
        BY <1>0, <2>1, <3>1, Sessions, Goroutines DEF OwnWhileConnected, HeldIsOwn
      <3>4. tokens[OwnChan(s)] \in Nat /\ tokens' = [tokens EXCEPT ![OwnChan(s)] = @ - 1]
        BY <2>1, <3>2, <3>3, Goroutines DEF Ended, Inv, TypeOK, Capacity
      <3>5. RecvOf(s) # SendOf(s) /\ pc[p] # "end" /\ pc[p] # "push2" /\ pc[p] \notin Past
        BY Goroutines DEF Ended, Past
      <3>6. tokens'[OwnChan(s)] = tokens[OwnChan(s)] - 1
        BY <3>4, Goroutines DEF Inv, TypeOK
      <3>7. CASE p = RecvOf(s)
        <4>1. pc'[SendOf(s)] = pc[SendOf(s)]
          BY <3>5, <3>7, Goroutines DEF Ended
        <4> QED
          BY <3>4, <3>5, <3>6, <3>7, <4>1 DEF Balance, Put, Taken, Past, Ended
      <3>8. CASE p = SendOf(s)
        <4>1. pc'[RecvOf(s)] = pc[RecvOf(s)]
          BY <3>5, <3>8, Goroutines DEF Ended
        <4> QED
          BY <3>4, <3>5, <3>6, <3>8, <4>1 DEF Balance, Put, Taken, Past, Ended
      <3> QED
        BY <3>1, <3>7, <3>8
    <2>2. CASE p[1] # s
      <3>1. pc'[RecvOf(s)] = pc[RecvOf(s)] /\ pc'[SendOf(s)] = pc[SendOf(s)]
        BY <2>2, Goroutines DEF Ended
      <3>2. tokens'[OwnChan(s)] = tokens[OwnChan(s)]
        BY <1>0, <2>2, Goroutines DEF Ended, Inv, TypeOK, OwnChannels, Started
      <3> QED
        BY <3>1, <3>2 DEF Balance, Put, Taken
    <2> QED
      BY <2>1, <2>2
  <1> QED
    BY <1>1, <1>2, <1>3, <1>4, <1>5, <1>6, <1>7, <1>8

\* A handler in Close goes on in it, or leaves it when the session is not connected.
LEMMA NeverItselfKept ==
    ASSUME Inv, NeverItself, Fixed, NEW p \in Proc, Others(p), pc[p] \in Closing,
           p \in Handler =>
             \/ pc'[p] \in Closing \cup {"end"}
             \/ pc'[p] = "swapConn" /\ ~connected[SessionOf(p)]
    PROVE  NeverItself'
  <1>0. /\ registered # Nil => registered \in Conns
        /\ \A c \in Conns : ServeOf(c) \in Handler /\ ServeOf(c) \in Proc
    BY Goroutines DEF Inv, TypeOK
  <1>1. registered # Nil => pc'[ServeOf(registered)] = "end"
    BY <1>0 DEF NeverItself, Others, Closing
  <1>2. ASSUME NEW c \in Conns, ServeOf(c) # p
        PROVE  /\ joining[c] # Nil =>
                    pc'[ServeOf(c)] \in Closing \cup {"swapConn", "swapChan", "end"}
               /\ pc'[ServeOf(c)] \in {"swapConn", "swapChan"} => ~connected[joining[c]]
    BY <1>0, <1>2 DEF NeverItself, Others
  <1>3. ASSUME NEW c \in Conns, ServeOf(c) = p
        PROVE  /\ pc'[p] \in Closing \cup {"swapConn", "swapChan", "end"}
               /\ pc'[p] \in {"swapConn", "swapChan"} => ~connected[joining[c]]
    BY <1>0, <1>3, Sessions DEF Closing
  <1>4. \A c \in Conns : joining[c] # c
    BY DEF NeverItself
  <1> QED
    BY <1>1, <1>2, <1>3, <1>4 DEF NeverItself, Fixed

\* Close's check.
Checked(p) ==
    /\ p \in Proc /\ Others(p) /\ Fixed /\ UNCHANGED <<chans, held>>
    /\ pc[p] = "check"
    /\ IF connected[SessionOf(p)]
         THEN pc'[p] = "push1"
         ELSE pc'[p] = IF p \in Handler THEN "swapConn" ELSE "end"

\* Past the check come only the first recv and one handler, and from a handler's
\* return on the session is not connected.
LEMMA CheckedRests ==
    ASSUME Inv, WatchInv, Fields, Orderly, NEW p, Checked(p)
    PROVE  (Fields /\ Orderly)'
  <1> USE DEF Fields, Orderly, Fixed, Others, Checked, chans, held
  <1>0. /\ SessionOf(p) \in Conns /\ Started(SessionOf(p)) /\ p \in Proc
        /\ \A q \in Proc : SessionOf(q)' = SessionOf(q)
    BY Closer DEF Inv, Closing, SessionOf
  <1>1. NeverItself'
    BY <1>0, NeverItselfKept DEF Closing
  <1>2. OwnWhileConnected'
    BY Goroutines DEF OwnWhileConnected
  <1>3. HeldIsOwn'
    BY Goroutines DEF HeldIsOwn, SessionOf
  <1>4. OneJoins'
    BY Goroutines DEF OneJoins, Joins
  <1>a. p \in Loop /\ pc'[p] \in Past => p = RecvOf(p[1])
    BY Goroutines, Sessions DEF FewClose, OwnWhileConnected, Closing, Past
  <1>5. FewClose'
    BY <1>0, <1>a, Goroutines, Sessions DEF FewClose, OwnWhileConnected, Closing, Past
  <1>6. UnsetIsSealed'
    BY <1>0, Goroutines DEF UnsetIsSealed, Sealing, NoneWaits, Past, Started
  <1>7. LaterChannels'
    BY Goroutines, Sessions DEF LaterChannels
  <1>8. Tally'
    BY <1>0, Goroutines, Sessions DEF Tally, Joins, Balance, Put, Taken
  <1> QED
    BY <1>1, <1>2, <1>3, <1>4, <1>5, <1>6, <1>7, <1>8

\* Close puts a value into the channel.
Pushed(p) ==
    /\ p \in Proc /\ Others(p) /\ Fixed /\ UNCHANGED sealed
    /\ pc[p] \in {"push1", "push2"}
    /\ pc'[p] = IF pc[p] = "push1" THEN "push2" ELSE "shut"
    /\ tokens' = [tokens EXCEPT ![PushTarget(p)] = @ + 1]
    /\ heldChan'[p] = Nil /\ heldConn'[p] = heldConn[p]

\* Of a connected session it is its own channel, of another one it may be a later one.
LEMMA Targets ==
    ASSUME Inv, Fields, Orderly, NEW p \in Proc, pc[p] \in {"push1", "push2"}
    PROVE  /\ PushTarget(p) \in Chan /\ PushTarget(p)[1] = SessionOf(p)
           /\ p = RecvOf(SessionOf(p)) \/ \E c \in Conns : p = ServeOf(c) /\ Joins(c, SessionOf(p))
           /\ connected[SessionOf(p)] \/ p \in Handler => PushTarget(p) = OwnChan(SessionOf(p))
  <1>0. /\ SessionOf(p) \in Conns
        /\ PushTarget(p) \in Chan /\ PushTarget(p)[1] = SessionOf(p)
    BY Closer DEF Closing, Inv
  <1>1. p = RecvOf(SessionOf(p)) \/ \E c \in Conns : p = ServeOf(c) /\ Joins(c, SessionOf(p))
    BY Goroutines, Sessions DEF Orderly, FewClose, Past, Joins
  <1>2. connected[SessionOf(p)] \/ p \in Handler =>
          chClose[SessionOf(p)] = OwnChan(SessionOf(p))
    BY <1>0, Goroutines, Sessions
    DEF Fields, OwnWhileConnected, Orderly, FewClose, Past
  <1>3. connected[SessionOf(p)] \/ p \in Handler => PushTarget(p) = OwnChan(SessionOf(p))
    BY <1>0, <1>2 DEF PushTarget, Fields, HeldIsOwn
  <1> QED
    BY <1>0, <1>1, <1>3

\* The value that is put in is the one the Tally then counts, and in a later
\* channel it is recv's own.
LEMMA PushedRests ==
    ASSUME Inv, WatchInv, Fields, Orderly, NEW p, Pushed(p)
    PROVE  (Fields /\ Orderly)'
  <1> USE DEF Fixed, Others
  <1>0. /\ p \in Proc /\ SessionOf(p) \in Conns
        /\ PushTarget(p) \in Chan /\ PushTarget(p)[1] = SessionOf(p)
        /\ p = RecvOf(SessionOf(p)) \/ \E c \in Conns : p = ServeOf(c) /\ Joins(c, SessionOf(p))
        /\ connected[SessionOf(p)] \/ p \in Handler => PushTarget(p) = OwnChan(SessionOf(p))
        /\ \A q \in Proc : SessionOf(q)' = SessionOf(q)
    BY Closer, Targets DEF Inv, Closing, Pushed, SessionOf
  <1> USE DEF Fields, Orderly
  <1>1. NeverItself'
    BY <1>0, NeverItselfKept DEF Closing, Pushed
  <1>2. OwnWhileConnected'
    BY Goroutines DEF OwnWhileConnected, Pushed
  <1>3. HeldIsOwn'
    BY Goroutines DEF HeldIsOwn, SessionOf, Pushed
  <1>4. OneJoins'
    BY Goroutines DEF OneJoins, Joins, Pushed
  <1>5. FewClose'
    BY Goroutines, Sessions DEF FewClose, Closing, Past, Pushed
  <1>6. UnsetIsSealed'
    BY <1>0, Goroutines DEF UnsetIsSealed, Sealing, NoneWaits, Past, Started, Pushed
  <1>7. LaterChannels'
    <2> SUFFICES ASSUME NEW ch \in Chan, ch[2] # ch[1]
                 PROVE  /\ connected[ch[1]] \/ pc'[RecvOf(ch[1])] = "push1" => tokens'[ch] = 0
                        /\ pc'[RecvOf(ch[1])] = "push2" => tokens'[ch] <= 1
      BY DEF LaterChannels, Pushed
    <2>1. CASE PushTarget(p) = ch
      <3>1. p = RecvOf(ch[1]) /\ ~connected[ch[1]]
        BY <1>0, <2>1, Goroutines
      <3>2. tokens'[ch] = tokens[ch] + 1
        BY <2>1 DEF Pushed, Inv, TypeOK
      <3> QED
        BY <1>0, <3>1, <3>2 DEF LaterChannels, Pushed
    <2>2. CASE PushTarget(p) # ch
      <3>1. tokens'[ch] = tokens[ch]
        BY <2>2 DEF Pushed, Inv, TypeOK
      <3> QED
        BY <1>0, <2>2, <3>1, Goroutines DEF LaterChannels, Pushed
    <2> QED
      BY <2>1, <2>2
  <1>8. Tally'
    <2> SUFFICES ASSUME NEW s \in Conns, connected[s]
                 PROVE  /\ \A c \in Conns : Joins(c, s) => Balance(s, Put(ServeOf(c)))'
                        /\ (\A c \in Conns : ~Joins(c, s)) => Balance(s, 0)'
      BY Goroutines DEF Tally, Joins, Pushed
    <2>1. CASE SessionOf(p) = s
      <3>1. tokens'[OwnChan(s)] = tokens[OwnChan(s)] + 1 /\ tokens[OwnChan(s)] \in Nat
        BY <1>0, <2>1 DEF Pushed, Inv, TypeOK, Capacity
      <3>2. CASE p = RecvOf(s)
        BY <1>0, <2>1, <3>1, <3>2, Goroutines DEF Tally, Joins, Balance, Put, Taken, Pushed
      <3>3. ASSUME NEW c \in Conns, p = ServeOf(c), Joins(c, s)
            PROVE  /\ \A d \in Conns : Joins(d, s) => Balance(s, Put(ServeOf(d)))'
                   /\ (\A d \in Conns : ~Joins(d, s)) => Balance(s, 0)'
        <4>1. \A d \in Conns : Joins(d, s) => d = c
          BY <3>3, NilAssumption DEF OneJoins, Joins
        <4>2. pc'[RecvOf(s)] = pc[RecvOf(s)] /\ pc'[SendOf(s)] = pc[SendOf(s)]
          BY <3>3, Goroutines DEF Pushed
        <4>3. Balance(s, Put(ServeOf(c)))'
          BY <1>0, <3>1, <3>3, <4>2, Goroutines DEF Tally, Balance, Put, Taken, Pushed
        <4> QED
          BY <3>3, <4>1, <4>3
      <3> QED
        BY <1>0, <2>1, <3>2, <3>3
    <2>2. CASE SessionOf(p) # s
      <3>1. /\ tokens'[OwnChan(s)] = tokens[OwnChan(s)]
            /\ pc'[RecvOf(s)] = pc[RecvOf(s)] /\ pc'[SendOf(s)] = pc[SendOf(s)]
            /\ \A c \in Conns : Joins(c, s) => pc'[ServeOf(c)] = pc[ServeOf(c)]
        BY <1>0, <2>2, Goroutines, Sessions DEF Pushed, Inv, TypeOK, Joins
      <3> QED
        BY <3>1 DEF Tally, Balance, Put, Taken
    <2> QED
      BY <2>1, <2>2
  <1> QED
    BY <1>1, <1>2, <1>3, <1>4, <1>5, <1>6, <1>7, <1>8

\* Close waits for room in the channel, or has closed the connection.
Paused(p) ==
    /\ p \in Proc /\ Others(p) /\ Fixed /\ UNCHANGED chans
    /\ heldConn'[p] = heldConn[p]
    /\ \/ /\ pc[p] \in {"push1", "push2"} /\ pc'[p] = pc[p]
          /\ heldChan'[p] = PushTarget(p)
       \/ /\ pc[p] = "shut" /\ pc'[p] = "unset"
          /\ heldChan'[p] = heldChan[p]

\* Waiting for room, a goroutine holds the channel that its session has now.
LEMMA PausedRests ==
    ASSUME Inv, WatchInv, Fields, Orderly, NEW p, Paused(p)
    PROVE  (Fields /\ Orderly)'
  <1> USE DEF Fixed, Others, chans
  <1>0. /\ p \in Proc /\ SessionOf(p) \in Conns
        /\ PushTarget(p) = heldChan[p] \/ PushTarget(p) = chClose[SessionOf(p)]
        /\ \A q \in Proc : SessionOf(q)' = SessionOf(q)
    BY Closer DEF Inv, Closing, Paused, SessionOf, PushTarget
  <1> USE DEF Fields, Orderly
  <1>1. NeverItself'
    BY <1>0, NeverItselfKept DEF Closing, Paused
  <1>2. OwnWhileConnected'
    BY Goroutines DEF OwnWhileConnected, Paused
  <1>3. HeldIsOwn'
    <2>1. \A q \in Loop :
            /\ pc'[q] = "none" => heldConn'[q] = Nil /\ heldChan'[q] = Nil
            /\ pc'[q] = "read" => heldConn'[q] # Nil
            /\ pc'[q] = "select" => heldChan'[q] # Nil
            /\ connection[q[1]] = q[1] => heldConn'[q] \in {Nil, q[1]}
      BY <1>0, Goroutines DEF HeldIsOwn, Paused
    <2>2. \A q \in Proc : \A s \in Conns :
            SessionOf(q) = s /\ chClose[s] = OwnChan(s) => heldChan'[q] \in {Nil, OwnChan(s)}
      BY <1>0 DEF HeldIsOwn, Paused
    <2> QED
      BY <2>1, <2>2 DEF HeldIsOwn, SessionOf, Paused
  <1>4. OneJoins'
    BY Goroutines DEF OneJoins, Joins, Paused
  <1>5. FewClose'
    BY Goroutines, Sessions DEF FewClose, Closing, Past, Paused
  <1>6. UnsetIsSealed'
    BY <1>0, Goroutines DEF UnsetIsSealed, Sealing, NoneWaits, Past, Started, Paused
  <1>7. LaterChannels'
    BY Goroutines DEF LaterChannels, Paused
  <1>8. Tally'
    BY <1>0, Goroutines, Sessions DEF Tally, Joins, Balance, Put, Taken, Paused
  <1> QED
    BY <1>1, <1>2, <1>3, <1>4, <1>5, <1>6, <1>7, <1>8

\* Close panics on a channel that is closed.
Panicked(p) ==
    /\ p \in Proc /\ Others(p) /\ Fixed /\ UNCHANGED chans
    /\ \/ pc[p] \in {"push1", "push2"} /\ PushTarget(p) \in sealed
       \/ pc[p] = "seal" /\ chClose[SessionOf(p)] \in sealed
    /\ pc'[p] = IF p \in Handler THEN "end" ELSE "check"
    /\ heldChan'[p] = Nil /\ heldConn'[p] = Nil

\* A panic lets go of a session that is no longer connected.
LEMMA PanickedRests ==
    ASSUME Inv, WatchInv, Fields, Orderly, NEW p, Panicked(p)
    PROVE  (Fields /\ Orderly)'
  <1> USE DEF Fixed, Others, chans
  <1>0. /\ p \in Proc /\ SessionOf(p) \in Conns /\ ~connected[SessionOf(p)]
        /\ \A q \in Proc : SessionOf(q)' = SessionOf(q)
    BY Closer DEF Inv, Closing, Panicked, SessionOf, SealedIsUnset
  <1> USE DEF Fields, Orderly
  <1>1. NeverItself'
    BY <1>0, NeverItselfKept DEF Closing, Panicked
  <1>2. OwnWhileConnected'
    BY Goroutines DEF OwnWhileConnected, Panicked
  <1>3. HeldIsOwn'
    BY <1>0, Goroutines DEF HeldIsOwn, Panicked
  <1>4. OneJoins'
    BY Goroutines DEF OneJoins, Joins, Panicked
  <1>5. FewClose'
    BY Goroutines, Sessions DEF FewClose, Closing, Past, Panicked
  <1>6. UnsetIsSealed'
    BY <1>0, Goroutines DEF UnsetIsSealed, Sealing, NoneWaits, Past, Started, Panicked
  <1>7. LaterChannels'
    BY Goroutines DEF LaterChannels, Panicked
  <1>8. Tally'
    BY <1>0, Goroutines, Sessions DEF Tally, Joins, Balance, Put, Taken, Panicked
  <1> QED
    BY <1>1, <1>2, <1>3, <1>4, <1>5, <1>6, <1>7, <1>8

\* Close resets Connected.
Unset(p) ==
    /\ p \in Proc /\ Others(p)
    /\ UNCHANGED <<connection, chClose, registered, joining, chans, held>>
    /\ pc[p] = "unset" /\ pc'[p] = "seal"
    /\ connected' = [connected EXCEPT ![SessionOf(p)] = FALSE]

\* Who resets Connected is about to close the session's first channel, or was the
\* only one who was still waiting for it.
LEMMA UnsetRests ==
    ASSUME Inv, WatchInv, Fields, Orderly, NEW p, Unset(p)
    PROVE  (Fields /\ Orderly)'
  <1> USE DEF Others, Unset, chans, held
  <1>0. /\ p \in Proc /\ SessionOf(p) \in Conns
        /\ \A q \in Proc : SessionOf(q)' = SessionOf(q)
        /\ ~connected'[SessionOf(p)]
        /\ \A s \in Conns : s # SessionOf(p) => connected'[s] = connected[s]
        /\ \A s \in Conns : connected'[s] => connected[s] /\ s # SessionOf(p)
    BY Closer DEF Inv, TypeOK, Closing, SessionOf
  <1> USE DEF Fields, Orderly
  <1>1. NeverItself'
    <2>1. registered # Nil => registered \in Conns
      BY DEF Inv, TypeOK
    <2>2. \A c \in Conns : ServeOf(c) \in Handler /\ ServeOf(c) \in Proc /\ ServeOf(c)[1] = c
      BY Goroutines
    <2>3. \A c \in Conns : pc[ServeOf(c)] \in {"swapConn", "swapChan"} => joining[c] \in Conns
      BY <2>2 DEF Inv, WorkIsStarted
    <2> QED
      BY <1>0, <2>1, <2>2, <2>3 DEF NeverItself, Closing
  <1>2. OwnWhileConnected'
    BY <1>0, Goroutines DEF OwnWhileConnected
  <1>3. HeldIsOwn'
    BY <1>0, Goroutines DEF HeldIsOwn
  <1>4. OneJoins'
    BY Goroutines DEF OneJoins, Joins
  <1>5. FewClose'
    BY Goroutines, Sessions DEF FewClose, Closing, Past
  <1>6. UnsetIsSealed'
    <2>1. ASSUME chClose[SessionOf(p)] # OwnChan(SessionOf(p))
          PROVE  NoneWaits(SessionOf(p))'
      <3>1. p \in Loop /\ p = RecvOf(SessionOf(p))
        BY <1>0, <2>1, Goroutines, Sessions DEF FewClose, Past
      <3>2. ASSUME NEW q \in Proc, SessionOf(q) = SessionOf(p), pc[q] \in Past PROVE q = p
        BY <1>0, <2>1, <3>1, <3>2, Goroutines, Sessions DEF FewClose
      <3> QED
        BY <1>0, <3>2 DEF NoneWaits, Past
    <2>2. chClose[SessionOf(p)] = OwnChan(SessionOf(p)) => Sealing(SessionOf(p))'
      BY <1>0 DEF Sealing
    <2>3. ASSUME NEW s \in Conns, s # SessionOf(p)
          PROVE  (Sealing(s) => Sealing(s)') /\ (NoneWaits(s) => NoneWaits(s)')
      BY <1>0, <2>3 DEF Sealing, NoneWaits
    <2> QED
      BY <1>0, <2>1, <2>2, <2>3 DEF UnsetIsSealed, Started
  <1>7. LaterChannels'
    BY <1>0, Goroutines DEF LaterChannels
  <1>8. Tally'
    BY <1>0, Goroutines, Sessions DEF Tally, Joins, Balance, Put, Taken
  <1> QED
    BY <1>1, <1>2, <1>3, <1>4, <1>5, <1>6, <1>7, <1>8

\* Close closes the channel and returns.
Sealed(p) ==
    /\ p \in Proc /\ Others(p) /\ Fixed /\ UNCHANGED <<tokens, held>>
    /\ pc[p] = "seal" /\ pc'[p] = IF p \in Handler THEN "swapConn" ELSE "end"
    /\ sealed' = sealed \cup {chClose[SessionOf(p)]}

\* The first channel is closed, or nobody else is waiting for it.
LEMMA SealedRests ==
    ASSUME Inv, WatchInv, Fields, Orderly, NEW p, Sealed(p)
    PROVE  (Fields /\ Orderly)'
  <1> USE DEF Fixed, Others, Sealed, held
  <1>0. /\ p \in Proc /\ SessionOf(p) \in Conns /\ ~connected[SessionOf(p)]
        /\ \A q \in Proc : SessionOf(q)' = SessionOf(q)
    BY Closer DEF Inv, SealedIsUnset, Closing, SessionOf
  <1> USE DEF Fields, Orderly
  <1>1. NeverItself'
    BY <1>0, NeverItselfKept DEF Closing
  <1>2. OwnWhileConnected'
    BY Goroutines DEF OwnWhileConnected
  <1>3. HeldIsOwn'
    BY <1>0, Goroutines DEF HeldIsOwn
  <1>4. OneJoins'
    BY Goroutines DEF OneJoins, Joins
  <1>5. FewClose'
    BY Goroutines, Sessions DEF FewClose, Closing, Past
  <1>6. UnsetIsSealed'
    <2>1. ASSUME chClose[SessionOf(p)] # OwnChan(SessionOf(p))
          PROVE  NoneWaits(SessionOf(p))'
      <3>1. p \in Loop /\ p = RecvOf(SessionOf(p))
        BY <1>0, <2>1, Goroutines, Sessions DEF FewClose, Past
      <3>2. ASSUME NEW q \in Proc, SessionOf(q) = SessionOf(p), pc[q] \in Past PROVE q = p
        BY <1>0, <2>1, <3>1, <3>2, Goroutines, Sessions DEF FewClose
      <3> QED
        BY <1>0, <3>1, <3>2 DEF NoneWaits, Past
    <2>2. chClose[SessionOf(p)] = OwnChan(SessionOf(p)) => OwnChan(SessionOf(p)) \in sealed'
      BY <1>0
    <2>3. ASSUME NEW s \in Conns, s # SessionOf(p)
          PROVE  (Sealing(s) => Sealing(s)') /\ (NoneWaits(s) => NoneWaits(s)')
      BY <1>0, <2>3 DEF Sealing, NoneWaits
    <2> QED
      BY <1>0, <2>1, <2>2, <2>3 DEF UnsetIsSealed, Started
  <1>7. LaterChannels'
    BY <1>0, Goroutines DEF LaterChannels
  <1>8. Tally'
    BY <1>0, Goroutines, Sessions DEF Tally, Joins, Balance, Put, Taken
  <1> QED
    BY <1>1, <1>2, <1>3, <1>4, <1>5, <1>6, <1>7, <1>8

\* A connection is opened and its session starts.
Opened(c) ==
    /\ c \in Conns /\ pc[ServeOf(c)] = "idle"
    /\ UNCHANGED <<connection, registered, joining, chans, held>>
    /\ connected' = [connected EXCEPT ![c] = TRUE]
    /\ chClose' = [chClose EXCEPT ![c] = OwnChan(c)]
    /\ pc' = [pc EXCEPT ![ServeOf(c)] = "lookup", ![RecvOf(c)] = "top", ![SendOf(c)] = "top"]

\* A session that starts has an empty channel, and nobody works for it yet.
LEMMA OpenedRests ==
    ASSUME Inv, WatchInv, Fields, Orderly, NEW c, Opened(c)
    PROVE  (Fields /\ Orderly)'
  <1> USE DEF Fields, Orderly, chans, held
  <1>0. /\ c \in Conns /\ ~Started(c) /\ connection[c] = c
        /\ \A q \in Proc : SessionOf(q)' = SessionOf(q)
        /\ \A q \in Proc : SessionOf(q) = c => pc[q] \in {"none", "idle", "lookup", "assign", "end"}
        /\ \A d \in Conns : ~Joins(d, c)
        /\ joining[c] = Nil
    <2>1. c \in Conns /\ ~Started(c) /\ connection[c] = c
      BY Goroutines DEF Opened, Inv, WorkIsStarted, WatchInv, FreshSession
    <2>2. \A q \in Proc : SessionOf(q) = c => pc[q] \in {"none", "idle", "lookup", "assign", "end"}
      <3>1. \A q \in Loop : q[1] = c => pc[q] = "none"
        BY <2>1 DEF Inv, WorkIsStarted
      <3>2. \A d \in Conns : joining[d] = c => pc[ServeOf(d)] = "end"
        BY <2>1, NilAssumption, Goroutines DEF Inv, WorkIsStarted, NeverItself
      <3> QED
        BY <3>1, <3>2, Goroutines, Sessions
    <2>3. \A d \in Conns : ~Joins(d, c)
      BY <2>1, NilAssumption, Goroutines DEF Joins, NeverItself, Inv, WorkIsStarted
    <2>4. joining[c] = Nil
      BY <2>1 DEF NeverItself, Opened, Closing
    <2> QED
      BY <2>1, <2>2, <2>3, <2>4 DEF Opened, SessionOf
  <1>a. /\ pc[ServeOf(c)] = "idle" /\ pc[RecvOf(c)] = "none" /\ pc[SendOf(c)] = "none"
        /\ pc'[ServeOf(c)] = "lookup" /\ pc'[RecvOf(c)] = "top" /\ pc'[SendOf(c)] = "top"
        /\ \A q \in Proc : q \notin {ServeOf(c), RecvOf(c), SendOf(c)} => pc'[q] = pc[q]
        /\ connected'[c] /\ chClose'[c] = OwnChan(c)
        /\ \A s \in Conns : s # c => /\ connected'[s] = connected[s] /\ chClose'[s] = chClose[s]
                                     /\ (Started(s)' <=> Started(s))
    <2>1. /\ ServeOf(c) \in Proc /\ RecvOf(c) \in Proc /\ SendOf(c) \in Proc
          /\ ServeOf(c) # RecvOf(c) /\ ServeOf(c) # SendOf(c) /\ RecvOf(c) # SendOf(c)
      BY <1>0, Goroutines
    <2>2. /\ pc \in [Proc -> Place] /\ connected \in [Conns -> BOOLEAN]
          /\ chClose \in [Conns -> Chan \cup {Nil}]
      BY DEF Inv, TypeOK
    <2>3. pc[RecvOf(c)] = "none" /\ pc[SendOf(c)] = "none"
      BY <1>0, Goroutines DEF Inv, WorkIsStarted
    <2>4. /\ pc'[ServeOf(c)] = "lookup" /\ pc'[RecvOf(c)] = "top" /\ pc'[SendOf(c)] = "top"
          /\ \A q \in Proc : q \notin {ServeOf(c), RecvOf(c), SendOf(c)} => pc'[q] = pc[q]
      BY <2>1, <2>2 DEF Opened
    <2> QED
      BY <1>0, <2>2, <2>3, <2>4 DEF Opened, Started
  <1>b. \A q \in Proc : q \notin {RecvOf(c), SendOf(c), ServeOf(c)} => pc'[q] = pc[q]
    BY <1>a
  <1>c. /\ heldChan' = heldChan /\ heldConn' = heldConn /\ tokens' = tokens /\ sealed' = sealed
        /\ connection' = connection /\ registered' = registered /\ joining' = joining
    BY DEF Opened
  <1>1. NeverItself'
    <2>1. registered # Nil => registered \in Conns /\ registered # c
      BY <1>a DEF NeverItself, Inv, TypeOK
    <2>2. registered # Nil => pc'[ServeOf(registered)] = "end"
      BY <1>0, <1>a, <2>1, Goroutines DEF NeverItself
    <2>3. ASSUME NEW d \in Conns
          PROVE  /\ joining[d] # Nil =>
                      pc'[ServeOf(d)] \in Closing \cup {"swapConn", "swapChan", "end"}
                 /\ pc'[ServeOf(d)] \in {"swapConn", "swapChan"} => ~connected'[joining[d]]
      <3>1. CASE d = c
        BY <1>0, <1>a, <3>1
      <3>2. CASE d # c
        <4>1. pc'[ServeOf(d)] = pc[ServeOf(d)]
          BY <1>0, <1>a, <3>2, Goroutines
        <4>2. pc[ServeOf(d)] \in {"swapConn", "swapChan"} => joining[d] \in Conns /\ joining[d] # c
          BY <1>0, Goroutines DEF Inv, WorkIsStarted
        <4> QED
          BY <1>a, <4>1, <4>2 DEF NeverItself
      <3> QED
        BY <3>1, <3>2
    <2> QED
      BY <1>c, <2>2, <2>3 DEF NeverItself
  <1>2. OwnWhileConnected'
    <2>1. \A s \in Conns :
            connected'[s] => /\ chClose'[s] = OwnChan(s) /\ connection[s] = s
                             /\ pc'[RecvOf(s)] \notin {"none", "idle"}
                             /\ pc'[SendOf(s)] \notin {"none", "idle"}
      BY <1>0, <1>a, Goroutines DEF OwnWhileConnected
    <2>2. ASSUME NEW q \in Loop, pc'[q] # "none", q[2] # q[1] PROVE ~connected'[q[1]]
      <3>1. pc'[q] = pc[q] /\ q[1] \in Conns
        BY <1>0, <1>a, <2>2, Goroutines
      <3>2. q[1] # c
        BY <1>0, <2>2, <3>1 DEF Inv, WorkIsStarted
      <3> QED
        BY <1>a, <2>2, <3>1, <3>2 DEF OwnWhileConnected
    <2> QED
      BY <1>c, <2>1, <2>2 DEF OwnWhileConnected
  <1>3. HeldIsOwn'
    <2>1. \A q \in Loop :
            /\ pc'[q] = "none" => heldConn[q] = Nil /\ heldChan[q] = Nil
            /\ pc'[q] = "read" => heldConn[q] # Nil
            /\ pc'[q] = "select" => heldChan[q] # Nil
      BY <1>a, Goroutines DEF HeldIsOwn
    <2>2. ASSUME NEW q \in Proc, SessionOf(q) = c PROVE heldChan[q] = Nil
      <3>1. CASE q \in Loop
        BY <1>0, <2>2, <3>1, Sessions DEF Inv, WorkIsStarted, HeldIsOwn
      <3>2. CASE q \in Handler
        BY <1>0, <2>2, <3>2 DEF Inv, OwnChannels
      <3> QED
        BY <3>1, <3>2, Goroutines
    <2>3. \A q \in Proc : \A s \in Conns :
            SessionOf(q) = s /\ chClose'[s] = OwnChan(s) => heldChan[q] \in {Nil, OwnChan(s)}
      BY <1>a, <2>2 DEF HeldIsOwn
    <2> QED
      BY <1>0, <1>c, <2>1, <2>3 DEF HeldIsOwn
  <1>d. \A d, s \in Conns : Joins(d, s)' <=> Joins(d, s)
    <2>1. \A d \in Conns : d # c => pc'[ServeOf(d)] = pc[ServeOf(d)]
      BY <1>0, <1>a, Goroutines
    <2> QED
      BY <1>0, <1>c, <2>1, NilAssumption DEF Joins
  <1>4. OneJoins'
    BY <1>c, <1>d DEF OneJoins, Inv, TypeOK
  <1>e. \A q \in Proc :
          pc'[q] \in Closing \cup {"echo", "read", "select", "write"} => pc'[q] = pc[q]
    BY <1>a DEF Closing
  <1>5. FewClose'
    <2>1. \A q \in Loop : q \in Proc
      BY Goroutines
    <2>2. ASSUME NEW d \in Conns, pc'[ServeOf(d)] \in Past
          PROVE  chClose'[joining[d]] = OwnChan(joining[d])
      <3>1. pc[ServeOf(d)] \in Past
        BY <1>e, <2>2, Goroutines DEF Closing, Past
      <3>2. joining[d] \in Conns /\ Started(joining[d])
        BY <3>1, Goroutines DEF Inv, WorkIsStarted, Closing, Past
      <3> QED
        BY <1>0, <1>a, <3>1, <3>2 DEF FewClose
    <2>3. \A q \in Loop : pc'[q] \in Past => q = RecvOf(q[1])
      BY <1>e, <2>1 DEF FewClose, Past, Closing
    <2> QED
      BY <1>c, <1>e, <2>1, <2>2, <2>3 DEF FewClose
  <1>6. UnsetIsSealed'
    <2>1. ASSUME NEW s \in Conns, s # c
          PROVE  (Sealing(s) => Sealing(s)') /\ (NoneWaits(s) => NoneWaits(s)')
      <3>1. Sealing(s) => Sealing(s)'
        BY <1>0, <1>a, <2>1 DEF Sealing
      <3>2. NoneWaits(s) => NoneWaits(s)'
        BY <1>0, <1>e DEF NoneWaits, Past, Closing
      <3> QED
        BY <3>1, <3>2
    <2> QED
      BY <1>a, <1>c, <2>1 DEF UnsetIsSealed
  <1>7. LaterChannels'
    <2>1. \A ch \in Chan : ch[1] = c => tokens[ch] = 0
      BY <1>0 DEF WatchInv, FreshSession
    <2>2. \A s \in Conns : RecvOf(s) \in Proc
      BY Goroutines
    <2> QED
      BY <1>a, <1>c, <1>e, <2>1, <2>2, Goroutines DEF LaterChannels, Closing
  <1>8. Tally'
    <2>1. ASSUME NEW s \in Conns, connected'[s]
          PROVE  /\ \A d \in Conns : Joins(d, s)' => Balance(s, Put(ServeOf(d)))'
                 /\ (\A d \in Conns : ~Joins(d, s)') => Balance(s, 0)'
      <3>1. CASE s = c
        <4>1. tokens[OwnChan(c)] = 0
          BY <1>0, Goroutines DEF WatchInv, FreshSession
        <4>2. Balance(c, 0)'
          BY <1>a, <1>c, <4>1 DEF Balance, Taken, Put
        <4> QED
          BY <1>0, <1>d, <3>1, <4>2
      <3>2. CASE s # c
        <4>1. pc'[RecvOf(s)] = pc[RecvOf(s)] /\ pc'[SendOf(s)] = pc[SendOf(s)] /\ connected[s]
          BY <1>0, <1>a, <2>1, <3>2, Goroutines
        <4>2. \A d \in Conns : Joins(d, s) => d # c /\ pc'[ServeOf(d)] = pc[ServeOf(d)]
          BY <1>0, <1>a, NilAssumption, Goroutines DEF Joins
        <4> QED
          BY <1>c, <1>d, <4>1, <4>2 DEF Tally, Balance, Taken, Put
      <3> QED
        BY <3>1, <3>2
    <2> QED
      BY <2>1 DEF Tally
  <1> QED
    BY <1>1, <1>2, <1>3, <1>4, <1>5, <1>6, <1>7, <1>8

\* The handler gives up, or goes on without a session to Join.
WentOn(c) ==
    /\ c \in Conns /\ UNCHANGED <<session, joining, chans, held>>
    /\ \/ /\ pc[ServeOf(c)] = "idle" /\ pc' = [pc EXCEPT ![ServeOf(c)] = "end"]
          /\ UNCHANGED registered
       \/ /\ pc[ServeOf(c)] = "lookup"
          /\ \/ pc' = [pc EXCEPT ![ServeOf(c)] = "assign"]
             \/ pc' = [pc EXCEPT ![ServeOf(c)] = "end"]
          /\ UNCHANGED registered
       \/ /\ pc[ServeOf(c)] = "assign" /\ pc' = [pc EXCEPT ![ServeOf(c)] = "end"]
          /\ registered' = c

\* A handler that Joins nothing changes nothing of this.
LEMMA WentOnRests ==
    ASSUME Inv, WatchInv, Fields, Orderly, NEW c, WentOn(c)
    PROVE  (Fields /\ Orderly)'
  <1> USE DEF Fields, Orderly, chans, held, session
  <1>0. /\ c \in Conns /\ joining[c] = Nil
        /\ \A q \in Proc : SessionOf(q)' = SessionOf(q)
        /\ UNCHANGED <<connected, connection, chClose, joining, tokens, sealed, heldChan, heldConn>>
        /\ pc[ServeOf(c)] \in {"idle", "lookup", "assign"}
        /\ registered' = registered \/ (registered' = c /\ pc'[ServeOf(c)] = "end")
        /\ pc'[ServeOf(c)] \in {"assign", "end"}
        /\ \A q \in Proc : q # ServeOf(c) => pc'[q] = pc[q]
    <2>1. c \in Conns /\ ServeOf(c) \in Proc
      BY Goroutines DEF WentOn
    <2>2. joining[c] = Nil
      BY <2>1 DEF NeverItself, WentOn, Closing
    <2> QED
      BY <2>1, <2>2 DEF WentOn, SessionOf, Inv, TypeOK
  <1>a. \A q \in Proc : pc'[q] = pc[q] \/ (q \in Handler /\ q[1] = c /\ pc'[q] \in {"assign", "end"}
                                          /\ pc[q] \in {"idle", "lookup", "assign"})
    BY <1>0, Goroutines
  <1>d. \A d, s \in Conns : Joins(d, s)' <=> Joins(d, s)
    BY <1>0, NilAssumption, Goroutines DEF Joins
  <1>1. NeverItself'
    <2>1. registered # Nil => registered \in Conns /\ registered # c
      BY <1>0 DEF NeverItself, Inv, TypeOK
    <2>2. registered' # Nil => pc'[ServeOf(registered')] = "end"
      BY <1>0, <2>1, Goroutines DEF NeverItself
    <2>3. \A d \in Conns : d # c => pc'[ServeOf(d)] = pc[ServeOf(d)]
      BY <1>0, Goroutines
    <2> QED
      BY <1>0, <2>2, <2>3 DEF NeverItself
  <1>2. OwnWhileConnected'
    BY <1>0, <1>a, Goroutines DEF OwnWhileConnected
  <1>3. HeldIsOwn'
    BY <1>0, <1>a, Goroutines DEF HeldIsOwn
  <1>4. OneJoins'
    BY <1>0, <1>d DEF OneJoins, Inv, TypeOK
  <1>5. FewClose'
    BY <1>0, <1>a, Goroutines DEF FewClose, Closing, Past
  <1>6. UnsetIsSealed'
    BY <1>0, <1>a, Goroutines DEF UnsetIsSealed, Sealing, NoneWaits, Past, Started
  <1>7. LaterChannels'
    BY <1>0, <1>a, Goroutines DEF LaterChannels
  <1>8. Tally'
    <2>1. \A s \in Conns : pc'[RecvOf(s)] = pc[RecvOf(s)] /\ pc'[SendOf(s)] = pc[SendOf(s)]
      BY <1>0, Goroutines
    <2>2. \A d, s \in Conns : Joins(d, s) => pc'[ServeOf(d)] = pc[ServeOf(d)]
      BY <1>0, NilAssumption, Goroutines DEF Joins
    <2> QED
      BY <1>0, <1>d, <2>1, <2>2 DEF Tally, Balance, Taken, Put
  <1> QED
    BY <1>1, <1>2, <1>3, <1>4, <1>5, <1>6, <1>7, <1>8

\* The handler asks the user's session to Join, which nobody else does.
LookedUp(c) ==
    /\ c \in Conns /\ UNCHANGED <<session, registered, chans, held>>
    /\ pc[ServeOf(c)] = "lookup" /\ pc' = [pc EXCEPT ![ServeOf(c)] = "check"]
    /\ registered # Nil
    /\ joining' = [joining EXCEPT ![c] = registered]
    /\ \A d \in Conns \ {c} : ~Joins(d, registered)

\* The handler that comes to a session's Join is the only one there.
LEMMA LookedUpRests ==
    ASSUME Inv, WatchInv, Fields, Orderly, NEW c, LookedUp(c)
    PROVE  (Fields /\ Orderly)'
  <1> USE DEF Fields, Orderly, chans, held, session
  <1>r. PICK s : s = registered
    OBVIOUS
  <1>0. /\ c \in Conns /\ joining[c] = Nil /\ joining'[c] = s
        /\ s \in Conns /\ s # c /\ s # Nil
        /\ UNCHANGED <<connected, connection, chClose, registered>>
        /\ UNCHANGED <<tokens, sealed, heldChan, heldConn>>
        /\ pc[ServeOf(c)] = "lookup" /\ pc'[ServeOf(c)] = "check"
        /\ \A q \in Proc : q # ServeOf(c) => pc'[q] = pc[q]
        /\ \A d \in Conns : d # c => joining'[d] = joining[d]
        /\ \A d \in Conns : d # c => ~Joins(d, s)
    <2>1. c \in Conns /\ ServeOf(c) \in Proc
      BY Goroutines DEF LookedUp
    <2>2. joining[c] = Nil
      BY <2>1 DEF NeverItself, LookedUp, Closing
    <2>3. s \in Conns /\ s # c
      BY <1>r, <2>1 DEF NeverItself, LookedUp, Inv, TypeOK
    <2> QED
      BY <1>r, <2>1, <2>2, <2>3 DEF LookedUp, Inv, TypeOK
  <1>s. /\ \A q \in Proc : q # ServeOf(c) => SessionOf(q)' = SessionOf(q)
        /\ SessionOf(ServeOf(c))' = s
        /\ ServeOf(c) \in Proc /\ ServeOf(c) \in Handler
        /\ \A d \in Conns : d # c => ServeOf(d) # ServeOf(c) /\ pc'[ServeOf(d)] = pc[ServeOf(d)]
        /\ \A q \in Loop : q # ServeOf(c) /\ q \in Proc
    BY <1>0, Goroutines DEF SessionOf
  <1>1. NeverItself'
    <2>1. registered' = s
      BY <1>0, <1>r
    <2>2. pc'[ServeOf(s)] = "end"
      BY <1>0, <1>r, <1>s DEF NeverItself
    <2> QED
      BY <1>0, <1>s, <2>1, <2>2 DEF NeverItself, Closing
  <1>2. OwnWhileConnected'
    BY <1>0, <1>s, Goroutines DEF OwnWhileConnected
  <1>3. HeldIsOwn'
    <2>1. heldChan[ServeOf(c)] = Nil
      BY <1>0, <1>s DEF Inv, OwnChannels
    <2> QED
      BY <1>0, <1>s, <2>1 DEF HeldIsOwn
  <1>d. /\ \A d, x \in Conns : d # c => (Joins(d, x)' <=> Joins(d, x))
        /\ \A x \in Conns : Joins(c, x)' <=> x = s
        /\ \A x \in Conns : ~Joins(c, x)
    BY <1>0, <1>s, NilAssumption DEF Joins
  <1>4. OneJoins'
    <2>1. ASSUME NEW d \in Conns, NEW e \in Conns, joining'[d] # Nil,
                 Joins(d, joining[d])', Joins(e, joining[d])'
          PROVE  d = e
      <3>1. joining'[d] \in Conns
        BY <1>0, <2>1 DEF Inv, TypeOK
      <3>2. CASE joining'[d] = s
        BY <1>0, <1>d, <2>1, <3>2
      <3>3. CASE joining'[d] # s
        BY <1>0, <1>d, <2>1, <3>1, <3>3 DEF OneJoins
      <3> QED
        BY <3>2, <3>3
    <2> QED
      BY <2>1 DEF OneJoins
  <1>5. FewClose'
    BY <1>0, <1>s DEF FewClose, Past
  <1>6. UnsetIsSealed'
    <2>1. ASSUME NEW x \in Conns
          PROVE  (Sealing(x) => Sealing(x)') /\ (NoneWaits(x) => NoneWaits(x)')
      BY <1>0, <1>s DEF Sealing, NoneWaits, Past
    <2> QED
      BY <1>0, <2>1 DEF UnsetIsSealed, Started
  <1>7. LaterChannels'
    <2>1. \A ch \in Chan : pc'[RecvOf(ch[1])] = pc[RecvOf(ch[1])]
      BY <1>0, <1>s, Goroutines
    <2> QED
      BY <1>0, <2>1 DEF LaterChannels
  <1>8. Tally'
    <2>1. \A x \in Conns : pc'[RecvOf(x)] = pc[RecvOf(x)] /\ pc'[SendOf(x)] = pc[SendOf(x)]
      BY <1>0, <1>s, Goroutines
    <2>2. ASSUME NEW x \in Conns, connected'[x]
          PROVE  /\ \A d \in Conns : Joins(d, x)' => Balance(x, Put(ServeOf(d)))'
                 /\ (\A d \in Conns : ~Joins(d, x)') => Balance(x, 0)'
      <3>1. CASE x = s
        <4>1. Balance(s, 0)
          BY <1>0, <1>d, <2>2, <3>1 DEF Tally
        <4>2. Balance(s, 0)'
          BY <1>0, <2>1, <4>1 DEF Balance, Taken, Put
        <4>3. \A d \in Conns : Joins(d, s)' => d = c
          BY <1>0, <1>d
        <4>4. Put(ServeOf(c))' = 0
          BY <1>0 DEF Put
        <4> QED
          BY <3>1, <4>2, <4>3, <4>4
      <3>2. CASE x # s
        BY <1>0, <1>d, <1>s, <2>1, <2>2, <3>2 DEF Tally, Balance, Taken, Put
      <3> QED
        BY <3>1, <3>2
    <2> QED
      BY <2>2 DEF Tally
  <1> QED
    BY <1>1, <1>2, <1>3, <1>4, <1>5, <1>6, <1>7, <1>8

\* Join replaces the connection of its session.
JoinedConn(c) ==
    /\ c \in Conns /\ UNCHANGED <<connected, chClose, registered, joining, chans, held>>
    /\ pc[ServeOf(c)] = "swapConn" /\ pc' = [pc EXCEPT ![ServeOf(c)] = "swapChan"]
    /\ connection' = [connection EXCEPT ![joining[c]] = c]

\* The connection is replaced in a session that is not connected.
LEMMA JoinedConnRests ==
    ASSUME Inv, WatchInv, Fields, Orderly, NEW c, JoinedConn(c)
    PROVE  (Fields /\ Orderly)'
  <1> USE DEF Fields, Orderly, chans, held
  <1>r. PICK s : s = joining[c]
    OBVIOUS
  <1>0. /\ c \in Conns /\ s \in Conns /\ s # c /\ ~connected[s]
        /\ UNCHANGED <<connected, chClose, registered, joining, tokens, sealed, heldChan, heldConn>>
        /\ pc[ServeOf(c)] = "swapConn" /\ pc'[ServeOf(c)] = "swapChan"
        /\ \A q \in Proc : q # ServeOf(c) => pc'[q] = pc[q]
        /\ \A q \in Proc : SessionOf(q)' = SessionOf(q)
        /\ connection'[s] = c
        /\ \A x \in Conns : x # s => connection'[x] = connection[x]
    <2>1. c \in Conns /\ ServeOf(c) \in Proc /\ ServeOf(c) \in Handler /\ ServeOf(c)[1] = c
      BY Goroutines DEF JoinedConn
    <2>2. s \in Conns
      BY <1>r, <2>1 DEF JoinedConn, Inv, WorkIsStarted
    <2>3. s # c /\ ~connected[s]
      BY <1>r, <2>1 DEF NeverItself, JoinedConn
    <2> QED
      BY <1>r, <2>1, <2>2, <2>3 DEF JoinedConn, Inv, TypeOK, SessionOf
  <1>s. /\ ServeOf(c) \in Proc /\ ServeOf(c) \in Handler
        /\ \A d \in Conns : d # c => ServeOf(d) # ServeOf(c) /\ pc'[ServeOf(d)] = pc[ServeOf(d)]
        /\ \A q \in Loop : q # ServeOf(c) /\ q \in Proc
    BY <1>0, Goroutines
  <1>d. \A d, x \in Conns : Joins(d, x)' <=> Joins(d, x)
    BY <1>0, <1>s DEF Joins
  <1>1. NeverItself'
    <2>1. registered # Nil => registered \in Conns /\ registered # c
      BY <1>0 DEF NeverItself, Inv, TypeOK
    <2>2. registered # Nil => pc'[ServeOf(registered)] = "end"
      BY <1>s, <2>1 DEF NeverItself
    <2> QED
      BY <1>0, <1>r, <1>s, <2>2 DEF NeverItself
  <1>2. OwnWhileConnected'
    BY <1>0, <1>s, Goroutines DEF OwnWhileConnected
  <1>3. HeldIsOwn'
    BY <1>0, <1>s, Goroutines DEF HeldIsOwn
  <1>4. OneJoins'
    BY <1>0, <1>d DEF OneJoins, Inv, TypeOK
  <1>5. FewClose'
    BY <1>0, <1>s DEF FewClose, Past, Closing
  <1>6. UnsetIsSealed'
    BY <1>0, <1>s DEF UnsetIsSealed, Sealing, NoneWaits, Past, Started
  <1>7. LaterChannels'
    <2>1. \A ch \in Chan : pc'[RecvOf(ch[1])] = pc[RecvOf(ch[1])]
      BY <1>0, <1>s, Goroutines
    <2> QED
      BY <1>0, <2>1 DEF LaterChannels
  <1>8. Tally'
    <2>1. \A x \in Conns : pc'[RecvOf(x)] = pc[RecvOf(x)] /\ pc'[SendOf(x)] = pc[SendOf(x)]
      BY <1>0, <1>s, Goroutines
    <2>2. ASSUME NEW x \in Conns, connected'[x]
          PROVE  /\ \A d \in Conns : Joins(d, x)' => Balance(x, Put(ServeOf(d)))'
                 /\ (\A d \in Conns : ~Joins(d, x)') => Balance(x, 0)'
      <3>1. \A d \in Conns : Joins(d, x) => d # c
        BY <1>0, <1>r, <2>2 DEF Joins
      <3> QED
        BY <1>0, <1>d, <1>s, <2>1, <2>2, <3>1 DEF Tally, Balance, Taken, Put
    <2> QED
      BY <2>2 DEF Tally
  <1> QED
    BY <1>1, <1>2, <1>3, <1>4, <1>5, <1>6, <1>7, <1>8

\* Join makes the session a new channel and two more loops.
JoinedLoops(c, s) ==
    /\ c \in Conns /\ s \in Conns /\ s = joining[c]
    /\ UNCHANGED <<connected, connection, registered, chans, held>>
    /\ pc[ServeOf(c)] = "swapChan"
    /\ chClose' = [chClose EXCEPT ![s] = <<s, c>>]
    /\ pc' = [pc EXCEPT ![ServeOf(c)] = "end",
                        ![<<s, c, "recv">>] = "top", ![<<s, c, "send">>] = "top"]
    /\ joining' = [joining EXCEPT ![c] = Nil]

\* The channel is replaced while nobody but recv can be waiting for the old one.
LEMMA JoinedLoopsRests ==
    ASSUME Inv, WatchInv, Fields, Orderly, NEW c, NEW s, JoinedLoops(c, s)
    PROVE  (Fields /\ Orderly)'
  <1> USE DEF Fields, Orderly, chans, held
  <1>n. PICK r, t \in Loop, ch \in Chan :
          /\ r = <<s, c, "recv">> /\ r[1] = s /\ r[2] = c /\ r[3] = "recv"
          /\ t = <<s, c, "send">> /\ t[1] = s /\ t[2] = c /\ t[3] = "send"
          /\ ch = <<s, c>> /\ ch[1] = s /\ ch[2] = c /\ ch # Nil
    <2>1. c \in Conns /\ s \in Conns
      BY DEF JoinedLoops
    <2>2. <<s, c, "recv">> \in Loop /\ <<s, c, "send">> \in Loop /\ <<s, c>> \in Chan
      BY <2>1 DEF Loop, Chan
    <2>3. <<s, c>> # Nil
      BY <2>2, Goroutines
    <2> QED
      BY <2>2, <2>3
  <1>0. /\ c \in Conns /\ s \in Conns /\ s # c /\ ~connected[s] /\ joining[c] = s /\ Started(s)
        /\ UNCHANGED <<connected, connection, registered, tokens, sealed, heldChan, heldConn>>
        /\ pc[ServeOf(c)] = "swapChan" /\ pc'[ServeOf(c)] = "end"
        /\ pc'[r] = "top" /\ pc'[t] = "top"
        /\ \A q \in Proc : q \notin {ServeOf(c), r, t} => pc'[q] = pc[q]
        /\ chClose'[s] = ch
        /\ \A x \in Conns : x # s => chClose'[x] = chClose[x]
        /\ joining'[c] = Nil
        /\ \A x \in Conns : x # c => joining'[x] = joining[x]
    <2>1. /\ c \in Conns /\ s \in Conns /\ joining[c] = s /\ pc[ServeOf(c)] = "swapChan"
          /\ UNCHANGED <<connected, connection, registered, tokens, sealed, heldChan, heldConn>>
          /\ chClose' = [chClose EXCEPT ![s] = ch]
          /\ pc' = [pc EXCEPT ![ServeOf(c)] = "end", ![r] = "top", ![t] = "top"]
          /\ joining' = [joining EXCEPT ![c] = Nil]
      BY <1>n DEF JoinedLoops
    <2>2. /\ ServeOf(c) \in Proc /\ ServeOf(c) \in Handler /\ ServeOf(c)[1] = c
          /\ r \in Proc /\ t \in Proc /\ r # t /\ ServeOf(c) \notin {r, t}
      BY <1>n, <2>1, Goroutines
    <2>3. s # c /\ ~connected[s] /\ Started(s)
      BY <2>1, <2>2 DEF NeverItself, Inv, WorkIsStarted
    <2>4. /\ pc \in [Proc -> Place] /\ chClose \in [Conns -> Chan \cup {Nil}]
          /\ joining \in [Conns -> Conns \cup {Nil}]
      BY DEF Inv, TypeOK
    <2>5. /\ pc'[ServeOf(c)] = "end" /\ pc'[r] = "top" /\ pc'[t] = "top"
          /\ \A q \in Proc : q \notin {ServeOf(c), r, t} => pc'[q] = pc[q]
      BY <2>1, <2>2, <2>4
    <2> QED
      BY <2>1, <2>3, <2>4, <2>5
  <1>s. /\ ServeOf(c) \in Proc /\ ServeOf(c) \in Handler
        /\ \A d \in Conns : d # c => ServeOf(d) # ServeOf(c) /\ pc'[ServeOf(d)] = pc[ServeOf(d)]
        /\ \A q \in Loop : q # ServeOf(c) /\ q \in Proc
        /\ r \in Proc /\ t \in Proc /\ ch # OwnChan(s)
        /\ \A x \in Conns :
             RecvOf(x) \notin {r, t, ServeOf(c)} /\ SendOf(x) \notin {r, t, ServeOf(c)}
    BY <1>0, <1>n, Goroutines
  <1>k. /\ \A q \in Proc : q # ServeOf(c) => SessionOf(q)' = SessionOf(q)
        /\ SessionOf(ServeOf(c)) = s /\ SessionOf(ServeOf(c))' = Nil
        /\ SessionOf(r) = s /\ SessionOf(t) = s
    BY <1>0, <1>n, <1>s, Goroutines DEF SessionOf
  <1>o. \A x \in Conns : pc'[RecvOf(x)] = pc[RecvOf(x)] /\ pc'[SendOf(x)] = pc[SendOf(x)]
    BY <1>0, <1>s, Goroutines
  <1>b. \A d \in Conns : d # c => ~Joins(d, s)
    BY <1>0, NilAssumption DEF OneJoins, Joins
  <1>d. /\ \A d, x \in Conns : d # c => (Joins(d, x)' <=> Joins(d, x))
        /\ \A x \in Conns : ~Joins(c, x)'
    BY <1>0, <1>s, NilAssumption DEF Joins
  <1>1. NeverItself'
    <2>1. registered # Nil => registered \in Conns /\ registered # c
      BY <1>0 DEF NeverItself, Inv, TypeOK
    <2>2. registered # Nil => pc'[ServeOf(registered)] = "end"
      BY <1>s, <2>1 DEF NeverItself
    <2> QED
      BY <1>0, <1>s, <2>2, NilAssumption DEF NeverItself
  <1>2. OwnWhileConnected'
    <2>1. \A x \in Conns :
            connected[x] => /\ chClose'[x] = OwnChan(x) /\ connection[x] = x
                            /\ pc'[RecvOf(x)] \notin {"none", "idle"}
                            /\ pc'[SendOf(x)] \notin {"none", "idle"}
      BY <1>0, <1>o DEF OwnWhileConnected
    <2>2. \A q \in Loop : pc'[q] # "none" /\ q[2] # q[1] => ~connected[q[1]]
      BY <1>0, <1>n, <1>s DEF OwnWhileConnected
    <2> QED
      BY <1>0, <2>1, <2>2 DEF OwnWhileConnected
  <1>3. HeldIsOwn'
    <2>1. \A q \in Loop :
            /\ pc'[q] = "none" => heldConn[q] = Nil /\ heldChan[q] = Nil
            /\ pc'[q] = "read" => heldConn[q] # Nil
            /\ pc'[q] = "select" => heldChan[q] # Nil
      BY <1>0, <1>s DEF HeldIsOwn
    <2>2. ASSUME NEW q \in Proc, NEW x \in Conns, SessionOf(q)' = x, chClose'[x] = OwnChan(x)
          PROVE  heldChan[q] \in {Nil, OwnChan(x)}
      <3>1. x # s /\ q # ServeOf(c)
        BY <1>0, <1>k, <1>s, <2>2, NilAssumption
      <3> QED
        BY <1>0, <1>k, <2>2, <3>1 DEF HeldIsOwn
    <2> QED
      BY <1>0, <2>1, <2>2 DEF HeldIsOwn
  <1>4. OneJoins'
    <2>1. ASSUME NEW d \in Conns, NEW e \in Conns, joining'[d] # Nil,
                 Joins(d, joining[d])', Joins(e, joining[d])'
          PROVE  d = e
      BY <1>0, <1>d, <2>1 DEF OneJoins, Joins, Inv, TypeOK
    <2> QED
      BY <2>1 DEF OneJoins
  <1>5. FewClose'
    <2>1. ASSUME NEW d \in Conns, pc'[ServeOf(d)] \in Past
          PROVE  chClose'[joining'[d]] = OwnChan(joining'[d])
      <3>1. d # c /\ pc[ServeOf(d)] \in Past
        BY <1>0, <1>s, <2>1 DEF Past
      <3>2. joining[d] \in Conns /\ joining[d] # s
        BY <1>b, <3>1, Goroutines DEF Joins, Past, Inv, WorkIsStarted, Closing
      <3> QED
        BY <1>0, <3>1, <3>2 DEF FewClose
    <2>2. \A q \in Loop :
            pc'[q] \in Closing \cup {"echo", "read", "select", "write"} => pc'[q] = pc[q]
      BY <1>0, <1>s DEF Closing
    <2> QED
      BY <2>1, <2>2 DEF FewClose, Past, Closing
  <1>6. UnsetIsSealed'
    <2>1. ASSUME NEW x \in Conns, x # s
          PROVE  (Sealing(x) => Sealing(x)') /\ (NoneWaits(x) => NoneWaits(x)')
      <3>1. \A q \in Proc :
              q \notin {r, t, ServeOf(c)} => pc'[q] = pc[q] /\ SessionOf(q)' = SessionOf(q)
        BY <1>0, <1>k
      <3>2. \A q \in {r, t, ServeOf(c)} :
              /\ q \in Proc /\ SessionOf(q) # x /\ SessionOf(q)' # x
        BY <1>k, <1>s, <2>1, NilAssumption
      <3>3. chClose'[x] = chClose[x]
        BY <1>0, <2>1
      <3> QED
        BY <3>1, <3>2, <3>3 DEF Sealing, NoneWaits
    <2>2. ASSUME OwnChan(s) \notin sealed PROVE NoneWaits(s)'
      <3>1. pc[RecvOf(s)] \notin Past \ {"seal"}
        <4>1. Sealing(s) \/ NoneWaits(s)
          BY <1>0, <2>2 DEF UnsetIsSealed
        <4>2. CASE NoneWaits(s)
          BY <1>0, <4>2, Sessions, Goroutines DEF NoneWaits
        <4>3. CASE Sealing(s)
          <5>1. PICK q \in Proc : SessionOf(q) = s /\ pc[q] = "seal"
            BY <4>3 DEF Sealing
          <5>2. q \in Loop
            BY <1>0, <1>b, <5>1, Sessions, Goroutines DEF Joins
          <5>3. q = RecvOf(s)
            BY <5>1, <5>2, Sessions DEF FewClose, Past
          <5> QED
            BY <5>1, <5>3
        <4> QED
          BY <4>1, <4>2, <4>3
      <3>2. ASSUME NEW q \in Proc, SessionOf(q)' = s, pc'[q] \in Past \ {"seal"} PROVE FALSE
        <4>1. q # ServeOf(c) /\ q # r /\ q # t
          BY <1>0, <1>k, <3>2, NilAssumption DEF Past
        <4>2. pc[q] \in Past \ {"seal"} /\ SessionOf(q) = s
          BY <1>0, <1>k, <3>2, <4>1
        <4>3. q \in Loop
          BY <1>b, <4>1, <4>2, Sessions, Goroutines DEF Joins, Past
        <4>4. q = RecvOf(s)
          BY <4>2, <4>3, Sessions DEF FewClose
        <4> QED
          BY <3>1, <4>2, <4>4
      <3> QED
        BY <3>2 DEF NoneWaits
    <2>3. \A x \in Conns : Started(x)' /\ x # s => Started(x)
      BY <1>0 DEF Started
    <2> QED
      BY <1>0, <2>1, <2>2, <2>3 DEF UnsetIsSealed
  <1>7. LaterChannels'
    <2>1. \A x \in Chan : pc'[RecvOf(x[1])] = pc[RecvOf(x[1])]
      BY <1>o, Goroutines
    <2> QED
      BY <1>0, <2>1 DEF LaterChannels
  <1>8. Tally'
    <2>2. ASSUME NEW x \in Conns, connected'[x]
          PROVE  /\ \A d \in Conns : Joins(d, x)' => Balance(x, Put(ServeOf(d)))'
                 /\ (\A d \in Conns : ~Joins(d, x)') => Balance(x, 0)'
      <3>1. x # s /\ ~Joins(c, x)
        BY <1>0, <2>2 DEF Joins
      <3> QED
        BY <1>0, <1>d, <1>s, <1>o, <2>2, <3>1 DEF Tally, Balance, Taken, Put
    <2> QED
      BY <2>2 DEF Tally
  <1> QED
    BY <1>1, <1>2, <1>3, <1>4, <1>5, <1>6, <1>7, <1>8

-----------------------------------------------------------------------------

\* One of these is what a step does, or it touches none of it.
Aside == UNCHANGED <<session, registered, joining, chans, held, pc>>

Effect ==
    \/ \E p \in Loop : Worked(p) \/ Ended(p)
    \/ \E p \in Proc : Checked(p) \/ Pushed(p) \/ Paused(p) \/ Panicked(p) \/ Unset(p) \/ Sealed(p)
    \/ \E c \in Conns : Opened(c) \/ WentOn(c) \/ LookedUp(c) \/ JoinedConn(c)
    \/ \E c, s \in Conns : JoinedLoops(c, s)
    \/ Aside

\* Each of them keeps Fields and Orderly.
LEMMA EffectRests ==
    ASSUME Inv, WatchInv, Fields, Orderly, Effect
    PROVE  (Fields /\ Orderly)'
  <1>1. ASSUME Aside PROVE (Fields /\ Orderly)'
    BY <1>1 DEF Aside, session, chans, held, Fields, Orderly, NeverItself, OwnWhileConnected,
       HeldIsOwn, OneJoins, Joins, FewClose, UnsetIsSealed, Sealing, NoneWaits, LaterChannels,
       Tally, Balance, Put, Taken, SessionOf, Started
  <1> QED
    BY <1>1, WorkedRests, EndedRests, CheckedRests, PushedRests, PausedRests, PanickedRests,
       UnsetRests, SealedRests, OpenedRests, WentOnRests, LookedUpRests, JoinedConnRests,
       JoinedLoopsRests DEF Effect

\* The steps of a loop that meets no other writer.
LEMMA LoopEffect ==
    ASSUME Inv, Fields, Orderly, ~clash', NEW p \in Loop,
           Recv(p) \/ RecvMessage(p) \/ RecvText(p) \/ Send(p) \/ SendMessage(p) \/ LookupPanic(p)
    PROVE  Worked(p) \/ Ended(p)
  <1>0. p \in Proc /\ p[1] \in Conns
    BY Goroutines
  <1>v. /\ pc \in [Proc -> Place] /\ heldChan \in [Proc -> Chan \cup {Nil}]
        /\ heldConn \in [Proc -> Conns \cup {Nil}]
    BY DEF Inv, TypeOK
  <1>c. pc[p] \notin {"none"} => chClose[p[1]] \in Chan
    BY <1>0 DEF Inv, TypeOK, WorkIsStarted, Started
  <1>s. pc[p] = "select" => heldChan[p] \in Chan
    BY <1>0, <1>v DEF Fields, HeldIsOwn
  <1>t. UNCHANGED <<session, registered, joins>>
    BY DEF Recv, RecvTop, RecvDefault, RecvError, RecvEchoed, RecvMessage, RecvText, Send,
       SendTop, SendStop, SendWritten, SendMessage, LookupPanic
  <1>f. Fixed
    BY <1>t DEF Fixed, session, joins
  <1>1. ASSUME RecvTop(p) PROVE Worked(p) \/ Ended(p)
    <2>1. Others(p)
      BY <1>0, <1>v, <1>1 DEF RecvTop, Goto, Others, held
    <2>2. CASE pc'[p] = "default"
      BY <1>0, <1>1, <1>f, <1>v, <2>1, <2>2
      DEF RecvTop, Goto, Worked, chans, held, Closing
    <2>3. CASE pc'[p] = "end"
      BY <1>0, <1>1, <1>c, <1>f, <1>v, <2>1, <2>3 DEF RecvTop, Goto, Ended, held
    <2> QED
      BY <1>0, <1>1, <1>v, <2>2, <2>3 DEF RecvTop, Goto
  <1>a. ASSUME RecvDefault(p) PROVE Worked(p)
    BY <1>0, <1>a, <1>f, <1>v DEF RecvDefault, Goto, Worked, Others, Closing
  <1>2. ASSUME RecvMessage(p) PROVE Worked(p)
    BY <1>0, <1>2, <1>f, <1>v DEF RecvMessage, Goto, Worked, Others, Closing
  <1>3. ASSUME RecvError(p) PROVE Worked(p)
    BY <1>0, <1>3, <1>f, <1>v DEF RecvError, Goto, Worked, Others, Closing
  <1>4. ASSUME RecvText(p) PROVE Worked(p)
    BY <1>0, <1>4, <1>f, <1>v DEF RecvText, BeginWrite, Goto, Worked, Others, Closing
  <1>5. ASSUME RecvEchoed(p) PROVE Worked(p)
    <2>1. p[3] = "recv"
      BY <1>5 DEF RecvEchoed, Orderly, FewClose
    <2> QED
      BY <1>0, <1>5, <1>f, <1>v, <2>1 DEF RecvEchoed, EndWrite, Goto, Worked, Others, Closing
  <1>6. ASSUME SendTop(p) PROVE Worked(p)
    BY <1>0, <1>6, <1>f, <1>v DEF SendTop, Goto, Worked, Others, Closing
  <1>7. ASSUME SendStop(p) PROVE Ended(p)
    BY <1>0, <1>7, <1>f, <1>s, <1>v DEF SendStop, Goto, Ended, Others
  <1>8. ASSUME SendMessage(p) PROVE Worked(p)
    BY <1>0, <1>8, <1>f, <1>v DEF SendMessage, BeginWrite, Goto, Worked, Others, Closing
  <1>9. ASSUME SendWritten(p) PROVE Worked(p)
    BY <1>0, <1>9, <1>f, <1>v DEF SendWritten, EndWrite, Goto, Worked, Others, Closing
  <1>b. ~LookupPanic(p)
    BY DEF LookupPanic
  <1> QED
    BY <1>a, <1>b, <1>1, <1>2, <1>3, <1>4, <1>5, <1>6, <1>7, <1>8, <1>9 DEF Recv, Send

\* The steps of Close.
LEMMA CloseEffect ==
    ASSUME Inv, Fields, Orderly, ~clash, NEW p \in Proc, Close(p)
    PROVE  Checked(p) \/ Pushed(p) \/ Paused(p) \/ Panicked(p) \/ Unset(p) \/ Sealed(p)
  <1>v. /\ pc \in [Proc -> Place] /\ heldChan \in [Proc -> Chan \cup {Nil}]
        /\ heldConn \in [Proc -> Conns \cup {Nil}]
    BY DEF Inv, TypeOK
  <1>d. pc[p] \in Closing \ {"check"} => p \notin deferred
    BY DEF Inv, DeferredIsUnset
  <1>e. ASSUME Panic(p), p \notin deferred
        PROVE  /\ pc' = [pc EXCEPT ![p] = IF p \in Handler THEN "end" ELSE "check"]
               /\ heldChan'[p] = Nil /\ heldConn'[p] = Nil /\ Others(p)
    <2>1. pc' = [pc EXCEPT ![p] = IF p \in Handler THEN "end" ELSE "check"]
      BY <1>e, Goroutines DEF Panic, Goto
    <2>2. /\ heldChan' = [heldChan EXCEPT ![p] = Nil]
          /\ heldConn' = [heldConn EXCEPT ![p] = Nil]
      BY <1>e DEF Panic
    <2> QED
      BY <1>v, <2>1, <2>2 DEF Others
  <1>1. ASSUME CloseCheck(p) PROVE Checked(p)
    BY <1>1, <1>v DEF CloseCheck, Return, Goto, Checked, Others, Fixed, session, held, joins
  <1>2. ASSUME ClosePush(p) PROVE Pushed(p) \/ Paused(p) \/ Panicked(p)
    <2>1. Fixed /\ UNCHANGED sealed
      BY <1>2 DEF ClosePush, Fixed, session, joins
    <2>2. p \notin deferred
      BY <1>2, <1>d DEF ClosePush, Closing
    <2>3. CASE PushTarget(p) \in sealed
      BY <1>2, <1>e, <1>v, <2>1, <2>2, <2>3 DEF ClosePush, Panicked, chans
    <2>4. CASE PushTarget(p) \notin sealed
      BY <1>2, <1>v, <2>1, <2>4 DEF ClosePush, Goto, Pushed, Paused, Others, chans
    <2> QED
      BY <2>3, <2>4
  <1>3. ASSUME CloseShut(p) PROVE Paused(p)
    BY <1>3, <1>v DEF CloseShut, Goto, Paused, Others, Fixed, session, held, joins
  <1>4. ASSUME CloseUnset(p) PROVE Unset(p)
    BY <1>4, <1>v DEF CloseUnset, Goto, Unset, Others, held, joins
  <1>5. ASSUME CloseSeal(p) PROVE Panicked(p) \/ Sealed(p)
    <2>1. Fixed /\ UNCHANGED tokens
      BY <1>5 DEF CloseSeal, Fixed, session, joins
    <2>2. p \notin deferred
      BY <1>5, <1>d DEF CloseSeal, Closing
    <2>3. CASE chClose[SessionOf(p)] \in sealed
      BY <1>5, <1>e, <1>v, <2>1, <2>2, <2>3 DEF CloseSeal, Panicked, chans
    <2>4. CASE chClose[SessionOf(p)] \notin sealed
      BY <1>5, <1>v, <2>1, <2>4 DEF CloseSeal, Return, Goto, Sealed, Others, held
    <2> QED
      BY <2>3, <2>4
  <1> QED
    BY <1>1, <1>2, <1>3, <1>4, <1>5 DEF Close

\* The steps of a handler that does not meet another one in Join.
LEMMA ServeEffect ==
    ASSUME Inv, ~crowded', NEW c \in Conns, ServeStart(c) \/ Serve(c)
    PROVE  \/ Opened(c) \/ WentOn(c) \/ LookedUp(c) \/ JoinedConn(c)
           \/ \E s \in Conns : JoinedLoops(c, s)
  <1>1. ASSUME ServeStart(c) PROVE Opened(c) \/ WentOn(c)
    BY <1>1 DEF ServeStart, Goto, Opened, WentOn, ServeOf, RecvOf, SendOf, OwnChan, session, joins
  <1>2. ASSUME ServeLookup(c) PROVE WentOn(c) \/ LookedUp(c)
    BY <1>2 DEF ServeLookup, Goto, WentOn, LookedUp, ServeOf, InJoin, Joins, joins
  <1>3. ASSUME ServeAssign(c) PROVE WentOn(c)
    BY <1>3 DEF ServeAssign, Goto, WentOn, ServeOf, joins
  <1>4. ASSUME ServeJoinConn(c) PROVE JoinedConn(c)
    BY <1>4 DEF ServeJoinConn, Goto, JoinedConn, ServeOf, joins
  <1>5. ASSUME ServeJoinLoops(c) PROVE JoinedLoops(c, joining[c]) /\ joining[c] \in Conns
    <2>1. joining[c] \in Conns
      BY <1>5, Names DEF ServeJoinLoops, Inv, WorkIsStarted
    <2> QED
      BY <1>5, <2>1 DEF ServeJoinLoops, JoinedLoops, ServeOf
  <1> QED
    BY <1>1, <1>2, <1>3, <1>4, <1>5 DEF Serve

\* No step hides that writes overlapped or that handlers met.
LEMMA CalmBefore == Inv /\ [Next]_vars /\ Calm' => Calm
  <1> SUFFICES ASSUME Inv, [Next]_vars, Calm' PROVE Calm
    OBVIOUS
  <1>1. ASSUME NEW c \in Conns, ServeStart(c) \/ Serve(c) \/ ClientGone(c) PROVE Calm
    BY <1>1 DEF Calm, ServeStart, Serve, ServeLookup, ServeAssign, ServeJoinConn, ServeJoinLoops,
       ClientGone, joins, faults, Inv, TypeOK
  <1>2. ASSUME NEW p \in Loop, Recv(p) \/ RecvMessage(p) \/ RecvText(p) PROVE Calm
    BY <1>2 DEF Calm, Recv, RecvTop, RecvDefault, RecvError, RecvEchoed, RecvMessage, RecvText, BeginWrite,
       EndWrite, joins, faults
  <1>3. ASSUME NEW p \in Loop, Send(p) \/ SendMessage(p) \/ LookupPanic(p) PROVE Calm
    BY <1>3 DEF Calm, Send, SendTop, SendStop, SendWritten, SendMessage, BeginWrite, EndWrite,
       LookupPanic,
       joins, faults
  <1>4. ASSUME NEW p \in Proc, Close(p) PROVE Calm
    BY <1>4 DEF Calm, Close, CloseCheck, ClosePush, CloseShut, CloseUnset, CloseSeal, joins, faults
  <1>5. CASE UNCHANGED vars
    BY <1>5 DEF vars, joins, faults, Calm
  <1> QED
    BY <1>1, <1>2, <1>3, <1>4, <1>5 DEF Next

\* A connection that has been opened may be closed, but does not go away.
LEMMA MetNext == Inv /\ MetWasOpened /\ [Next]_vars => MetWasOpened'
  <1> SUFFICES ASSUME Inv, MetWasOpened, [Next]_vars PROVE MetWasOpened'
    OBVIOUS
  <1>1. ASSUME NEW c \in Conns, ServeStart(c) PROVE MetWasOpened'
    <2>1. \/ /\ peer' = [peer EXCEPT ![c] = "up"]
             /\ conn' = [conn EXCEPT ![c] = "open"]
             /\ \A s \in Conns : s # c => (Started(s)' <=> Started(s))
          \/ conn' = [conn EXCEPT ![c] = "closed"] /\ peer' = peer /\ chClose' = chClose
      BY <1>1 DEF ServeStart, Started, Inv, TypeOK
    <2> QED
      BY <2>1 DEF MetWasOpened, Started, Inv, TypeOK
  <1>2. ASSUME NEW c \in Conns, Serve(c) PROVE MetWasOpened'
    <2>1. \A s \in Conns : Started(s)' => Started(s)
      <3>1. ASSUME ServeJoinLoops(c) PROVE \A s \in Conns : Started(s)' => Started(s)
        <4>1. Started(joining[c])
          BY <3>1, Names DEF ServeJoinLoops, Inv, WorkIsStarted
        <4> QED
          BY <3>1, <4>1 DEF ServeJoinLoops, Started, Inv, TypeOK
      <3> QED
        BY <1>2, <3>1 DEF Serve, ServeLookup, ServeAssign, ServeJoinConn, Started, session
    <2> QED
      BY <1>2, <2>1 DEF MetWasOpened, Serve, ServeLookup, ServeAssign, ServeJoinConn,
         ServeJoinLoops, ends
  <1>3. ASSUME NEW c \in Conns, ClientGone(c) PROVE MetWasOpened'
    BY <1>3 DEF MetWasOpened, ClientGone, session, Started, Inv, TypeOK
  <1>4. ASSUME NEW p \in Loop,
               \/ Recv(p) \/ RecvMessage(p) \/ RecvText(p)
               \/ Send(p) \/ SendMessage(p) \/ LookupPanic(p)
        PROVE  MetWasOpened'
    BY <1>4 DEF MetWasOpened, Recv, RecvTop, RecvDefault, RecvError, RecvEchoed, RecvMessage,
       RecvText, Send, SendTop, SendStop, SendWritten, SendMessage, LookupPanic, ends, session,
       Started
  <1>5. ASSUME NEW p \in Proc, Close(p) PROVE MetWasOpened'
    BY <1>5 DEF MetWasOpened, Close, CloseCheck, ClosePush, CloseShut, CloseUnset, CloseSeal,
       ends, session, Started, Inv, TypeOK
  <1>6. CASE UNCHANGED vars
    BY <1>6 DEF vars, ends, session, MetWasOpened, Started
  <1> QED
    BY <1>1, <1>2, <1>3, <1>4, <1>5, <1>6 DEF Next

\* Every step keeps it.
LEMMA RestNext == Inv /\ WatchInv /\ RestInv /\ [Next]_vars => RestInv'
  <1> SUFFICES ASSUME Inv, WatchInv, RestInv, [Next]_vars, Calm' PROVE (Fields /\ Orderly)'
    BY MetNext DEF RestInv
  <1>1. Calm /\ Fields /\ Orderly
    BY CalmBefore DEF RestInv
  <1>2. Effect
    <2>1. ASSUME NEW c \in Conns, ServeStart(c) \/ Serve(c) PROVE Effect
      BY <2>1, ServeEffect DEF Calm, Effect
    <2>2. ASSUME NEW c \in Conns, ClientGone(c) PROVE Effect
      BY <2>2 DEF ClientGone, Effect, Aside, joins
    <2>3. ASSUME NEW p \in Loop,
                 \/ Recv(p) \/ RecvMessage(p) \/ RecvText(p)
                 \/ Send(p) \/ SendMessage(p) \/ LookupPanic(p)
          PROVE  Effect
      BY <1>1, <2>3, LoopEffect DEF Calm, Effect
    <2>4. ASSUME NEW p \in Proc, Close(p) PROVE Effect
      BY <1>1, <2>4, CloseEffect DEF Calm, Effect
    <2>5. CASE UNCHANGED vars
      BY <2>5 DEF vars, Effect, Aside, joins
    <2> QED
      BY <2>1, <2>2, <2>3, <2>4, <2>5 DEF Next
  <1> QED
    BY <1>1, <1>2, EffectRests

\* The invariant holds at the start.
LEMMA RestInit == Init => RestInv
  <1> SUFFICES ASSUME Init PROVE RestInv
    OBVIOUS
  <1>0. /\ \A p \in Loop : pc[p] = "none" /\ p \in Proc
        /\ \A c \in Conns : pc[ServeOf(c)] = "idle" /\ joining[c] = Nil /\ chClose[c] = Nil
        /\ \A p \in Proc : heldChan[p] = Nil
        /\ \A p \in Loop : heldConn[p] = Nil
    BY Goroutines DEF Init
  <1>1. MetWasOpened
    BY DEF MetWasOpened, Started, Init
  <1>2. NeverItself /\ OwnWhileConnected
    BY <1>0, NilAssumption DEF NeverItself, OwnWhileConnected, Init
  <1>3. HeldIsOwn
    BY <1>0 DEF HeldIsOwn
  <1>4. OneJoins /\ FewClose
    BY <1>0 DEF OneJoins, FewClose, Past, Closing
  <1>5. UnsetIsSealed /\ LaterChannels /\ Tally
    BY <1>0, Goroutines DEF UnsetIsSealed, Started, LaterChannels, Tally, Init
  <1> QED
    BY <1>1, <1>2, <1>3, <1>4, <1>5 DEF RestInv, Fields, Orderly

\* In every reachable state it holds.
THEOREM RestInvariance == Spec => [](Inv /\ WatchInv /\ RestInv)
  BY InvInit, InvNext, WatchInit, WatchNext, RestInit, RestNext, PTL DEF Spec

-----------------------------------------------------------------------------
\* At rest.

\* A stuck Close fills the channel it waits for.  That cannot be the channel of a
\* connected session: it would hold two values, one of which send would take.  It
\* cannot be the channel of another one either: who has reset Connected is about
\* to close that, and one that a Join has made has room for recv's two values.
LEMMA NobodyIsStuck ==
    ASSUME Inv, WatchInv, Fields, Orderly, AtRest, NEW p \in Proc
    PROVE  pc[p] \notin Closing
  <1> SUFFICES ASSUME pc[p] \in Closing PROVE FALSE
    OBVIOUS
  <1>r. PICK s : s = SessionOf(p)
    OBVIOUS
  <1>0. /\ pc[p] \in {"push1", "push2"} /\ heldChan[p] # Nil
        /\ ~Room(heldChan[p]) /\ heldChan[p] \notin sealed
    BY DEF AtRest, AtRead, AtSelect, AtPush, Closing
  <1>1. /\ s \in Conns /\ Started(s)
        /\ heldChan[p] \in Chan /\ heldChan[p][1] = s
        /\ p = RecvOf(s) \/ \E c \in Conns : p = ServeOf(c) /\ Joins(c, s)
        /\ connected[s] \/ p \in Handler => heldChan[p] = OwnChan(s)
    BY <1>0, <1>r, Closer, Targets DEF Inv, PushTarget
  <1>2. tokens[heldChan[p]] = 2
    BY <1>0, <1>1 DEF Room, Capacity, Inv, TypeOK
  <1>3. CASE connected[s]
    <2>1. tokens[OwnChan(s)] = 2
      BY <1>1, <1>2, <1>3
    <2>2. pc[SendOf(s)] = "end"
      <3>1. pc[SendOf(s)] \notin Closing \cup {"echo", "read"}
        BY <1>1, Goroutines DEF Orderly, FewClose
      <3>2. pc[SendOf(s)] \in {"none", "idle", "end"} \/ AtSelect(SendOf(s))
        BY <1>1, <3>1, Goroutines DEF AtRest, AtRead, AtPush, Closing
      <3>3. pc[SendOf(s)] \notin {"none", "idle"}
        BY <1>1, <1>3 DEF Fields, OwnWhileConnected
      <3>4. ~AtSelect(SendOf(s))
        BY <1>1, <1>3, <2>1, Goroutines, Sessions
        DEF AtSelect, Fields, HeldIsOwn, OwnWhileConnected
      <3> QED
        BY <3>2, <3>3, <3>4
    <2>3. ASSUME NEW q \in Proc PROVE Put(q) \in {0, 1}
      BY DEF Put, AtRest, AtRead, AtSelect, AtPush
    <2>4. Balance(s, 0) \/ \E c \in Conns : Balance(s, Put(ServeOf(c)))
      BY <1>1, <1>3 DEF Orderly, Tally
    <2>5. PICK n \in {0, 1} : Balance(s, n)
      BY <2>3, <2>4, Goroutines
    <2>6. 2 + Taken(RecvOf(s)) + 1 = Put(RecvOf(s)) + n
      BY <2>1, <2>2, <2>5 DEF Balance, Taken
    <2> QED
      BY <1>1, <2>3, <2>5, <2>6, Goroutines DEF Taken
  <1>4. CASE ~connected[s]
    <2>1. CASE heldChan[p] = OwnChan(s)
      <3>1. Sealing(s) \/ NoneWaits(s)
        BY <1>0, <1>1, <1>4, <2>1 DEF Orderly, UnsetIsSealed
      <3>2. ~Sealing(s)
        BY DEF Sealing, AtRest, AtRead, AtSelect, AtPush
      <3>3. ~NoneWaits(s)
        BY <1>0, <1>r DEF NoneWaits, Past
      <3> QED
        BY <3>1, <3>2, <3>3
    <2>2. CASE heldChan[p] # OwnChan(s)
      <3>1. p = RecvOf(s) /\ heldChan[p][2] # heldChan[p][1]
        BY <1>1, <2>2, Goroutines
      <3> QED
        BY <1>0, <1>1, <1>2, <3>1 DEF Orderly, LaterChannels
    <2> QED
      BY <2>1, <2>2
  <1> QED
    BY <1>1, <1>3, <1>4 DEF Inv, TypeOK

\* At rest the loops of a connected session have both not ended.
LEMMA ConnectedIsServed ==
    ASSUME Inv, WatchInv, Fields, Orderly, AtRest, NEW s \in Conns, connected[s]
    PROVE  /\ AtRead(RecvOf(s)) /\ heldConn[RecvOf(s)] = s
           /\ pc[SendOf(s)] = "select" /\ connection[s] = s
  <1>1. \A p \in Proc : pc[p] \notin Closing
    BY NobodyIsStuck
  <1>2. \A p \in Proc : Put(p) = 0
    BY <1>1 DEF Put, Closing
  <1>3. Balance(s, 0)
    BY <1>2, Goroutines DEF Orderly, Tally
  <1>4. tokens[OwnChan(s)] \in Nat
    <2>1. OwnChan(s) \in Chan /\ tokens \in [Chan -> 0 .. Capacity]
      BY Goroutines DEF Inv, TypeOK
    <2> QED
      BY <2>1 DEF Capacity
  <1>5. pc[RecvOf(s)] # "end" /\ pc[SendOf(s)] # "end"
    BY <1>2, <1>3, <1>4, Goroutines DEF Balance, Taken
  <1>6. /\ pc[RecvOf(s)] \notin {"none", "idle", "select"} \cup Closing
        /\ pc[SendOf(s)] \notin {"none", "idle", "read"} \cup Closing
    <2>1. pc[RecvOf(s)] \notin {"none", "idle"} /\ pc[SendOf(s)] \notin {"none", "idle"}
      BY DEF Fields, OwnWhileConnected
    <2>2. pc[RecvOf(s)] # "select" /\ pc[SendOf(s)] # "read"
      BY Goroutines DEF Orderly, FewClose
    <2> QED
      BY <1>1, <2>1, <2>2, Goroutines
  <1>7. AtRead(RecvOf(s)) /\ pc[SendOf(s)] = "select"
    BY <1>5, <1>6, Goroutines DEF AtRest, AtSelect, AtPush, AtRead, Closing
  <1>8. connection[s] = s
    BY DEF Fields, OwnWhileConnected
  <1> QED
    BY <1>7, <1>8, Goroutines DEF AtRead, Fields, HeldIsOwn

\* However many connections a user has, as long as no writes overlap and no two
\* handlers are in one session's Join at once nobody is left inside Close: the
\* channel is never full for two goroutines that nobody would let go on.
THEOREM ClosersReturn == Spec => []ClosersFinish
  <1>1. Inv /\ WatchInv /\ RestInv => ClosersFinish
    BY NobodyIsStuck DEF RestInv, Calm, ClosersFinish
  <1> QED
    BY <1>1, RestInvariance, PTL

\* Under the same conditions the connections of clients that are gone are closed.
THEOREM GoneGetClosed == Spec => []GoneIsClosed
  <1>1. Inv /\ WatchInv /\ RestInv => GoneIsClosed
    <2> SUFFICES ASSUME Inv, WatchInv, MetWasOpened, Fields, Orderly, AtRest,
                        NEW c \in Conns, peer[c] = "gone", conn[c] # "closed"
                 PROVE  FALSE
      BY DEF RestInv, Calm, GoneIsClosed
    <2>1. connected[c]
      BY DEF MetWasOpened, Inv, TypeOK, WatchInv, OpenIsWatched
    <2> QED
      BY <2>1, ConnectedIsServed DEF AtRead
  <1> QED
    BY <1>1, RestInvariance, PTL

\* Under the same conditions a connection that is open at both ends is served by
\* a recv that reads from it and a send that waits for what it is sent.
THEOREM OpenGetServed == Spec => []OpenIsServed
  <1>1. Inv /\ WatchInv /\ RestInv => OpenIsServed
    <2> SUFFICES ASSUME Inv, WatchInv, Fields, Orderly, AtRest,
                        NEW c \in Conns, conn[c] = "open"
                 PROVE  /\ \E p \in Loop : pc[p] = "read" /\ heldConn[p] = c
                        /\ \E p \in Loop : pc[p] = "select" /\ connection[p[1]] = c
      BY DEF RestInv, Calm, OpenIsServed
    <2>1. connected[c]
      BY DEF WatchInv, OpenIsWatched
    <2>2. /\ pc[RecvOf(c)] = "read" /\ heldConn[RecvOf(c)] = c
          /\ pc[SendOf(c)] = "select" /\ connection[c] = c
      BY <2>1, ConnectedIsServed DEF AtRead
    <2> QED
      BY <2>2, Goroutines
  <1> QED
    BY <1>1, RestInvariance, PTL

\* Under the same conditions Connected is TRUE only of a session whose connection
\* is open.
THEOREM ConnectedStaysTrue == Spec => []ConnectedIsOpen
  <1>1. Inv /\ WatchInv /\ RestInv => ConnectedIsOpen
    <2> SUFFICES ASSUME Inv, WatchInv, MetWasOpened, Fields, Orderly, AtRest,
                        NEW s \in Conns, connected[s]
                 PROVE  conn[connection[s]] = "open"
      BY DEF RestInv, Calm, ConnectedIsOpen
    <2>1. AtRead(RecvOf(s)) /\ heldConn[RecvOf(s)] = s /\ connection[s] = s
      BY ConnectedIsServed
    <2>2. Started(s)
      BY Goroutines DEF Fields, OwnWhileConnected, Started
    <2> QED
      BY <2>1, <2>2 DEF AtRead, MetWasOpened, Inv, TypeOK
  <1> QED
    BY <1>1, RestInvariance, PTL

=============================================================================

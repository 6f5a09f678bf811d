---------------------------- MODULE ObjectCache -----------------------------
(***************************************************************************)
(* src/cache/object_cache.go: a map with expiry, written by one goroutine  *)
(* (process) and called by every other goroutine of the server.            *)
(*                                                                         *)
(* Set and Delete send a request down a buffered channel; Get, Has, the    *)
(* first half of Renew and the first half of Delete read elementsMap       *)
(* directly, with no lock, while process may be writing it.  A map write   *)
(* is therefore two steps here, its start and its end, and a lookup that   *)
(* falls between them has every outcome the Go runtime can give it.        *)
(*                                                                         *)
(* An element of the Go list is named by its key: ListMirrorsMap shows     *)
(* that the list never holds two elements of one key.                      *)
(***************************************************************************)
EXTENDS Integers, SequencesExt

CONSTANTS
    Keys,           \* fingerprints, session ids
    Values,         \* what is stored (*User, *Key)
    Callers,        \* goroutines that call the cache
    LifeTimes,      \* the life times callers ask for, in ticks
    ChanBuffer,     \* capacity of chSet and of chRemove
    CheckInterval,  \* the timeout of process's select, in ticks
    Nil             \* Go's nil

Element == [value : Values, ttl : Nat \cup {-1}]

\* CacheRequest as Set fills it; a request on chRemove carries its key only.
SetRequest == [key : Keys, value : Values, life : LifeTimes]

\* A write of elementsMap in progress, and what it is part of.
MapWrite == [op : {"insert", "remove", "expire"}, key : Keys]

ASSUME LifeTimesAssumption == LifeTimes \subseteq Nat
ASSUME ChanBufferAssumption == ChanBuffer \in Nat
ASSUME CheckIntervalAssumption == CheckInterval \in Nat
ASSUME NilAssumption == Nil \notin Element \cup SetRequest \cup MapWrite \cup Keys

VARIABLES
    elements,       \* the list: the keys of its elements, front to back
    elementsMap,    \* the keys of the map
    element,        \* the CachedElement of each key, Nil if there is none
    chSet,          \* requests sent or being sent on chSet
    chRemove,       \* keys sent or being sent on chRemove
    setWaiters,     \* callers blocked in a send on chSet, oldest first
    removeWaiters,  \* callers blocked in a send on chRemove
    renewing,       \* the request of a Renew that has read and not yet sent
    deleting,       \* the key of a Delete that has read and not yet sent
    mapWrite,       \* the map write process is in the middle of, or Nil
    victims,        \* what the running cleanup has still to remove
    timer,          \* ticks before the time.After of the select fires
    fatal           \* the runtime has stopped on a concurrent map access

store == <<elements, elementsMap, element>>
channels == <<chSet, chRemove, setWaiters, removeWaiters>>
calls == <<renewing, deleting>>
loop == <<mapWrite, victims, timer>>
vars == <<store, channels, calls, loop, fatal>>

-----------------------------------------------------------------------------
\* The list, the map and the channels

Alive(k) == k \in ToSet(elements)
\* Mutant: an element expires one tick early (!After instead of Before).
Expired_Early(k) == Alive(k) /\ element[k].ttl <= 0

\* Mutant: the comparison of line 67 the wrong way round.
Expired_Reversed(k) == Alive(k) /\ element[k].ttl > 0

Expired(k) == Alive(k) /\ element[k].ttl < 0

\* container/list: l.Remove(p) where p is the first element of key k.
WithoutFirst(k, l) ==
    IF k \in ToSet(l)
      THEN RemoveAt(l, CHOOSE i \in DOMAIN l :
                          l[i] = k /\ \A j \in 1..(i - 1) : l[j] # k)
      ELSE l

\* A send leaves its caller blocked when the buffer is full.
Blocks(ch) == Len(ch) >= ChanBuffer

\* A receive hands its buffer slot to the caller that has waited longest.
Released(waiters) == IF waiters = << >> THEN << >> ELSE Tail(waiters)

Blocked(c) == c \in ToSet(setWaiters) \cup ToSet(removeWaiters)

\* c is not inside a call of the cache.
Free(c) == renewing[c] = Nil /\ deleting[c] = Nil /\ ~Blocked(c)

\* process is at its select.
AtSelect == mapWrite = Nil /\ victims = {}

\* What an unsynchronised lookup of k can do.  While the map is written the
\* runtime may notice and stop the program, a key may be missed (its bucket
\* is being moved), and the slot of the key being written may be seen before,
\* after or without its pointer ("nil").
LookupOutcomes(k) ==
    CASE mapWrite = Nil    -> IF k \in elementsMap THEN {"hit"} ELSE {"miss"}
      [] OTHER             -> {"fatal", "miss"}
                              \cup (IF k \in elementsMap THEN {"hit"} ELSE {})
                              \cup (IF k = mapWrite.key THEN {"hit", "nil"} ELSE {})

-----------------------------------------------------------------------------
\* Calls

SendSet(c, r) ==
    /\ chSet' = Append(chSet, r)
    /\ setWaiters' = IF Blocks(chSet) THEN Append(setWaiters, c) ELSE setWaiters
    /\ UNCHANGED <<chRemove, removeWaiters>>

SendRemove(c, k) ==
    /\ chRemove' = Append(chRemove, k)
    /\ removeWaiters' = IF Blocks(chRemove) THEN Append(removeWaiters, c)
                                            ELSE removeWaiters
    /\ UNCHANGED <<chSet, setWaiters>>

Set(c, r) ==
    /\ ~fatal
    /\ Free(c)
    /\ SendSet(c, r)
    /\ UNCHANGED <<store, calls, loop, fatal>>

\* Get, Has and the lookups of Renew and Delete: the outcome that ends the
\* program.  The other outcomes of Get and Has change no state.
LookupFatal(c, k) ==
    /\ ~fatal
    /\ Free(c)
    /\ "fatal" \in LookupOutcomes(k)
    /\ fatal' = TRUE
    /\ UNCHANGED <<store, channels, calls, loop>>

\* Renew, first half: Get.  A "nil" slot panics on element.value and the
\* call is over; a miss returns false.
RenewGet(c, k, life) ==
    /\ ~fatal
    /\ Free(c)
    /\ "hit" \in LookupOutcomes(k)
    /\ renewing' = [renewing EXCEPT ![c] =
                      [key |-> k, value |-> element[k].value, life |-> life]]
    /\ UNCHANGED <<store, channels, deleting, loop, fatal>>

\* Renew, second half: Set of the value that was read.
RenewSet(c) ==
    /\ ~fatal
    /\ renewing[c] # Nil
    /\ SendSet(c, renewing[c])
    /\ renewing' = [renewing EXCEPT ![c] = Nil]
    /\ UNCHANGED <<store, deleting, loop, fatal>>

\* Delete, first half; it does not dereference the pointer it found.
DeleteGet(c, k) ==
    /\ ~fatal
    /\ Free(c)
    /\ {"hit", "nil"} \cap LookupOutcomes(k) # {}
    /\ deleting' = [deleting EXCEPT ![c] = k]
    /\ UNCHANGED <<store, channels, renewing, loop, fatal>>

DeleteSend(c) ==
    /\ ~fatal
    /\ deleting[c] # Nil
    /\ SendRemove(c, deleting[c])
    /\ deleting' = [deleting EXCEPT ![c] = Nil]
    /\ UNCHANGED <<store, renewing, loop, fatal>>

-----------------------------------------------------------------------------
\* process

\* Every turn of the loop makes a new timer.
Rearm == timer' = CheckInterval

\* What setInternal leaves in the element of a request's key.
\* Mutant: an element that exists gets its value and keeps its old lease.
Stored_KeepsLease(r) ==
    [value |-> r.value, ttl |-> IF r.key \in elementsMap THEN element[r.key].ttl ELSE r.life]

Stored(r) == [value |-> r.value, ttl |-> r.life]

\* setInternal updates in place an element the map knows.
\* Mutant: no look into the map.
InPlace_Blind(r) == FALSE

InPlace(r) == r.key \in elementsMap

\* setInternal: in place, or a new element at the back of the list and then
\* the map assignment (FinishWrite ends it).
ProcSet ==
    /\ ~fatal
    /\ AtSelect
    /\ chSet # << >>
    /\ chSet' = Tail(chSet)
    /\ setWaiters' = Released(setWaiters)
    /\ LET r == Head(chSet) IN
         /\ element' = [element EXCEPT ![r.key] = Stored(r)]
         /\ \/ /\ InPlace(r)
               /\ Rearm
               /\ UNCHANGED <<elements, mapWrite>>
            \/ /\ ~InPlace(r)
               /\ elements' = Append(elements, r.key)
               /\ mapWrite' = [op |-> "insert", key |-> r.key]
               /\ UNCHANGED timer
    /\ UNCHANGED <<elementsMap, chRemove, removeWaiters, calls, victims, fatal>>

\* The case chRemove of the select is ready.
\* Mutant: served only when chSet has nothing.
RemoveReady_Last == chSet = << >> /\ chRemove # << >>

RemoveReady == chRemove # << >>

\* removeInternal finds something to remove.
\* Mutant: it never does.
Removes_Nothing(k) == FALSE

Removes(k) == k \in elementsMap

\* removeInternal
ProcRemove ==
    /\ ~fatal
    /\ AtSelect
    /\ RemoveReady
    /\ chRemove' = Tail(chRemove)
    /\ removeWaiters' = Released(removeWaiters)
    /\ LET k == Head(chRemove) IN
         \/ /\ ~Removes(k)
            /\ Rearm
            /\ UNCHANGED <<elements, mapWrite>>
         \/ /\ Removes(k)
            /\ elements' = WithoutFirst(k, elements)
            /\ mapWrite' = [op |-> "remove", key |-> k]
            /\ UNCHANGED timer
    /\ UNCHANGED <<elementsMap, element, chSet, setWaiters, calls, victims, fatal>>

\* The timeout case: cleanup reads the clock once, so what it will remove is
\* settled here.
ProcTimer ==
    /\ ~fatal
    /\ AtSelect
    /\ timer = 0
    /\ victims' = {k \in Keys : Expired(k)}
    /\ IF victims' = {} THEN Rearm ELSE UNCHANGED timer
    /\ UNCHANGED <<store, channels, calls, mapWrite, fatal>>

\* cleanup: the next expired element leaves the list, its map delete starts.
SweepStep ==
    /\ ~fatal
    /\ mapWrite = Nil
    /\ \E i \in DOMAIN elements :
         /\ elements[i] \in victims
         /\ \A j \in 1..(i - 1) : elements[j] \notin victims
         /\ elements' = RemoveAt(elements, i)
         /\ mapWrite' = [op |-> "expire", key |-> elements[i]]
         /\ victims' = victims \ {elements[i]}
    /\ UNCHANGED <<elementsMap, element, channels, calls, timer, fatal>>

\* The map assignment or the map delete in progress ends.
FinishWrite ==
    /\ ~fatal
    /\ mapWrite # Nil
    /\ \/ /\ mapWrite.op = "insert"
          /\ elementsMap' = elementsMap \cup {mapWrite.key}
          /\ UNCHANGED element
       \/ /\ mapWrite.op # "insert"
          /\ elementsMap' = elementsMap \ {mapWrite.key}
          /\ element' = [element EXCEPT ![mapWrite.key] = Nil]
    /\ mapWrite' = Nil
    /\ IF victims = {} THEN Rearm ELSE UNCHANGED timer
    /\ UNCHANGED <<elements, channels, calls, victims, fatal>>

\* The clock.  A lease stops at -1: over is over.
Older(e) == IF e = Nil \/ e.ttl < 0 THEN e ELSE [e EXCEPT !.ttl = e.ttl - 1]

\* The timer runs only while process waits in its select.
Countdown == IF AtSelect /\ timer > 0 THEN timer - 1 ELSE timer

Tick ==
    /\ ~fatal
    /\ element' = [k \in Keys |-> Older(element[k])]
    /\ timer' = Countdown
    /\ UNCHANGED <<elements, elementsMap, channels, calls, mapWrite, victims, fatal>>

-----------------------------------------------------------------------------

Init ==
    /\ elements = << >>
    /\ elementsMap = {}
    /\ element = [k \in Keys |-> Nil]
    /\ chSet = << >> /\ setWaiters = << >>
    /\ chRemove = << >> /\ removeWaiters = << >>
    /\ renewing = [c \in Callers |-> Nil]
    /\ deleting = [c \in Callers |-> Nil]
    /\ mapWrite = Nil
    /\ victims = {}
    /\ timer = CheckInterval
    /\ fatal = FALSE

Call(c) ==
    \/ \E r \in SetRequest : Set(c, r)
    \/ \E k \in Keys : LookupFatal(c, k) \/ DeleteGet(c, k)
    \/ \E k \in Keys, life \in LifeTimes : RenewGet(c, k, life)
    \/ RenewSet(c)
    \/ DeleteSend(c)

Process == ProcSet \/ ProcRemove \/ ProcTimer \/ SweepStep \/ FinishWrite

Next ==
    \/ \E c \in Callers : Call(c)
    \/ Process
    \/ Tick

Spec == Init /\ [][Next]_vars

\* Go's select picks at random among its ready cases and the scheduler runs
\* every goroutine that can run, so a case that is ready again and again is
\* taken.  Nothing makes a caller start a call.
Fairness ==
    /\ SF_vars(ProcSet)
    /\ SF_vars(ProcRemove)
    /\ SF_vars(ProcTimer)
    /\ WF_vars(SweepStep)
    /\ WF_vars(FinishWrite)
    /\ WF_vars(Tick)
    /\ \A c \in Callers : WF_vars(RenewSet(c)) /\ WF_vars(DeleteSend(c))

FairSpec == Spec /\ Fairness

-----------------------------------------------------------------------------
\* Properties

\* The types of the variables.
TypeOK ==
    /\ elements \in Seq(Keys)
    /\ elementsMap \subseteq Keys
    /\ element \in [Keys -> Element \cup {Nil}]
    /\ chSet \in Seq(SetRequest)
    /\ chRemove \in Seq(Keys)
    /\ setWaiters \in Seq(Callers)
    /\ removeWaiters \in Seq(Callers)
    /\ renewing \in [Callers -> SetRequest \cup {Nil}]
    /\ deleting \in [Callers -> Keys \cup {Nil}]
    /\ mapWrite \in MapWrite \cup {Nil}
    /\ victims \subseteq Keys
    /\ timer \in 0..CheckInterval
    /\ fatal \in BOOLEAN

\* The list holds no key twice, and list and map hold the same keys except
\* for the key whose map write is in progress: the list runs one write ahead.
\* Every element of either is there to be dereferenced.  (object_cache.go
\* keeps the two structures in step by hand, lines 45-46, 55-59 and 72-73.)
NoDuplicates == \A i, j \in DOMAIN elements : elements[i] = elements[j] => i = j

ListAheadOfMap ==
    /\ mapWrite = Nil => ToSet(elements) = elementsMap
    /\ mapWrite # Nil /\ mapWrite.op = "insert" =>
         /\ mapWrite.key \notin elementsMap
         /\ ToSet(elements) = elementsMap \cup {mapWrite.key}
    /\ mapWrite # Nil /\ mapWrite.op # "insert" =>
         /\ mapWrite.key \in elementsMap
         /\ ToSet(elements) = elementsMap \ {mapWrite.key}

ElementsExist == \A k \in Keys : element[k] # Nil <=> Alive(k) \/ k \in elementsMap

ListMirrorsMap == NoDuplicates /\ ListAheadOfMap /\ ElementsExist

\* A key leaves the map only because a Delete asked for it or because its
\* lease is over at that very step (not merely when the sweep looked).
NoLiveEviction ==
    [][\A k \in elementsMap \ elementsMap' :
          mapWrite.op = "remove" \/ element[k].ttl < 0]_vars

\* The cache is a lease table: the list with its elements is the table, the
\* two channels (with the requests of blocked senders) are the mailboxes.
Table == INSTANCE LeaseTable WITH
            lease <- [k \in Keys |-> IF Alive(k) THEN element[k] ELSE Nil],
            puts  <- chSet,
            drops <- chRemove

Implements == Table!Spec

\* A caller blocked on a full channel (line 139, line 163) gets through,
\* whatever the others send.
SendersReturn ==
    \A c \in Callers : Blocked(c) ~> (~Blocked(c) \/ fatal)

\* A removal that was sent takes the key out of the map, at least for a
\* moment, however many Sets and Renews of the key overtake it.
RemovalHappens ==
    \A k \in Keys : k \in ToSet(chRemove) ~> (k \notin elementsMap \/ fatal)

\* Once callers leave the cache alone it empties itself.
Quiet == chSet = << >> /\ chRemove = << >> /\ \A c \in Callers : Free(c)

QuietCacheEmpties == <>[]Quiet => <>[](elementsMap = {} \/ fatal)

\* README.md says of sessionExpire: "The session without any action will be
\* remove after this time".  The code says otherwise: a sweep needs a pause of
\* CheckInterval in the traffic of the whole cache (line 116).
ExpiredIsRemoved ==
    \A k \in Keys : (k \in elementsMap /\ Expired(k)) ~>
                      (k \notin elementsMap \/ ~Expired(k) \/ fatal)

=============================================================================

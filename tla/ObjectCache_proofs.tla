------------------------- MODULE ObjectCache_proofs -------------------------
(***************************************************************************)
(* Proofs about ObjectCache for any keys, values, callers, life times,     *)
(* channel capacity and check interval.                                    *)
(***************************************************************************)
EXTENDS ObjectCache, SequenceTheorems, WellFoundedInduction, TLAPS

-----------------------------------------------------------------------------
\* Sequences: what Append, Tail and RemoveAt do to the set of a sequence's
\* elements and to the absence of duplicates

\* A sequence without duplicates.
Distinct(s) == \A i, j \in DOMAIN s : s[i] = s[j] => i = j

\* Append adds its element to the set and keeps a sequence duplicate-free when
\* the element is new.
LEMMA AppendElements ==
  ASSUME NEW S, NEW s \in Seq(S), NEW e \in S
  PROVE  /\ Append(s, e) \in Seq(S)
         /\ ToSet(Append(s, e)) = ToSet(s) \cup {e}
         /\ Distinct(s) /\ e \notin ToSet(s) => Distinct(Append(s, e))
<1> DEFINE t == Append(s, e)
<1>1. /\ t \in Seq(S)
      /\ Len(t) = Len(s) + 1
      /\ \A i \in 1..Len(s) : t[i] = s[i]
      /\ t[Len(s) + 1] = e
  BY AppendProperties
<1>2. /\ Len(s) \in Nat
      /\ DOMAIN s = 1..Len(s)
      /\ DOMAIN t = 1..(Len(s) + 1)
  BY <1>1, LenProperties
<1> HIDE DEF t
<1>3. ToSet(t) = ToSet(s) \cup {e}
  <2>1. ToSet(t) \subseteq ToSet(s) \cup {e}
    BY <1>1, <1>2, SMT DEF ToSet
  <2>2. ToSet(s) \subseteq ToSet(t)
    BY <1>1, <1>2, SMT DEF ToSet
  <2>3. e \in ToSet(t)
    BY <1>1, <1>2, SMT DEF ToSet
  <2> QED BY <2>1, <2>2, <2>3
<1>4. Distinct(s) /\ e \notin ToSet(s) => Distinct(t)
  BY <1>1, <1>2, SMT DEF Distinct, ToSet
<1> QED BY <1>1, <1>3, <1>4 DEF t

\* Tail only forgets elements.
LEMMA TailElements ==
  ASSUME NEW S, NEW s \in Seq(S), s # << >>
  PROVE  /\ Head(s) \in S
         /\ Head(s) \in ToSet(s)
         /\ Tail(s) \in Seq(S)
         /\ ToSet(Tail(s)) \subseteq ToSet(s)
<1>1. /\ Head(s) \in S
      /\ Tail(s) \in Seq(S)
      /\ Len(Tail(s)) = Len(s) - 1
      /\ \A i \in 1..Len(Tail(s)) : Tail(s)[i] = s[i + 1]
  BY HeadTailProperties
<1>2. /\ Len(s) \in Nat
      /\ DOMAIN s = 1..Len(s)
      /\ DOMAIN Tail(s) = 1..(Len(s) - 1)
  BY <1>1, LenProperties
<1>3. Head(s) = s[1] /\ Len(s) # 0
  BY EmptySeq, SMT
<1>4. Head(s) \in ToSet(s)
  BY <1>2, <1>3, SMT DEF ToSet
<1>5. ToSet(Tail(s)) \subseteq ToSet(s)
  BY <1>1, <1>2, SMT DEF ToSet
<1> QED BY <1>1, <1>4, <1>5

\* The elements of a sequence after the one at position i has been removed.
LEMMA RemoveAtProperties ==
  ASSUME NEW S, NEW s \in Seq(S), NEW i \in DOMAIN s
  PROVE  /\ RemoveAt(s, i) \in Seq(S)
         /\ Len(RemoveAt(s, i)) = Len(s) - 1
         /\ \A j \in 1..(Len(s) - 1) :
              RemoveAt(s, i)[j] = IF j < i THEN s[j] ELSE s[j + 1]
<1> DEFINE a == SubSeq(s, 1, i - 1)
           b == SubSeq(s, i + 1, Len(s))
<1>1. /\ Len(s) \in Nat
      /\ DOMAIN s = 1..Len(s)
      /\ i \in 1..Len(s)
      /\ \A j \in 1..Len(s) : s[j] \in S
  BY LenProperties, ElementOfSeq
<1>2. /\ a \in Seq(S)
      /\ Len(a) = i - 1
      /\ \A j \in 1..(i - 1) : a[j] = s[j]
  <2>1. \A j \in 1..(i - 1) : s[j] \in S
    BY <1>1
  <2>2. /\ a \in Seq(S)
        /\ Len(a) = IF 1 <= i - 1 THEN i - 1 - 1 + 1 ELSE 0
        /\ \A j \in 1..(i - 1 - 1 + 1) : a[j] = s[1 + j - 1]
    BY <1>1, <2>1, SubSeqProperties
  <2> HIDE DEF a
  <2> QED BY <1>1, <2>2, SMT
<1>3. /\ b \in Seq(S)
      /\ Len(b) = Len(s) - i
      /\ \A j \in 1..(Len(s) - i) : b[j] = s[i + j]
  <2>1. \A j \in (i + 1)..Len(s) : s[j] \in S
    BY <1>1
  <2>2. /\ b \in Seq(S)
        /\ Len(b) = IF i + 1 <= Len(s) THEN Len(s) - (i + 1) + 1 ELSE 0
        /\ \A j \in 1..(Len(s) - (i + 1) + 1) : b[j] = s[(i + 1) + j - 1]
    BY <1>1, <2>1, SubSeqProperties
  <2> HIDE DEF b
  <2>3. Len(b) = Len(s) - i
    BY <1>1, <2>2, SMT
  <2>4. ASSUME NEW j \in 1..(Len(s) - i) PROVE b[j] = s[i + j]
    <3>1. /\ j \in 1..(Len(s) - (i + 1) + 1)
          /\ (i + 1) + j - 1 = i + j
      BY <1>1, SMT
    <3>2. b[j] = s[(i + 1) + j - 1]
      BY <2>2, <3>1
    <3> QED BY <3>1, <3>2
  <2> QED BY <2>2, <2>3, <2>4
<1> HIDE DEF a, b
<1>4. /\ a \o b \in Seq(S)
      /\ Len(a \o b) = Len(a) + Len(b)
      /\ \A j \in 1..(Len(a) + Len(b)) :
           (a \o b)[j] = IF j <= Len(a) THEN a[j] ELSE b[j - Len(a)]
  BY <1>2, <1>3, ConcatProperties
<1>5. RemoveAt(s, i) = a \o b
  BY DEF RemoveAt, a, b
<1>6. Len(a) + Len(b) = Len(s) - 1
  BY <1>1, <1>2, <1>3, SMT
<1>7. ASSUME NEW j \in 1..(Len(s) - 1)
      PROVE  (a \o b)[j] = IF j < i THEN s[j] ELSE s[j + 1]
  <2>1. (a \o b)[j] = IF j <= i - 1 THEN a[j] ELSE b[j - (i - 1)]
    BY <1>2, <1>4, <1>6
  <2>2. CASE j < i
    <3>1. j \in 1..(i - 1) /\ j <= i - 1
      BY <1>1, <2>2, SMT
    <3> QED BY <1>2, <2>1, <2>2, <3>1
  <2>3. CASE ~(j < i)
    <3>1. /\ ~(j <= i - 1)
          /\ j - (i - 1) \in 1..(Len(s) - i)
          /\ i + (j - (i - 1)) = j + 1
      BY <1>1, <2>3, SMT
    <3> QED BY <1>3, <2>1, <2>3, <3>1
  <2> QED BY <2>2, <2>3
<1> QED BY <1>4, <1>5, <1>6, <1>7

\* Removing a position of a duplicate-free sequence removes exactly its element.
LEMMA RemoveAtElements ==
  ASSUME NEW S, NEW s \in Seq(S), NEW i \in DOMAIN s, Distinct(s)
  PROVE  /\ Distinct(RemoveAt(s, i))
         /\ ToSet(RemoveAt(s, i)) = ToSet(s) \ {s[i]}
<1> DEFINE r == RemoveAt(s, i)
<1>1. /\ r \in Seq(S)
      /\ Len(r) = Len(s) - 1
      /\ \A j \in 1..(Len(s) - 1) : r[j] = IF j < i THEN s[j] ELSE s[j + 1]
  BY RemoveAtProperties
<1>2. /\ Len(s) \in Nat
      /\ DOMAIN s = 1..Len(s)
      /\ DOMAIN r = 1..(Len(s) - 1)
      /\ i \in 1..Len(s)
  BY <1>1, LenProperties
<1> HIDE DEF r
<1>3. Distinct(r)
  BY <1>1, <1>2, SMTT(40) DEF Distinct
<1>4. ToSet(r) \subseteq ToSet(s) \ {s[i]}
  BY <1>1, <1>2, SMT DEF ToSet, Distinct
<1>5. ASSUME NEW x \in ToSet(s) \ {s[i]}
      PROVE  x \in ToSet(r)
  <2>1. PICK j \in 1..Len(s) : s[j] = x /\ j # i
    BY <1>2, <1>5 DEF ToSet
  <2>2. CASE j < i
    <3>1. j \in 1..(Len(s) - 1) /\ r[j] = s[j]
      BY <1>1, <1>2, <2>2, SMT
    <3> QED BY <1>2, <2>1, <3>1 DEF ToSet
  <2>3. CASE j > i
    <3>1. j - 1 \in 1..(Len(s) - 1) /\ r[j - 1] = s[j]
      BY <1>1, <1>2, <2>1, <2>3, SMT
    <3> QED BY <1>2, <2>1, <3>1 DEF ToSet
  <2> QED BY <1>2, <2>1, <2>2, <2>3, SMT
<1> QED BY <1>3, <1>4, <1>5 DEF r

\* An element of a sequence has a first position.
LEMMA FirstPosition ==
  ASSUME NEW S, NEW s \in Seq(S), NEW e \in ToSet(s)
  PROVE  \E i \in DOMAIN s : s[i] = e /\ \A j \in 1..(i - 1) : s[j] # e
<1> DEFINE P == {i \in DOMAIN s : s[i] = e}
<1>1. Len(s) \in Nat /\ DOMAIN s = 1..Len(s)
  BY LenProperties
<1>2. P # {} /\ P \subseteq Nat
  BY <1>1, SMT DEF ToSet
<1>3. PICK i \in P : \A j \in P : ~(<<j, i>> \in OpToRel(<, Nat))
  <2>1. \E i \in P : \A j \in P : ~(<<j, i>> \in OpToRel(<, Nat))
    <3> HIDE DEF P
    <3> QED BY <1>2, NatLessThanWellFounded, WFMin
  <2> QED BY <2>1
<1>4. \A j \in P : ~(j < i)
  BY <1>2, <1>3 DEF OpToRel
<1>5. \A j \in 1..(i - 1) : j \in DOMAIN s /\ j < i
  BY <1>1, SMT
<1> QED BY <1>4, <1>5

-----------------------------------------------------------------------------
\* Types

\* WithoutFirst removes a position that holds the key.
LEMMA WithoutFirstRemoves ==
  ASSUME NEW S, NEW l \in Seq(S), NEW k \in ToSet(l)
  PROVE  \E i \in DOMAIN l : l[i] = k /\ WithoutFirst(k, l) = RemoveAt(l, i)
<1>1. \E i \in DOMAIN l : l[i] = k /\ \A j \in 1..(i - 1) : l[j] # k
  BY FirstPosition
<1> DEFINE n == CHOOSE i \in DOMAIN l : l[i] = k /\ \A j \in 1..(i - 1) : l[j] # k
<1>2. n \in DOMAIN l /\ l[n] = k
  BY <1>1
<1>3. WithoutFirst(k, l) = RemoveAt(l, n)
  BY DEF WithoutFirst
<1> QED BY <1>2, <1>3

\* A tick keeps an element an element.
LEMMA OlderType ==
  ASSUME NEW e \in Element \cup {Nil}
  PROVE  /\ Older(e) \in Element \cup {Nil}
         /\ Older(e) = Nil <=> e = Nil
         /\ e # Nil /\ e.ttl < 0 => Older(e) = e
BY NilAssumption, SMT DEF Older, Element

\* The send of a request keeps the channels well typed.
LEMMA SendSetType ==
  ASSUME TypeOK, NEW c \in Callers, NEW r \in SetRequest, SendSet(c, r)
  PROVE  /\ chSet' \in Seq(SetRequest)
         /\ setWaiters' \in Seq(Callers)
         /\ UNCHANGED <<chRemove, removeWaiters>>
BY AppendProperties DEF TypeOK, SendSet

LEMMA SendRemoveType ==
  ASSUME TypeOK, NEW c \in Callers, NEW k \in Keys, SendRemove(c, k)
  PROVE  /\ chRemove' \in Seq(Keys)
         /\ removeWaiters' \in Seq(Callers)
         /\ UNCHANGED <<chSet, setWaiters>>
BY AppendProperties DEF TypeOK, SendRemove

LEMMA ReleasedType ==
  ASSUME NEW w \in Seq(Callers)
  PROVE  Released(w) \in Seq(Callers)
BY HeadTailProperties DEF Released

LEMMA InitTypeOK == Init => TypeOK
<1> SUFFICES ASSUME Init PROVE TypeOK
  OBVIOUS
<1>1. /\ << >> \in Seq(Keys) /\ << >> \in Seq(SetRequest) /\ << >> \in Seq(Callers)
      /\ CheckInterval \in 0..CheckInterval
  BY CheckIntervalAssumption, SMT
<1> QED BY <1>1 DEF Init, TypeOK

\* A key that a lookup finds has an element (so that Renew reads a value).
LEMMA HitHasElement ==
  ASSUME TypeOK, ListMirrorsMap, NEW k \in Keys,
         {"hit", "nil"} \cap LookupOutcomes(k) # {}
  PROVE  element[k] # Nil
<1>1. CASE mapWrite = Nil
  BY <1>1 DEF LookupOutcomes, ListMirrorsMap, ElementsExist
<1>2. CASE mapWrite # Nil
  <2>1. k \in elementsMap \/ k = mapWrite.key
    BY <1>2 DEF LookupOutcomes
  <2>2. mapWrite \in MapWrite
    BY <1>2 DEF TypeOK
  <2>3. k \in elementsMap \/ k \in ToSet(elements)
    BY <1>2, <2>1, <2>2 DEF ListMirrorsMap, ListAheadOfMap
  <2> QED BY <2>3 DEF ListMirrorsMap, ElementsExist, Alive
<1> QED BY <1>1, <1>2

\* Every step of a caller, of process and of the clock keeps the types.
LEMMA NextTypeOK == TypeOK /\ ListMirrorsMap /\ [Next]_vars => TypeOK'
<1> SUFFICES ASSUME TypeOK, ListMirrorsMap, [Next]_vars
             PROVE  TypeOK'
  OBVIOUS
<1>1. ASSUME NEW c \in Callers, NEW r \in SetRequest, Set(c, r)
      PROVE  TypeOK'
  BY <1>1, SendSetType DEF TypeOK, Set, store, calls, loop
<1>2. ASSUME NEW c \in Callers, NEW k \in Keys, LookupFatal(c, k)
      PROVE  TypeOK'
  BY <1>2 DEF TypeOK, LookupFatal, store, channels, calls, loop
<1>3. ASSUME NEW c \in Callers, NEW k \in Keys, DeleteGet(c, k)
      PROVE  TypeOK'
  BY <1>3 DEF TypeOK, DeleteGet, store, channels, loop
<1>4. ASSUME NEW c \in Callers, NEW k \in Keys, NEW life \in LifeTimes, RenewGet(c, k, life)
      PROVE  TypeOK'
  <2>1. element[k] \in Element
    BY <1>4, HitHasElement DEF TypeOK, RenewGet
  <2>2. [key |-> k, value |-> element[k].value, life |-> life] \in SetRequest
    BY <2>1 DEF SetRequest, Element
  <2> QED BY <1>4, <2>2 DEF TypeOK, RenewGet, store, channels, loop
<1>5. ASSUME NEW c \in Callers, RenewSet(c)
      PROVE  TypeOK'
  <2>1. renewing[c] \in SetRequest
    BY <1>5 DEF TypeOK, RenewSet
  <2> QED BY <1>5, <2>1, SendSetType DEF TypeOK, RenewSet, store, loop
<1>6. ASSUME NEW c \in Callers, DeleteSend(c)
      PROVE  TypeOK'
  <2>1. deleting[c] \in Keys
    BY <1>6 DEF TypeOK, DeleteSend
  <2> QED BY <1>6, <2>1, SendRemoveType DEF TypeOK, DeleteSend, store, loop
<1>7. CASE ProcSet
  <2> DEFINE r == Head(chSet)
  <2>1. r \in SetRequest /\ chSet' \in Seq(SetRequest)
    BY <1>7, HeadTailProperties DEF TypeOK, ProcSet
  <2>2. setWaiters' \in Seq(Callers)
    BY <1>7, ReleasedType DEF TypeOK, ProcSet
  <2>3. /\ r.key \in Keys
        /\ [value |-> r.value, ttl |-> r.life] \in Element
        /\ [op |-> "insert", key |-> r.key] \in MapWrite
    BY <2>1, LifeTimesAssumption DEF SetRequest, Element, MapWrite
  <2>4. element' \in [Keys -> Element \cup {Nil}]
    BY <1>7, <2>3 DEF TypeOK, ProcSet, Stored
  <2>5. elements' \in Seq(Keys) /\ mapWrite' \in MapWrite \cup {Nil}
    <3>1. Append(elements, r.key) \in Seq(Keys)
      BY <2>3, AppendProperties DEF TypeOK
    <3> QED BY <1>7, <2>3, <3>1 DEF TypeOK, ProcSet
  <2>6. timer' \in 0..CheckInterval
    BY <1>7, CheckIntervalAssumption DEF TypeOK, ProcSet, Rearm
  <2> QED BY <1>7, <2>1, <2>2, <2>4, <2>5, <2>6 DEF TypeOK, ProcSet, calls
<1>8. CASE ProcRemove
  <2> DEFINE k == Head(chRemove)
  <2>1. k \in Keys /\ chRemove' \in Seq(Keys)
    BY <1>8, HeadTailProperties DEF TypeOK, ProcRemove, RemoveReady
  <2>2. removeWaiters' \in Seq(Callers)
    BY <1>8, ReleasedType DEF TypeOK, ProcRemove
  <2>3. elements' \in Seq(Keys)
    <3>1. WithoutFirst(k, elements) \in Seq(Keys)
      <4>1. CASE k \in ToSet(elements)
        BY <4>1, WithoutFirstRemoves, RemoveAtProperties DEF TypeOK
      <4>2. CASE k \notin ToSet(elements)
        BY <4>2 DEF WithoutFirst, TypeOK
      <4> QED BY <4>1, <4>2
    <3> QED BY <1>8, <3>1 DEF TypeOK, ProcRemove
  <2>4. mapWrite' \in MapWrite \cup {Nil}
    BY <1>8, <2>1 DEF TypeOK, ProcRemove, MapWrite
  <2>5. timer' \in 0..CheckInterval
    BY <1>8, CheckIntervalAssumption DEF TypeOK, ProcRemove, Rearm
  <2> QED BY <1>8, <2>1, <2>2, <2>3, <2>4, <2>5 DEF TypeOK, ProcRemove, calls
<1>9. CASE ProcTimer
  BY <1>9, CheckIntervalAssumption DEF TypeOK, ProcTimer, Rearm, store, channels, calls
<1>10. CASE SweepStep
  <2>1. PICK i \in DOMAIN elements :
          /\ elements' = RemoveAt(elements, i)
          /\ mapWrite' = [op |-> "expire", key |-> elements[i]]
          /\ victims' = victims \ {elements[i]}
    BY <1>10 DEF SweepStep
  <2>2. elements[i] \in Keys /\ elements' \in Seq(Keys)
    BY <2>1, RemoveAtProperties, ElementOfSeq, LenProperties DEF TypeOK
  <2>3. mapWrite' \in MapWrite
    BY <2>1, <2>2 DEF MapWrite
  <2> QED BY <1>10, <2>1, <2>2, <2>3 DEF TypeOK, SweepStep, channels, calls
<1>11. CASE FinishWrite
  <2>1. mapWrite \in MapWrite
    BY <1>11 DEF TypeOK, FinishWrite
  <2>2. mapWrite.key \in Keys
    BY <2>1 DEF MapWrite
  <2>3. timer' \in 0..CheckInterval
    BY <1>11, CheckIntervalAssumption DEF TypeOK, FinishWrite, Rearm
  <2> QED BY <1>11, <2>2, <2>3 DEF TypeOK, FinishWrite, channels, calls
<1>12. CASE Tick
  <2>1. element' \in [Keys -> Element \cup {Nil}]
    BY <1>12, OlderType DEF TypeOK, Tick
  <2>2. timer' \in 0..CheckInterval
    BY <1>12, CheckIntervalAssumption, SMT DEF TypeOK, Tick, Countdown
  <2> QED BY <1>12, <2>1, <2>2 DEF TypeOK, Tick, channels, calls
<1>13. CASE UNCHANGED vars
  BY <1>13 DEF TypeOK, vars, store, channels, calls, loop
<1> QED
  BY <1>1, <1>2, <1>3, <1>4, <1>5, <1>6, <1>7, <1>8, <1>9, <1>10, <1>11, <1>12, <1>13
  DEF Next, Call, Process

-----------------------------------------------------------------------------
\* The inductive invariant

\* What cleanup has decided to remove stays expired until it is removed: no
\* Set or Renew lands on an element between the sweep's reading of the clock
\* (line 64) and the element's removal, however many callers are queued.
VictimsExpired ==
    /\ \A k \in victims : Expired(k)
    /\ mapWrite # Nil /\ mapWrite.op = "expire" => element[mapWrite.key].ttl < 0

IInv == TypeOK /\ ListMirrorsMap /\ VictimsExpired

LEMMA InitIInv == Init => IInv
<1> SUFFICES ASSUME Init PROVE IInv
  OBVIOUS
<1>1. TypeOK
  BY InitTypeOK
<1>2. ToSet(elements) = {}
  BY DEF Init, ToSet
<1>3. ListMirrorsMap
  <2>1. elements = << >> /\ DOMAIN elements = {}
    BY DEF Init
  <2> QED BY <1>2, <2>1 DEF Init, ListMirrorsMap, NoDuplicates, ListAheadOfMap, ElementsExist, Alive
<1>4. VictimsExpired
  BY NilAssumption DEF Init, VictimsExpired
<1> QED BY <1>1, <1>3, <1>4 DEF IInv

\* The three other parts of the invariant look at these variables only.
LEMMA StoreUnchanged ==
  ASSUME IInv, UNCHANGED <<store, mapWrite, victims>>
  PROVE  (ListMirrorsMap /\ VictimsExpired)'
BY DEF IInv, ListMirrorsMap, NoDuplicates, ListAheadOfMap, ElementsExist,
       Alive, VictimsExpired, Expired, store

\* process takes a Set: at its select nothing is half done.
LEMMA ProcSetKeeps ==
  ASSUME IInv, ProcSet
  PROVE  (ListMirrorsMap /\ VictimsExpired)'
<1> DEFINE r == Head(chSet)
<1>1. /\ r.key \in Keys
      /\ [value |-> r.value, ttl |-> r.life] # Nil
      /\ element' = [element EXCEPT ![r.key] = [value |-> r.value, ttl |-> r.life]]
      /\ UNCHANGED <<elementsMap, victims>>
      /\ mapWrite = Nil /\ victims = {}
  <2>1. r \in SetRequest
    BY HeadTailProperties DEF IInv, TypeOK, ProcSet
  <2>2. [value |-> r.value, ttl |-> r.life] \in Element
    BY <2>1, LifeTimesAssumption DEF SetRequest, Element
  <2> QED BY <2>1, <2>2, NilAssumption DEF SetRequest, ProcSet, Stored, AtSelect
<1>2. ToSet(elements) = elementsMap
  BY <1>1 DEF IInv, ListMirrorsMap, ListAheadOfMap
<1> HIDE DEF r
<1>3. CASE r.key \in elementsMap /\ UNCHANGED <<elements, mapWrite>>
  <2>1. ListMirrorsMap'
    BY <1>1, <1>2, <1>3
    DEF IInv, TypeOK, ListMirrorsMap, NoDuplicates, ListAheadOfMap, ElementsExist, Alive
  <2>2. VictimsExpired'
    BY <1>1, <1>3, NilAssumption DEF VictimsExpired
  <2> QED BY <2>1, <2>2
<1>4. CASE /\ r.key \notin elementsMap
           /\ elements' = Append(elements, r.key)
           /\ mapWrite' = [op |-> "insert", key |-> r.key]
  <2>1. /\ ToSet(elements') = ToSet(elements) \cup {r.key}
        /\ NoDuplicates'
    <3>1. /\ ToSet(Append(elements, r.key)) = ToSet(elements) \cup {r.key}
          /\ Distinct(Append(elements, r.key))
      <4>1. Distinct(elements) /\ elements \in Seq(Keys)
        BY DEF IInv, TypeOK, ListMirrorsMap, NoDuplicates, Distinct
      <4> QED BY <1>1, <1>2, <1>4, <4>1, AppendElements
    <3> QED BY <1>4, <3>1 DEF NoDuplicates, Distinct
  <2>2. /\ mapWrite' \in MapWrite /\ mapWrite' # Nil
        /\ mapWrite'.op = "insert" /\ mapWrite'.key = r.key
    BY <1>1, <1>4, NilAssumption DEF MapWrite
  <2>3. ListAheadOfMap'
    BY <1>1, <1>2, <1>4, <2>1, <2>2 DEF ListAheadOfMap
  <2>4. ElementsExist'
    BY <1>1, <1>2, <1>4, <2>1 DEF IInv, TypeOK, ListMirrorsMap, ElementsExist, Alive
  <2>5. VictimsExpired'
    BY <1>1, <2>2 DEF VictimsExpired
  <2> QED BY <2>1, <2>3, <2>4, <2>5 DEF ListMirrorsMap
<1> QED
  BY <1>3, <1>4 DEF ProcSet, InPlace, r

\* A key that leaves the list while its map delete starts.
LEMMA UnlinkKeeps ==
  ASSUME IInv, NEW i \in DOMAIN elements, mapWrite = Nil,
         elements' = RemoveAt(elements, i),
         mapWrite' \in MapWrite, mapWrite'.op # "insert", mapWrite'.key = elements[i],
         UNCHANGED <<elementsMap, element>>
  PROVE  /\ ListMirrorsMap'
         /\ ToSet(elements') = ToSet(elements) \ {elements[i]}
<1>1. /\ ToSet(elements') = ToSet(elements) \ {elements[i]}
      /\ NoDuplicates'
  <2>1. Distinct(elements) /\ elements \in Seq(Keys)
    BY DEF IInv, TypeOK, ListMirrorsMap, NoDuplicates, Distinct
  <2>2. /\ Distinct(RemoveAt(elements, i))
        /\ ToSet(RemoveAt(elements, i)) = ToSet(elements) \ {elements[i]}
    BY <2>1, RemoveAtElements
  <2> QED BY <2>2 DEF NoDuplicates, Distinct
<1>2. /\ ToSet(elements) = elementsMap
      /\ elements[i] \in elementsMap
  BY DEF IInv, ListMirrorsMap, ListAheadOfMap, ToSet
<1>3. ListAheadOfMap'
  BY <1>1, <1>2, NilAssumption DEF ListAheadOfMap
<1>4. ElementsExist'
  BY <1>1, <1>2 DEF IInv, ListMirrorsMap, ElementsExist, Alive
<1> QED BY <1>1, <1>3, <1>4 DEF ListMirrorsMap

LEMMA ProcRemoveKeeps ==
  ASSUME IInv, ProcRemove
  PROVE  (ListMirrorsMap /\ VictimsExpired)'
<1> DEFINE k == Head(chRemove)
<1>1. /\ k \in Keys
      /\ mapWrite = Nil /\ victims = {}
      /\ UNCHANGED <<elementsMap, element, victims>>
  BY HeadTailProperties DEF IInv, TypeOK, ProcRemove, RemoveReady, AtSelect
<1> HIDE DEF k
<1>2. CASE k \notin elementsMap /\ UNCHANGED <<elements, mapWrite>>
  BY <1>1, <1>2, StoreUnchanged DEF store
<1>3. CASE /\ k \in elementsMap
           /\ elements' = WithoutFirst(k, elements)
           /\ mapWrite' = [op |-> "remove", key |-> k]
  <2>1. k \in ToSet(elements) /\ elements \in Seq(Keys)
    BY <1>1, <1>3 DEF IInv, TypeOK, ListMirrorsMap, ListAheadOfMap
  <2>2. PICK i \in DOMAIN elements : elements[i] = k /\ elements' = RemoveAt(elements, i)
    BY <1>3, <2>1, WithoutFirstRemoves
  <2>3. mapWrite' \in MapWrite /\ mapWrite'.op = "remove" /\ mapWrite'.key = k
    BY <1>1, <1>3 DEF MapWrite
  <2>4. ListMirrorsMap'
    BY <1>1, <2>2, <2>3, UnlinkKeeps
  <2>5. VictimsExpired'
    BY <1>1, <2>3 DEF VictimsExpired
  <2> QED BY <2>4, <2>5
<1> QED BY <1>2, <1>3 DEF ProcRemove, Removes, k

LEMMA ProcTimerKeeps ==
  ASSUME IInv, ProcTimer
  PROVE  (ListMirrorsMap /\ VictimsExpired)'
<1>1. ListMirrorsMap'
  BY DEF IInv, ProcTimer, store, ListMirrorsMap, NoDuplicates, ListAheadOfMap,
         ElementsExist, Alive
<1>2. VictimsExpired'
  BY DEF ProcTimer, AtSelect, store, VictimsExpired, Expired, Alive
<1> QED BY <1>1, <1>2

LEMMA SweepStepKeeps ==
  ASSUME IInv, SweepStep
  PROVE  (ListMirrorsMap /\ VictimsExpired)'
<1>1. PICK i \in DOMAIN elements :
        /\ elements[i] \in victims
        /\ elements' = RemoveAt(elements, i)
        /\ mapWrite' = [op |-> "expire", key |-> elements[i]]
        /\ victims' = victims \ {elements[i]}
  BY DEF SweepStep
<1>2. mapWrite = Nil /\ UNCHANGED <<elementsMap, element>>
  BY DEF SweepStep
<1>3. mapWrite' \in MapWrite /\ mapWrite'.op = "expire" /\ mapWrite'.key = elements[i]
  BY <1>1 DEF IInv, TypeOK, MapWrite
<1>4. /\ ListMirrorsMap'
      /\ ToSet(elements') = ToSet(elements) \ {elements[i]}
  BY <1>1, <1>2, <1>3, UnlinkKeeps
<1>5. VictimsExpired'
  BY <1>1, <1>2, <1>3, <1>4 DEF IInv, VictimsExpired, Expired, Alive
<1> QED BY <1>4, <1>5

LEMMA FinishWriteKeeps ==
  ASSUME IInv, FinishWrite
  PROVE  (ListMirrorsMap /\ VictimsExpired)'
<1> DEFINE k == mapWrite.key
<1>1. /\ mapWrite # Nil /\ mapWrite' = Nil
      /\ k \in Keys
      /\ UNCHANGED <<elements, victims>>
  BY DEF IInv, TypeOK, FinishWrite, MapWrite
<1>2. CASE mapWrite.op = "insert"
  <2>1. elementsMap' = elementsMap \cup {k} /\ element' = element
    BY <1>2 DEF FinishWrite
  <2> QED
    BY <1>1, <1>2, <2>1 DEF IInv, ListMirrorsMap, NoDuplicates, ListAheadOfMap,
       ElementsExist, Alive, VictimsExpired, Expired
<1>3. CASE mapWrite.op # "insert"
  <2>1. elementsMap' = elementsMap \ {k} /\ element' = [element EXCEPT ![k] = Nil]
    BY <1>3 DEF FinishWrite
  <2>2. k \in elementsMap /\ ToSet(elements) = elementsMap \ {k}
    BY <1>1, <1>3 DEF IInv, ListMirrorsMap, ListAheadOfMap
  <2>3. ListMirrorsMap'
    BY <1>1, <2>1, <2>2 DEF IInv, TypeOK, ListMirrorsMap, NoDuplicates, ListAheadOfMap,
       ElementsExist, Alive
  <2>4. VictimsExpired'
    BY <1>1, <2>1, <2>2 DEF IInv, TypeOK, VictimsExpired, Expired, Alive
  <2> QED BY <2>3, <2>4
<1> QED BY <1>2, <1>3

\* The clock ages elements: it creates none and revives none.
LEMMA TickKeeps ==
  ASSUME IInv, Tick
  PROVE  (ListMirrorsMap /\ VictimsExpired)'
<1>1. /\ element' = [k \in Keys |-> Older(element[k])]
      /\ UNCHANGED <<elements, elementsMap, mapWrite, victims>>
  BY DEF Tick
<1>2. \A k \in Keys : /\ element'[k] = Nil <=> element[k] = Nil
                      /\ element[k] # Nil /\ element[k].ttl < 0 => element'[k] = element[k]
  BY <1>1, OlderType DEF IInv, TypeOK
<1>3. ListMirrorsMap'
  BY <1>1, <1>2 DEF IInv, ListMirrorsMap, NoDuplicates, ListAheadOfMap, ElementsExist, Alive
<1>4. ASSUME NEW k \in victims PROVE Expired(k)'
  <2>1. k \in Keys /\ Alive(k) /\ element[k].ttl < 0 /\ element[k] # Nil
    BY <1>4 DEF IInv, TypeOK, VictimsExpired, Expired, ListMirrorsMap, ElementsExist
  <2> QED BY <1>1, <1>2, <2>1 DEF Expired, Alive
<1>5. ASSUME mapWrite # Nil, mapWrite.op = "expire"
      PROVE  element'[mapWrite.key].ttl < 0
  <2>1. mapWrite.key \in Keys /\ mapWrite.key \in elementsMap
    BY <1>5 DEF IInv, TypeOK, MapWrite, ListMirrorsMap, ListAheadOfMap
  <2>2. element[mapWrite.key].ttl < 0 /\ element[mapWrite.key] # Nil
    BY <1>5, <2>1 DEF IInv, VictimsExpired, ListMirrorsMap, ElementsExist
  <2> QED BY <1>2, <2>1, <2>2
<1>6. VictimsExpired'
  BY <1>1, <1>4, <1>5 DEF VictimsExpired
<1> QED BY <1>3, <1>6

LEMMA NextIInv == IInv /\ [Next]_vars => IInv'
<1> SUFFICES ASSUME IInv, [Next]_vars
             PROVE  IInv'
  OBVIOUS
<1>1. TypeOK'
  BY NextTypeOK DEF IInv
<1>2. ASSUME NEW c \in Callers, Call(c)
      PROVE  (ListMirrorsMap /\ VictimsExpired)'
  <2>1. UNCHANGED <<store, mapWrite, victims>>
    BY <1>2 DEF Call, Set, LookupFatal, DeleteGet, RenewGet, RenewSet, DeleteSend, loop
  <2> QED BY <2>1, StoreUnchanged
<1>3. ASSUME UNCHANGED vars
      PROVE  (ListMirrorsMap /\ VictimsExpired)'
  BY <1>3, StoreUnchanged DEF vars, loop
<1>4. (ListMirrorsMap /\ VictimsExpired)'
  BY <1>2, <1>3, ProcSetKeeps, ProcRemoveKeeps, ProcTimerKeeps, SweepStepKeeps,
     FinishWriteKeeps, TickKeeps DEF Next, Process
<1> QED BY <1>1, <1>4 DEF IInv

LEMMA InvariantIInv == Spec => []IInv
BY InitIInv, NextIInv, PTL DEF Spec

-----------------------------------------------------------------------------
\* The results

\* The variables keep their types in every reachable state.
THEOREM TypeCorrectness == Spec => []TypeOK
BY InvariantIInv, PTL DEF IInv

\* List and map of the cache hold the same keys, but for the one map write in
\* progress; no key is twice in the list.
THEOREM ListAndMapAgree == Spec => []ListMirrorsMap
BY InvariantIInv, PTL DEF IInv

\* No lease is renewed between the moment cleanup condemns it and its removal.
THEOREM SweepIsSafe == Spec => []VictimsExpired
BY InvariantIInv, PTL DEF IInv

\* No key leaves the map while its lease runs, unless a Delete asked for it.
THEOREM LiveEntriesStay == Spec => NoLiveEviction
<1>1. IInv /\ [Next]_vars => [\A k \in elementsMap \ elementsMap' :
                                mapWrite.op = "remove" \/ element[k].ttl < 0]_vars
  <2> SUFFICES ASSUME IInv, Next, NEW k \in elementsMap, k \notin elementsMap'
               PROVE  mapWrite.op = "remove" \/ element[k].ttl < 0
    OBVIOUS
  <2>1. FinishWrite
    BY DEF Next, Call, Process, Set, LookupFatal, DeleteGet, RenewGet, RenewSet, DeleteSend,
           ProcSet, ProcRemove, ProcTimer, SweepStep, Tick, store
  <2>2. mapWrite # Nil /\ mapWrite.op # "insert" /\ k = mapWrite.key
    BY <2>1 DEF FinishWrite
  <2>3. mapWrite.op \in {"remove", "expire"}
    BY <2>2 DEF IInv, TypeOK, MapWrite
  <2> QED BY <2>2, <2>3 DEF IInv, VictimsExpired
<1> QED BY <1>1, InvariantIInv, PTL DEF Spec, NoLiveEviction

-----------------------------------------------------------------------------
\* ObjectCache implements LeaseTable

\* A step that touches neither list, elements nor channels is a stutter.
LEMMA TableStutters ==
  ASSUME UNCHANGED <<elements, element, chSet, chRemove>>
  PROVE  UNCHANGED Table!tableVars
BY DEF Table!tableVars, Alive

\* Initial states map to initial states.
LEMMA TableInit == Init => Table!Init
<1> SUFFICES ASSUME Init PROVE Table!Init
  OBVIOUS
<1>1. \A k \in Keys : ~Alive(k)
  BY DEF Init, Alive, ToSet
<1> QED BY <1>1 DEF Init, Table!Init

\* A send posts the request and leaves the table alone.
LEMMA SetRequestsPut ==
  ASSUME NEW c \in Callers, NEW r \in SetRequest, SendSet(c, r), UNCHANGED store
  PROVE  Table!Next
<1>1. r \in Table!PutRequest
  BY DEF SetRequest, Table!PutRequest
<1>2. Table!RequestPut(r)
  BY DEF Table!RequestPut, SendSet, store, Alive
<1> QED BY <1>1, <1>2 DEF Table!Next

LEMMA DeleteRequestsDrop ==
  ASSUME NEW c \in Callers, NEW k \in Keys, SendRemove(c, k), UNCHANGED store
  PROVE  Table!Next
<1>1. Table!RequestDrop(k)
  BY DEF Table!RequestDrop, SendRemove, store, Alive
<1> QED BY <1>1 DEF Table!Next

\* setInternal gives the key its new value and a full lease.
LEMMA ProcSetAppliesPut ==
  ASSUME IInv, ProcSet
  PROVE  Table!Next
<1> DEFINE r == Head(chSet)
           e == [value |-> r.value, ttl |-> r.life]
<1>1. /\ r.key \in Keys
      /\ element' = [element EXCEPT ![r.key] = e]
      /\ chSet # << >> /\ chSet' = Tail(chSet) /\ chRemove' = chRemove
  <2>1. r \in SetRequest
    BY HeadTailProperties DEF IInv, TypeOK, ProcSet
  <2> QED BY <2>1 DEF ProcSet, Stored, SetRequest
<1>2. ToSet(elements') = ToSet(elements) \cup {r.key}
  <2>1. ToSet(elements) = elementsMap
    BY DEF IInv, ListMirrorsMap, ListAheadOfMap, ProcSet, AtSelect
  <2>2. CASE r.key \in elementsMap /\ elements' = elements
    BY <2>1, <2>2
  <2>3. CASE elements' = Append(elements, r.key)
    BY <1>1, <2>3, AppendElements DEF IInv, TypeOK
  <2> QED BY <2>2, <2>3 DEF ProcSet, InPlace
<1> HIDE DEF r, e
<1>3. \A k \in Keys : /\ Alive(k)' <=> Alive(k) \/ k = r.key
                      /\ element'[k] = IF k = r.key THEN e ELSE element[k]
  BY <1>1, <1>2 DEF Alive, IInv, TypeOK
<1> DEFINE before == [k \in Keys |-> IF Alive(k) THEN element[k] ELSE Nil]
           after  == [k \in Keys |-> IF Alive(k)' THEN element'[k] ELSE Nil]
<1>4. after = [before EXCEPT ![r.key] = e]
  BY <1>1, <1>3
<1> HIDE DEF before, after
<1>5. Table!ApplyPut
  BY <1>1, <1>4 DEF Table!ApplyPut, before, after, r, e
<1> QED BY <1>5 DEF Table!Next

\* removeInternal ends the key's lease, if there is one.
LEMMA ProcRemoveAppliesDrop ==
  ASSUME IInv, ProcRemove
  PROVE  Table!Next
<1> DEFINE h == Head(chRemove)
<1>1. /\ h \in Keys
      /\ element' = element
      /\ chRemove # << >> /\ chRemove' = Tail(chRemove) /\ chSet' = chSet
  BY HeadTailProperties DEF IInv, TypeOK, ProcRemove, RemoveReady
<1>2. ToSet(elements') = ToSet(elements) \ {h}
  <2>1. ToSet(elements) = elementsMap /\ elements \in Seq(Keys) /\ Distinct(elements)
    BY DEF IInv, TypeOK, ListMirrorsMap, NoDuplicates, Distinct, ListAheadOfMap,
           ProcRemove, AtSelect
  <2>2. CASE h \notin elementsMap /\ elements' = elements
    BY <2>1, <2>2
  <2>3. CASE h \in elementsMap /\ elements' = WithoutFirst(h, elements)
    BY <2>1, <2>3, WithoutFirstRemoves, RemoveAtElements
  <2> QED BY <2>2, <2>3 DEF ProcRemove, Removes
<1> HIDE DEF h
<1>3. \A k \in Keys : Alive(k)' <=> Alive(k) /\ k # h
  BY <1>2 DEF Alive
<1> DEFINE before == [k \in Keys |-> IF Alive(k) THEN element[k] ELSE Nil]
           after  == [k \in Keys |-> IF Alive(k)' THEN element'[k] ELSE Nil]
<1>4. after = [before EXCEPT ![h] = Nil]
  BY <1>1, <1>3
<1> HIDE DEF before, after
<1>5. Table!ApplyDrop
  BY <1>1, <1>4 DEF Table!ApplyDrop, before, after, h
<1> QED BY <1>5 DEF Table!Next

\* Each element the sweep removes is a lease whose time is over.
LEMMA SweepStepExpires ==
  ASSUME IInv, SweepStep
  PROVE  Table!Next
<1>1. PICK i \in DOMAIN elements :
        elements[i] \in victims /\ elements' = RemoveAt(elements, i)
  BY DEF SweepStep
<1> PICK h \in Keys : h = elements[i]
  BY DEF IInv, TypeOK
<1>2. /\ Alive(h) /\ element[h].ttl < 0 /\ element[h] # Nil
      /\ UNCHANGED <<element, chSet, chRemove>>
  BY <1>1 DEF IInv, TypeOK, VictimsExpired, Expired, ListMirrorsMap, ElementsExist,
              SweepStep, channels
<1>3. ToSet(elements') = ToSet(elements) \ {h}
  <2>1. elements \in Seq(Keys) /\ Distinct(elements)
    BY DEF IInv, TypeOK, ListMirrorsMap, NoDuplicates, Distinct
  <2> QED BY <1>1, <2>1, RemoveAtElements
<1>4. \A k \in Keys : Alive(k)' <=> Alive(k) /\ k # h
  BY <1>3 DEF Alive
<1> DEFINE before == [k \in Keys |-> IF Alive(k) THEN element[k] ELSE Nil]
           after  == [k \in Keys |-> IF Alive(k)' THEN element'[k] ELSE Nil]
<1>5. /\ after = [before EXCEPT ![h] = Nil]
      /\ before[h] # Nil /\ before[h].ttl < 0
  BY <1>2, <1>4
<1> HIDE DEF before, after
<1>6. Table!Expire(h)
  BY <1>2, <1>5 DEF Table!Expire, before, after
<1> QED BY <1>6 DEF Table!Next

\* The end of a map write does not show in the table.
LEMMA FinishWriteStutters ==
  ASSUME IInv, FinishWrite
  PROVE  UNCHANGED Table!tableVars
<1> DEFINE h == mapWrite.key
<1>1. UNCHANGED <<elements, chSet, chRemove>>
  BY DEF FinishWrite, channels
<1>2. CASE mapWrite.op = "insert"
  BY <1>1, <1>2, TableStutters DEF FinishWrite
<1>3. CASE mapWrite.op # "insert"
  <2>1. h \in Keys /\ ~Alive(h) /\ element' = [element EXCEPT ![h] = Nil]
    BY <1>3 DEF IInv, TypeOK, MapWrite, ListMirrorsMap, ListAheadOfMap, Alive, FinishWrite
  <2>2. \A k \in Keys : Alive(k)' <=> Alive(k)
    BY <1>1 DEF Alive
  <2>3. \A k \in Keys : Alive(k) => element'[k] = element[k]
    BY <2>1 DEF IInv, TypeOK
  <2> QED BY <1>1, <2>2, <2>3 DEF Table!tableVars
<1> QED BY <1>2, <1>3

LEMMA TickTicks ==
  ASSUME IInv, Tick
  PROVE  Table!Next
<1>1. /\ element' = [k \in Keys |-> Older(element[k])]
      /\ UNCHANGED <<elements, chSet, chRemove>>
  BY DEF Tick, channels
<1>2. \A k \in Keys : Alive(k)' <=> Alive(k)
  BY <1>1 DEF Alive
<1>3. \A x : Table!Older(x) = Older(x)
  BY DEF Table!Older, Older
<1>4. Older(Nil) = Nil
  BY DEF Older
<1>5. Table!Tick
  BY <1>1, <1>2, <1>3, <1>4 DEF Table!Tick
<1> QED BY <1>5 DEF Table!Next

\* Every step of the cache is a step of the lease table, or none.
LEMMA TableStep == IInv /\ [Next]_vars => [Table!Next]_(Table!tableVars)
<1> SUFFICES ASSUME IInv, [Next]_vars
             PROVE  Table!Next \/ UNCHANGED Table!tableVars
  OBVIOUS
<1>1. ASSUME NEW c \in Callers, Call(c)
      PROVE  Table!Next \/ UNCHANGED Table!tableVars
  <2>1. ASSUME NEW r \in SetRequest, Set(c, r)
        PROVE  Table!Next
    BY <2>1, SetRequestsPut DEF Set
  <2>2. CASE RenewSet(c)
    <3>1. renewing[c] \in SetRequest
      BY <2>2 DEF IInv, TypeOK, RenewSet
    <3> QED BY <2>2, <3>1, SetRequestsPut DEF RenewSet
  <2>3. CASE DeleteSend(c)
    <3>1. deleting[c] \in Keys
      BY <2>3 DEF IInv, TypeOK, DeleteSend
    <3> QED BY <2>3, <3>1, DeleteRequestsDrop DEF DeleteSend
  <2>4. CASE \E k \in Keys : LookupFatal(c, k) \/ DeleteGet(c, k)
    BY <2>4, TableStutters DEF LookupFatal, DeleteGet, store, channels
  <2>5. CASE \E k \in Keys, life \in LifeTimes : RenewGet(c, k, life)
    BY <2>5, TableStutters DEF RenewGet, store, channels
  <2> QED BY <1>1, <2>1, <2>2, <2>3, <2>4, <2>5 DEF Call
<1>2. CASE ProcTimer
  BY <1>2, TableStutters DEF ProcTimer, store, channels
<1>3. CASE UNCHANGED vars
  BY <1>3, TableStutters DEF vars, store, channels
<1> QED
  BY <1>1, <1>2, <1>3, ProcSetAppliesPut, ProcRemoveAppliesDrop, SweepStepExpires,
     FinishWriteStutters, TickTicks DEF Next, Process

\* The cache implements the lease table: values and leases change only as the
\* requests say, in the order of each channel, and end only when they may.
THEOREM Refinement == Spec => Implements
BY InvariantIInv, TableInit, TableStep, PTL DEF Spec, Implements, Table!Spec

=============================================================================

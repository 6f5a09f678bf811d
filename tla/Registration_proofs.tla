------------------------- MODULE Registration_proofs ------------------------
(***************************************************************************)
(* Registration for every number of requests, keys and invite links, and   *)
(* for every expiry time.                                                  *)
(***************************************************************************)
EXTENDS Registration, SequenceTheorems, TLAPS

\* User r is in the cache, going out of it, or may still be put into it.
Active(r) ==
    \/ r \in Coming(key[r])
    \/ users[key[r]] # Nil /\ users[key[r]].value = r
    \/ userWrite # Nil /\ userWrite.value = r

\* Everything the caches, the guests and the sessions have to do with has a key, and
\* is where its key says.
Stored(r, k) == r \in Requests /\ at[r] = "told" /\ key[r] = k

UsersFit ==
    /\ \A k \in Keys : users[k] # Nil => Stored(users[k].value, k)
    /\ \A i \in 1..Len(userPuts) : Stored(userPuts[i].value, userPuts[i].key)
    /\ userWrite # Nil => Stored(userWrite.value, userWrite.key)

SessionsFit ==
    /\ \A r \in Requests : session[r] # Nil => at[r] = "told" /\ Stored(session[r], key[r])
    /\ \A r \in Requests :
         renewing[r] # Nil => session[r] # Nil /\ Stored(renewing[r], key[r])

GuestsFit ==
    /\ \A r \in Requests : Past(r) => key[r] \in Keys
    /\ \A r \in Requests : at[r] \in {"redirected", "page"} => host[r] \in Keys
    /\ \A r \in Requests : contact[r] # Nil => Past(contact[r])
    /\ \A r \in Requests : at[r] \in {"drawn", "linked"} => link[r] \in SessionIds
    /\ \A l \in SessionIds : links[l] # Nil => Past(links[l].value)
    /\ \A i \in 1..Len(linkPuts) : Past(linkPuts[i].value)
    /\ linkWrite # Nil => Past(linkWrite.value)

Shape == TypeOK /\ UsersFit /\ SessionsFit /\ GuestsFit

\* A user who has not lapsed is about to be stored, or his key is taken.
KeptOrLapsed ==
    \A r \in Requests :
      at[r] = "told" => r \in lapsed \/ Posted(userPuts, r) \/ users[key[r]] # Nil

\* Of two users of one key one came too early to see the other, or one is gone for
\* good: he has lapsed and nothing can bring him back.
GoneForGood(r) == r \in lapsed /\ ~Active(r)

OneAtATime ==
    \A r, s \in Requests :
      r # s /\ Past(r) /\ Past(s) /\ key[r] = key[s]
        => Overlapped(r, s) \/ GoneForGood(r) \/ GoneForGood(s)

UserInv == Shape /\ KeptOrLapsed /\ OneAtATime

\* The owner of a link that is stored, or about to be, comes after his link.
Following(r) == at[r] = "linked" \/ Posted(userPuts, r) \/ r \in late

LinksFit ==
    /\ \A i \in 1..Len(linkPuts) :
         at[linkPuts[i].value] \in {"linked", "told"} /\ Following(linkPuts[i].value)
    /\ \A l \in SessionIds : links[l] # Nil =>
         links[l].ttl <= InviteLinkExpire /\ at[links[l].value] \in {"linked", "told"}

LinkInv == UserInv /\ LinksFit /\ LinkLeadsToUser

-----------------------------------------------------------------------------
(* Mailboxes *)

\* A request that is posted is the last one.
LEMMA PostedAppend ==
  ASSUME NEW S, NEW q \in Seq(S), NEW e \in S
  PROVE  /\ Append(q, e) \in Seq(S)
         /\ \A i \in 1..Len(Append(q, e)) :
              Append(q, e)[i] = e \/ \E j \in 1..Len(q) : Append(q, e)[i] = q[j]
         /\ \A r : Posted(Append(q, e), r) <=> Posted(q, r) \/ e.value = r
<1>1. /\ Append(q, e) \in Seq(S)
      /\ Len(Append(q, e)) = Len(q) + 1
      /\ Append(q, e)[Len(q) + 1] = e
      /\ \A i \in 1..Len(q) : Append(q, e)[i] = q[i]
      /\ Len(q) \in Nat
  OBVIOUS
<1>2. /\ DOMAIN q = 1..Len(q)
      /\ DOMAIN Append(q, e) = 1..(Len(q) + 1)
  BY <1>1
<1>3. \A i \in 1..(Len(q) + 1) : i \in 1..Len(q) \/ i = Len(q) + 1
  BY <1>1
<1>4. 1..Len(q) \subseteq 1..(Len(q) + 1) /\ Len(q) + 1 \in 1..(Len(q) + 1)
  BY <1>1
<1> QED
  BY <1>1, <1>2, <1>3, <1>4, Zenon DEF Posted

\* A request that takes effect was the first one.
LEMMA PostedTail ==
  ASSUME NEW S, NEW q \in Seq(S), q # << >>
  PROVE  /\ Head(q) \in S /\ Tail(q) \in Seq(S)
         /\ 1 \in 1..Len(q) /\ Head(q) = q[1]
         /\ \A i \in 1..Len(Tail(q)) : \E j \in 1..Len(q) : Tail(q)[i] = q[j]
         /\ \A r : Posted(q, r) <=> Posted(Tail(q), r) \/ Head(q).value = r
<1>1. /\ Head(q) \in S /\ Tail(q) \in Seq(S)
      /\ Head(q) = q[1] /\ Len(q) \in Nat /\ Len(q) >= 1
      /\ Len(Tail(q)) = Len(q) - 1
      /\ \A i \in 1..Len(Tail(q)) : Tail(q)[i] = q[i + 1]
  BY HeadTailProperties
<1>2. /\ DOMAIN q = 1..Len(q)
      /\ DOMAIN Tail(q) = 1..Len(Tail(q))
  BY <1>1
<1>3. \A i \in 1..Len(Tail(q)) : i + 1 \in 1..Len(q)
  BY <1>1
<1>4. \A j \in 1..Len(q) : j = 1 \/ \E i \in 1..Len(Tail(q)) : j = i + 1
  <2> SUFFICES ASSUME NEW j \in 1..Len(q), j # 1
               PROVE  j - 1 \in 1..Len(Tail(q)) /\ j = (j - 1) + 1
    OBVIOUS
  <2> QED BY <1>1
<1>5. 1 \in 1..Len(q)
  BY <1>1
<1>6. ASSUME NEW r
      PROVE  Posted(q, r) <=> Posted(Tail(q), r) \/ Head(q).value = r
  <2>1. Posted(q, r) <=> \E j \in 1..Len(q) : q[j].value = r
    BY <1>2 DEF Posted
  <2>2. Posted(Tail(q), r) <=> \E i \in 1..Len(Tail(q)) : Tail(q)[i].value = r
    BY <1>2 DEF Posted
  <2> HIDE DEF Posted
  <2>3. ASSUME NEW j \in 1..Len(q), q[j].value = r
        PROVE  Posted(Tail(q), r) \/ Head(q).value = r
    BY <1>1, <1>4, <2>2, <2>3, Zenon
  <2>4. ASSUME NEW i \in 1..Len(Tail(q)), Tail(q)[i].value = r
        PROVE  Posted(q, r)
    BY <1>1, <1>3, <2>1, <2>4, Zenon
  <2> QED
    BY <1>1, <1>5, <2>1, <2>2, <2>3, <2>4, Zenon
<1>7. \A i \in 1..Len(Tail(q)) : \E j \in 1..Len(q) : Tail(q)[i] = q[j]
  BY <1>1, <1>3, Zenon
<1> QED
  BY <1>1, <1>5, <1>6, <1>7, Zenon

-----------------------------------------------------------------------------
(* Types *)

LEMMA TypeInit == Init => TypeOK
  BY NilAssumption DEF Init, TypeOK, Users!Init, RegistedKeys!Init, Place

LEMMA LifeTimes == /\ SessionExpireMs \in Nat /\ InviteLinkExpireMs \in Nat
                   /\ InviteLinkExpireMs = InviteLinkExpire
  BY ExpireAssumption DEF SessionExpireMs, InviteLinkExpireMs

\* What a lookup may return is a request that has been told, and has the key.
LEMMA SeenUser ==
  ASSUME Shape, NEW k \in Keys, NEW u \in GetUser(k) \ {Nil}
  PROVE  /\ Stored(u, k)
         /\ \/ users[k] # Nil /\ users[k].value = u
            \/ userWrite # Nil /\ userWrite.value = u
  BY DEF Shape, UsersFit, GetUser, Seen, Stored

LEMMA SeenLink ==
  ASSUME Shape, NEW l \in SessionIds, NEW o \in GetLink(l) \ {Nil}
  PROVE  o \in Requests /\ Past(o)
<1>1. /\ links[l] # Nil => links[l].value \in Requests
      /\ linkWrite # Nil => linkWrite.value \in Requests
  BY DEF Shape, TypeOK, RegistedKeys!Lease
<1> QED
  BY <1>1 DEF Shape, GuestsFit, GetLink, Seen

\* A handler's step that sets nothing disturbs neither users nor sessions.
LEMMA OthersFit ==
  ASSUME Shape, UNCHANGED <<users, userPuts, userWrite, key, session, renewing>>,
         \A s \in Requests : at[s] = "told" => at'[s] = "told"
  PROVE  UsersFit' /\ SessionsFit'
<1>1. UsersFit'
  BY DEF Shape, UsersFit, Stored
<1>2. SessionsFit'
  BY DEF Shape, SessionsFit, Stored
<1> QED BY <1>1, <1>2

LEMMA ShapeNext == Shape /\ [Next]_vars => Shape'
<1> SUFFICES ASSUME Shape, [Next]_vars PROVE Shape'
  OBVIOUS
<1> USE DEF Shape
<1>1. CASE StoreUser
  <2> DEFINE p == Head(userPuts)
  <2>1. /\ p \in Users!PutRequest /\ Tail(userPuts) \in Seq(Users!PutRequest)
        /\ userPuts # << >> /\ userPuts \in Seq(Users!PutRequest)
    BY <1>1, PostedTail DEF StoreUser, Users!ApplyPut, TypeOK
  <2>2. /\ p.key \in Keys /\ p.value \in Requests /\ p.life \in Nat
    BY <2>1, LifeTimes DEF Users!PutRequest
  <2>3. /\ \A i \in 1..Len(Tail(userPuts)) :
             Stored(Tail(userPuts)[i].value, Tail(userPuts)[i].key)
        /\ Stored(p.value, p.key)
    BY <2>1, PostedTail DEF UsersFit
  <2> HIDE DEF p
  <2>4. /\ userPuts' = Tail(userPuts)
        /\ users' = [users EXCEPT ![p.key] = [value |-> p.value, ttl |-> p.life]]
        /\ userWrite' \in {[key |-> p.key, value |-> p.value], Nil}
        /\ late' \in {late, late \cup {p.value}}
        /\ UNCHANGED <<links, linkPuts, linkWrite, handlers, sessions, rivals, lapsed>>
    BY <1>1 DEF StoreUser, Users!ApplyPut, p
  <2>5. TypeOK'
    BY <2>1, <2>2, <2>4 DEF TypeOK, Users!Lease, handlers, sessions
  <2>6. UsersFit'
    BY <2>2, <2>3, <2>4 DEF UsersFit, Stored, TypeOK, handlers
  <2> QED
    BY <2>4, <2>5, <2>6 DEF SessionsFit, GuestsFit, Stored, Past, handlers, sessions
<1>2. CASE StoreLink
  <2> DEFINE p == Head(linkPuts)
  <2>1. /\ p \in RegistedKeys!PutRequest /\ Tail(linkPuts) \in Seq(RegistedKeys!PutRequest)
        /\ linkPuts # << >> /\ linkPuts \in Seq(RegistedKeys!PutRequest)
    BY <1>2, PostedTail DEF StoreLink, RegistedKeys!ApplyPut, TypeOK
  <2>2. /\ p.key \in SessionIds /\ p.value \in Requests /\ p.life \in Nat
    BY <2>1, LifeTimes DEF RegistedKeys!PutRequest
  <2>3. /\ \A i \in 1..Len(Tail(linkPuts)) : Past(Tail(linkPuts)[i].value)
        /\ Past(p.value)
    BY <2>1, PostedTail DEF GuestsFit
  <2> HIDE DEF p
  <2>4. /\ linkPuts' = Tail(linkPuts)
        /\ links' = [links EXCEPT ![p.key] = [value |-> p.value, ttl |-> p.life]]
        /\ linkWrite' \in {[key |-> p.key, value |-> p.value], Nil}
        /\ UNCHANGED <<users, userPuts, userWrite, handlers, sessions, history>>
    BY <1>2 DEF StoreLink, RegistedKeys!ApplyPut, p
  <2>5. TypeOK'
    BY <2>1, <2>2, <2>4 DEF TypeOK, RegistedKeys!Lease, handlers, sessions, history
  <2>6. GuestsFit'
    BY <2>2, <2>3, <2>4 DEF GuestsFit, Past, TypeOK, handlers
  <2> QED
    BY <2>4, <2>5, <2>6 DEF SessionsFit, UsersFit, Stored, handlers, sessions
<1>3. ASSUME NEW k \in Keys, SweepUser(k) PROVE Shape'
  <2>1. /\ users[k] \in Users!Lease
        /\ users' = [users EXCEPT ![k] = Nil]
        /\ userWrite' = [key |-> k, value |-> users[k].value]
        /\ lapsed' \in SUBSET (lapsed \cup Requests)
        /\ UNCHANGED <<userPuts, links, linkPuts, linkWrite, handlers, sessions, rivals, late>>
    BY <1>3 DEF SweepUser, Users!Expire, TypeOK
  <2>2. TypeOK'
    BY <2>1 DEF TypeOK, Users!Lease, handlers, sessions
  <2>3. UsersFit'
    BY <1>3, <2>1 DEF UsersFit, Stored, SweepUser, Users!Expire, TypeOK, handlers
  <2> QED
    BY <2>1, <2>2, <2>3 DEF SessionsFit, GuestsFit, Stored, Past, handlers, sessions
<1>4. ASSUME NEW l \in SessionIds, SweepLink(l) PROVE Shape'
  <2>1. /\ links[l] \in RegistedKeys!Lease /\ links[l] # Nil
        /\ links' = [links EXCEPT ![l] = Nil]
        /\ linkWrite' = [key |-> l, value |-> links[l].value]
        /\ UNCHANGED <<users, userPuts, userWrite, linkPuts, handlers, sessions, history>>
    BY <1>4 DEF SweepLink, RegistedKeys!Expire, TypeOK
  <2>2. TypeOK'
    BY <2>1 DEF TypeOK, RegistedKeys!Lease, handlers, sessions, history
  <2>3. GuestsFit'
    BY <2>1 DEF GuestsFit, Past, TypeOK, handlers
  <2> QED
    BY <2>1, <2>2, <2>3 DEF SessionsFit, UsersFit, Stored, handlers, sessions
<1>5. CASE UserWritten
  <2>1. /\ userWrite' = Nil
        /\ UNCHANGED <<users, userPuts, links, linkPuts, linkWrite, handlers, sessions, history>>
    BY <1>5 DEF UserWritten
  <2> QED
    BY <2>1 DEF TypeOK, UsersFit, SessionsFit, GuestsFit, Stored, Past, handlers, sessions,
                history
<1>6. CASE LinkWritten
  <2>1. /\ linkWrite' = Nil
        /\ UNCHANGED <<users, userPuts, userWrite, links, linkPuts, handlers, sessions, history>>
    BY <1>6 DEF LinkWritten
  <2> QED
    BY <2>1 DEF TypeOK, UsersFit, SessionsFit, GuestsFit, Stored, Past, handlers, sessions,
                history
<1>7. CASE Tick
  <2>1. /\ users' = [k \in Keys |-> Users!Older(users[k])]
        /\ links' = [l \in SessionIds |-> RegistedKeys!Older(links[l])]
        /\ UNCHANGED <<userPuts, userWrite, linkPuts, linkWrite, handlers, sessions, history>>
    BY <1>7 DEF Tick, Users!Tick, RegistedKeys!Tick
  <2>2. \A k \in Keys : /\ users'[k] \in Users!Lease \cup {Nil}
                        /\ users'[k] # Nil => users[k] # Nil /\ users'[k].value = users[k].value
    BY SMTT(40), <2>1 DEF Users!Older, Users!Lease, TypeOK
  <2>3. \A l \in SessionIds :
          /\ links'[l] \in RegistedKeys!Lease \cup {Nil}
          /\ links'[l] # Nil => links[l] # Nil /\ links'[l].value = links[l].value
    BY <2>1 DEF RegistedKeys!Older, RegistedKeys!Lease, TypeOK
  <2>4. TypeOK'
    BY <2>1, <2>2, <2>3 DEF TypeOK, handlers, sessions, history
  <2>5. UsersFit'
    BY <2>1, <2>2 DEF UsersFit, Stored, handlers
  <2>6. GuestsFit'
    BY <2>1, <2>3 DEF GuestsFit, Past, handlers
  <2> QED
    BY <2>1, <2>4, <2>5, <2>6 DEF SessionsFit, Stored, handlers, sessions
<1>8. ASSUME NEW r \in Requests, NEW l \in SessionIds, Join(r, l) PROVE Shape'
  <2>1. PICK o \in GetLink(l) \ {Nil} : host' = [host EXCEPT ![r] = key[o]]
    BY <1>8 DEF Join
  <2>2. key[o] \in Keys
    BY <2>1, SeenLink DEF GuestsFit
  <2>3. /\ at[r] = "idle" /\ at' = [at EXCEPT ![r] = "redirected"]
        /\ UNCHANGED <<caches, contact, key, link, contacts, sessions, history>>
    BY <1>8 DEF Join
  <2>4. TypeOK'
    BY <2>1, <2>2, <2>3 DEF TypeOK, Place, caches, sessions, history
  <2>5. GuestsFit'
    BY <2>1, <2>2, <2>3 DEF TypeOK, GuestsFit, Past, caches
  <2>6. \A s \in Requests : at[s] = "told" => at'[s] = "told"
    BY <2>3 DEF TypeOK
  <2>7. UsersFit' /\ SessionsFit'
    BY <2>3, <2>6, OthersFit DEF caches, sessions
  <2> QED
    BY <2>4, <2>5, <2>7
<1>9. ASSUME NEW r \in Requests, SessionJoin(r) PROVE Shape'
  <2>1. /\ at[r] = "redirected" /\ at' = [at EXCEPT ![r] = "page"]
        /\ UNCHANGED <<caches, host, contact, key, link, contacts, sessions, history>>
    BY <1>9 DEF SessionJoin
  <2>2. TypeOK'
    BY <2>1 DEF TypeOK, Place, caches, sessions, history
  <2>3. GuestsFit'
    BY <2>1 DEF TypeOK, GuestsFit, Past, caches
  <2>4. \A s \in Requests : at[s] = "told" => at'[s] = "told"
    BY <2>1 DEF TypeOK
  <2>5. UsersFit' /\ SessionsFit'
    BY <2>1, <2>4, OthersFit DEF caches, sessions
  <2> QED
    BY <2>2, <2>3, <2>5
<1>10. ASSUME NEW r \in Requests, FindContact(r) PROVE Shape'
  <2>1. PICK c \in GetUser(host[r]) \ {Nil} : contact' = [contact EXCEPT ![r] = c]
    BY <1>10 DEF FindContact
  <2>2. /\ at[r] = "page" /\ at' = [at EXCEPT ![r] = "found"]
        /\ UNCHANGED <<caches, host, key, link, contacts, sessions, history>>
    BY <1>10 DEF FindContact
  <2>3. c \in Requests /\ Past(c)
    BY <2>1, <2>2, SeenUser DEF GuestsFit, Stored, Past
  <2>4. TypeOK'
    BY <2>1, <2>2, <2>3 DEF TypeOK, Place, caches, sessions, history
  <2>5. GuestsFit'
    BY <2>1, <2>2, <2>3 DEF TypeOK, GuestsFit, Past, caches
  <2>6. \A s \in Requests : at[s] = "told" => at'[s] = "told"
    BY <2>2 DEF TypeOK
  <2>7. UsersFit' /\ SessionsFit'
    BY <2>2, <2>6, OthersFit DEF caches, sessions
  <2> QED
    BY <2>4, <2>5, <2>7
<1>11. ASSUME NEW r \in Requests, NEW k \in Keys, TryRegister(r, k) PROVE Shape'
  <2>1. /\ at[r] \in {"idle", "found"} /\ at' = [at EXCEPT ![r] = "checked"]
        /\ key' = [key EXCEPT ![r] = k]
        /\ rivals' = [rivals EXCEPT ![r] = Overlapping(k)]
        /\ UNCHANGED <<caches, host, contact, link, contacts, sessions, lapsed, late>>
    BY <1>11 DEF TryRegister
  <2>2. Overlapping(k) \subseteq Requests
    BY DEF Overlapping, Coming
  <2>3. TypeOK'
    BY <2>1, <2>2 DEF TypeOK, Place, caches, sessions
  <2>4. UsersFit' /\ SessionsFit'
    BY <2>1 DEF TypeOK, UsersFit, SessionsFit, Stored, caches, sessions
  <2>5. GuestsFit'
    BY <2>1 DEF TypeOK, GuestsFit, Past, caches
  <2> QED
    BY <2>3, <2>4, <2>5
<1>12. ASSUME NEW r \in Requests, NEW l \in SessionIds, DrawLink(r, l) PROVE Shape'
  <2>1. /\ at[r] = "checked" /\ at' = [at EXCEPT ![r] = "drawn"]
        /\ link' = [link EXCEPT ![r] = l]
        /\ UNCHANGED <<caches, host, contact, key, contacts, sessions, history>>
    BY <1>12 DEF DrawLink
  <2>2. TypeOK'
    BY <2>1 DEF TypeOK, Place, caches, sessions, history
  <2>3. GuestsFit'
    BY <2>1 DEF TypeOK, GuestsFit, Past, caches
  <2>4. \A s \in Requests : at[s] = "told" => at'[s] = "told"
    BY <2>1 DEF TypeOK
  <2>5. UsersFit' /\ SessionsFit'
    BY <2>1, <2>4, OthersFit DEF caches, sessions
  <2> QED
    BY <2>2, <2>3, <2>5
<1>13. ASSUME NEW r \in Requests, RegisterLink(r) PROVE Shape'
  <2> DEFINE p == [key |-> link[r], value |-> r, life |-> InviteLinkExpireMs]
  <2>1. /\ at[r] = "drawn" /\ at' = [at EXCEPT ![r] = "linked"]
        /\ linkPuts' = Append(linkPuts, p) /\ links' = links
        /\ UNCHANGED <<users, userPuts, userWrite, linkWrite, host, contact, key, link, contacts,
                       sessions, history>>
    BY <1>13 DEF RegisterLink, SetLink, RegistedKeys!RequestPut
  <2>2. p \in RegistedKeys!PutRequest /\ linkPuts \in Seq(RegistedKeys!PutRequest)
    BY <2>1 DEF RegistedKeys!PutRequest, GuestsFit, TypeOK
  <2>3. p.value = r
    OBVIOUS
  <2> HIDE DEF p
  <2>4. /\ linkPuts' \in Seq(RegistedKeys!PutRequest)
        /\ \A i \in 1..Len(linkPuts') :
             linkPuts'[i] = p \/ \E j \in 1..Len(linkPuts) : linkPuts'[i] = linkPuts[j]
    BY <2>1, <2>2, PostedAppend
  <2>5. \A i \in 1..Len(linkPuts') : Past(linkPuts'[i].value)
    BY <2>1, <2>3, <2>4 DEF GuestsFit, Past
  <2>6. TypeOK'
    BY <2>1, <2>4 DEF TypeOK, Place, sessions, history
  <2>7. /\ \A l \in SessionIds : links'[l] # Nil => Past(links[l].value)'
        /\ linkWrite' # Nil => Past(linkWrite.value)'
    BY <2>1 DEF TypeOK, GuestsFit, Past, RegistedKeys!Lease
  <2>8. GuestsFit'
    BY <2>1, <2>5, <2>7 DEF TypeOK, GuestsFit, Past
  <2>9. \A s \in Requests : at[s] = "told" => at'[s] = "told"
    BY <2>1 DEF TypeOK
  <2>10. UsersFit' /\ SessionsFit'
    BY <2>1, <2>9, OthersFit DEF sessions
  <2> QED
    BY <2>6, <2>8, <2>10
<1>14. ASSUME NEW r \in Requests, AddContacts(r) PROVE Shape'
  <2>1. /\ at[r] = "checked" /\ contact[r] # Nil
        /\ contacts' = [contacts EXCEPT ![contact[r]] = @ \cup {key[r]},
                                        ![r] = {key[contact[r]]}]
        /\ at' = [at EXCEPT ![r] = "added"]
        /\ UNCHANGED <<caches, host, contact, key, link, sessions, history>>
    BY <1>14 DEF AddContacts
  <2>2. contact[r] \in Requests /\ key[r] \in Keys /\ key[contact[r]] \in Keys
    BY <2>1 DEF TypeOK, GuestsFit, Past
  <2>3. TypeOK'
    BY <2>1, <2>2 DEF TypeOK, Place, caches, sessions, history
  <2>4. GuestsFit'
    BY <2>1, <2>2 DEF TypeOK, GuestsFit, Past, caches
  <2>5. \A s \in Requests : at[s] = "told" => at'[s] = "told"
    BY <2>1 DEF TypeOK
  <2>6. UsersFit' /\ SessionsFit'
    BY <2>1, <2>5, OthersFit DEF caches, sessions
  <2> QED
    BY <2>3, <2>4, <2>6
<1>15. ASSUME NEW r \in Requests, NEW k \in Keys, NEW u \in Requests,
              userPuts' = Append(userPuts, [key |-> k, value |-> u, life |-> SessionExpireMs]),
              Stored(u, k)',
              TypeOK, UsersFit, users' = users, userWrite' = userWrite, key' = key,
              \A s \in Requests : at[s] = "told" => at'[s] = "told"
       PROVE  userPuts' \in Seq(Users!PutRequest) /\ UsersFit'
  <2> DEFINE p == [key |-> k, value |-> u, life |-> SessionExpireMs]
  <2>1. /\ p \in Users!PutRequest /\ userPuts \in Seq(Users!PutRequest)
        /\ p.value = u /\ p.key = k /\ userPuts' = Append(userPuts, p)
    BY <1>15 DEF Users!PutRequest, TypeOK
  <2> HIDE DEF p
  <2>2. /\ userPuts' \in Seq(Users!PutRequest)
        /\ \A i \in 1..Len(userPuts') :
             userPuts'[i] = p \/ \E j \in 1..Len(userPuts) : userPuts'[i] = userPuts[j]
    BY <2>1, PostedAppend
  <2>3. (\A i \in 1..Len(userPuts) : Stored(userPuts[i].value, userPuts[i].key))'
    BY <1>15, <2>1, <2>2 DEF UsersFit, Stored
  <2> QED
    BY <1>15, <2>2, <2>3 DEF UsersFit, Stored, TypeOK
<1>16. ASSUME NEW r \in Requests, Register(r) PROVE Shape'
  <2>1. /\ at[r] \in {"linked", "added"} /\ at' = [at EXCEPT ![r] = "told"]
        /\ userPuts' = Append(userPuts, [key |-> key[r], value |-> r, life |-> SessionExpireMs])
        /\ users' = users
        /\ UNCHANGED <<userWrite, links, linkPuts, linkWrite, host, contact, key, link, contacts,
                       sessions, history>>
    BY <1>16 DEF Register, SetUser, Users!RequestPut
  <2>2. key[r] \in Keys
    BY <2>1 DEF GuestsFit, Past
  <2>3. Stored(r, key[r])' /\ \A s \in Requests : at[s] = "told" => at'[s] = "told"
    BY <2>1 DEF Stored, TypeOK
  <2>4. userPuts' \in Seq(Users!PutRequest) /\ UsersFit'
    BY <2>1, <2>2, <2>3, <1>15
  <2>5. TypeOK'
    BY <2>1, <2>4 DEF TypeOK, Place, sessions, history
  <2>6. SessionsFit'
    BY <2>1, <2>3 DEF SessionsFit, Stored, TypeOK, sessions
  <2>7. GuestsFit'
    BY <2>1 DEF GuestsFit, Past, TypeOK
  <2> QED
    BY <2>4, <2>5, <2>6, <2>7
<1>17. ASSUME NEW r \in Requests, SignIn(r) PROVE Shape'
  <2>1. PICK o \in GetUser(key[r]) \ {Nil} : session' = [session EXCEPT ![r] = o]
    BY <1>17 DEF SignIn
  <2>2. /\ at[r] = "told"
        /\ UNCHANGED <<caches, handlers, renewing, history>>
    BY <1>17 DEF SignIn
  <2>3. Stored(o, key[r])
    BY <2>1, <2>2, SeenUser DEF GuestsFit, Past
  <2>4. TypeOK'
    BY <2>1, <2>2, <2>3 DEF TypeOK, Stored, caches, handlers, history
  <2>5. SessionsFit'
    BY <2>1, <2>2, <2>3 DEF SessionsFit, Stored, TypeOK, handlers
  <2> QED
    BY <2>2, <2>4, <2>5 DEF UsersFit, GuestsFit, Stored, Past, caches, handlers
<1>18. ASSUME NEW r \in Requests, RenewGet(r) PROVE Shape'
  <2>1. PICK u \in GetUser(key[r]) \ {Nil} : renewing' = [renewing EXCEPT ![r] = u]
    BY <1>18 DEF RenewGet, Renewed
  <2>2. /\ session[r] # Nil
        /\ UNCHANGED <<caches, handlers, session, history>>
    BY <1>18 DEF RenewGet
  <2>3. Stored(u, key[r])
    BY <2>1, <2>2, SeenUser DEF SessionsFit, GuestsFit, Past
  <2>4. TypeOK'
    BY <2>1, <2>2, <2>3 DEF TypeOK, Stored, caches, handlers, history
  <2>5. SessionsFit'
    BY <2>1, <2>2, <2>3 DEF SessionsFit, Stored, TypeOK, handlers
  <2> QED
    BY <2>2, <2>4, <2>5 DEF UsersFit, GuestsFit, Stored, Past, caches, handlers
<1>19. ASSUME NEW r \in Requests, RenewSet(r) PROVE Shape'
  <2>1. /\ renewing[r] # Nil /\ renewing' = [renewing EXCEPT ![r] = Nil]
        /\ userPuts' = Append(userPuts, [key |-> key[r], value |-> renewing[r],
                                         life |-> SessionExpireMs])
        /\ users' = users
        /\ UNCHANGED <<userWrite, links, linkPuts, linkWrite, handlers, session, history>>
    BY <1>19 DEF RenewSet, SetUser, Users!RequestPut
  <2>2. Stored(renewing[r], key[r]) /\ key[r] \in Keys /\ renewing[r] \in Requests
    BY <2>1 DEF SessionsFit, GuestsFit, Past, Stored
  <2>4. userPuts' \in Seq(Users!PutRequest) /\ UsersFit'
    <3>1. PICK u \in Requests : u = renewing[r]
      BY <2>2
    <3>2. PICK k \in Keys : k = key[r]
      BY <2>2
    <3>3. /\ userPuts' = Append(userPuts, [key |-> k, value |-> u, life |-> SessionExpireMs])
          /\ Stored(u, k)' /\ at' = at /\ key' = key
      BY <2>1, <2>2, <3>1, <3>2 DEF Stored, handlers
    <3> QED
      BY <2>1, <3>3, <1>15
  <2>5. TypeOK'
    BY <2>1, <2>4 DEF TypeOK, handlers, history
  <2>6. SessionsFit'
    BY <2>1 DEF SessionsFit, Stored, TypeOK, handlers
  <2> QED
    BY <2>1, <2>4, <2>5, <2>6 DEF GuestsFit, Past, handlers
<1>20. CASE UNCHANGED vars
  BY <1>20 DEF TypeOK, UsersFit, SessionsFit, GuestsFit, Stored, Past, vars, caches, handlers,
               sessions, history
<1> QED
  BY <1>1, <1>2, <1>3, <1>4, <1>5, <1>6, <1>7, <1>8, <1>9, <1>10, <1>11, <1>12, <1>13, <1>14,
     <1>16, <1>17, <1>18, <1>19, <1>20 DEF Next

-----------------------------------------------------------------------------
(* Users *)

\* A step that registers nobody, and after which nobody is active who was not, leaves
\* the users of a key one at a time.
LEMMA StillOne ==
  ASSUME OneAtATime, UNCHANGED <<key, rivals>>, lapsed \subseteq lapsed',
         \A s \in Requests : Past(s)' => Past(s),
         \A s \in Requests : Past(s)' /\ Active(s)' => Active(s)
  PROVE  OneAtATime'
<1> SUFFICES ASSUME NEW r \in Requests, NEW s \in Requests,
                    r # s, Past(r)', Past(s)', key[r] = key[s], ~Overlapped(r, s)
             PROVE  GoneForGood(r)' \/ GoneForGood(s)'
  BY DEF OneAtATime, Overlapped
<1>1. GoneForGood(r) \/ GoneForGood(s)
  BY DEF OneAtATime
<1> QED
  BY <1>1 DEF GoneForGood

\* What makes a user active.
LEMMA ActiveMeans ==
  ASSUME NEW r \in Requests
  PROVE  Active(r) <=>
           \/ Past(r) /\ at[r] # "told"
           \/ Posted(userPuts, r)
           \/ \E s \in Requests : renewing[s] = r
           \/ users[key[r]] # Nil /\ users[key[r]].value = r
           \/ userWrite # Nil /\ userWrite.value = r
  BY DEF Active, Coming

LEMMA ActiveMeansNext ==
  ASSUME NEW r \in Requests
  PROVE  Active(r)' <=>
           \/ Past(r)' /\ at'[r] # "told"
           \/ Posted(userPuts', r)
           \/ \E s \in Requests : renewing'[s] = r
           \/ users'[key'[r]] # Nil /\ users'[key'[r]].value = r
           \/ userWrite' # Nil /\ userWrite'.value = r
  BY DEF Active, Coming, Posted

\* A handler's step that sets nothing, and a sweep or a tick of the links.
LEMMA OthersKeep ==
  ASSUME UserInv, UNCHANGED <<users, userPuts, userWrite, key, renewing, rivals, lapsed>>,
         \A s \in Requests : /\ Past(s)' => Past(s)
                             /\ at'[s] = "told" <=> at[s] = "told"
  PROVE  KeptOrLapsed' /\ OneAtATime'
<1>1. KeptOrLapsed'
  BY DEF UserInv, KeptOrLapsed, Posted
<1>2. \A s \in Requests : Past(s)' /\ Active(s)' => Active(s)
  BY ActiveMeans, ActiveMeansNext
<1>3. OneAtATime'
  BY <1>2, StillOne DEF UserInv
<1> QED BY <1>1, <1>3

LEMMA UserInvInit == Init => UserInv
<1> SUFFICES ASSUME Init PROVE UserInv
  OBVIOUS
<1>1. TypeOK
  BY TypeInit
<1>2. \A r \in Requests : ~Past(r) /\ at[r] = "idle"
  BY DEF Init, Past
<1>3. Shape
  BY <1>1, <1>2, NilAssumption
     DEF Init, Shape, UsersFit, SessionsFit, GuestsFit, Users!Init, RegistedKeys!Init
<1> QED
  BY <1>2, <1>3 DEF UserInv, KeptOrLapsed, OneAtATime

LEMMA UserInvNext == UserInv /\ [Next]_vars => UserInv'
<1> SUFFICES ASSUME UserInv, [Next]_vars PROVE UserInv'
  OBVIOUS
<1> USE DEF UserInv
<1>0. Shape'
  BY ShapeNext
<1>1. CASE StoreUser
  <2> DEFINE p == Head(userPuts)
  <2>1. /\ userPuts # << >> /\ userPuts \in Seq(Users!PutRequest)
        /\ p \in Users!PutRequest /\ Stored(p.value, p.key)
        /\ \A r : Posted(userPuts, r) <=> Posted(Tail(userPuts), r) \/ p.value = r
    BY <1>1, PostedTail DEF StoreUser, Users!ApplyPut, Shape, TypeOK, UsersFit
  <2>2. p.key \in Keys /\ p.value \in Requests /\ [value |-> p.value, ttl |-> p.life] # Nil
    BY <2>1, LifeTimes, NilAssumption DEF Users!PutRequest
  <2> HIDE DEF p
  <2>3. /\ userPuts' = Tail(userPuts)
        /\ users' = [users EXCEPT ![p.key] = [value |-> p.value, ttl |-> p.life]]
        /\ userWrite' \in {[key |-> p.key, value |-> p.value], Nil}
        /\ UNCHANGED <<at, key, renewing, rivals, lapsed>>
    BY <1>1 DEF StoreUser, Users!ApplyPut, p, handlers, sessions
  <2>4. \A r : Posted(userPuts, r) <=> Posted(userPuts', r) \/ p.value = r
    BY <2>1, <2>3
  <2>5. /\ users'[p.key] = [value |-> p.value, ttl |-> p.life]
        /\ \A k \in Keys : k # p.key => users'[k] = users[k]
    BY <2>2, <2>3 DEF Shape, TypeOK
  <2>6. \A r \in Requests : Past(r) => key[r] \in Keys
    BY DEF Shape, GuestsFit
  <2>7. KeptOrLapsed'
    <3> SUFFICES ASSUME NEW r \in Requests, at[r] = "told", r \notin lapsed
                 PROVE  Posted(userPuts, r)' \/ users'[key[r]] # Nil
      BY <2>3 DEF KeptOrLapsed
    <3>1. CASE key[r] = p.key
      BY <3>1, <2>2, <2>5
    <3>2. CASE key[r] # p.key
      <4>1. p.value # r
        BY <3>2, <2>1 DEF Stored
      <4>2. Posted(userPuts, r) => Posted(userPuts', r)
        BY <4>1, <2>4
      <4>3. users'[key[r]] = users[key[r]]
        BY <3>2, <2>5, <2>6 DEF Past
      <4> QED
        BY <4>2, <4>3 DEF KeptOrLapsed, Posted
    <3> QED BY <3>1, <3>2
  <2>8. ASSUME NEW r \in Requests, Past(r), Active(r)' PROVE Active(r)
    <3>1. CASE r = p.value
      BY <3>1, <2>4, ActiveMeans
    <3>2. CASE r # p.value
      <4>1. Posted(userPuts', r) => Posted(userPuts, r)
        BY <2>4
      <4>2. users'[key[r]] # Nil /\ users'[key[r]].value = r =>
              users[key[r]] # Nil /\ users[key[r]].value = r
        BY <3>2, <2>5, <2>6, <2>8
      <4>3. ~(userWrite' # Nil /\ userWrite'.value = r)
        BY <3>2, <2>3
      <4> QED
        BY <2>8, <4>1, <4>2, <4>3, <2>3, ActiveMeans, ActiveMeansNext DEF Past
    <3> QED BY <3>1, <3>2
  <2>9. OneAtATime'
    BY <2>3, <2>8, StillOne DEF Past
  <2> QED BY <1>0, <2>7, <2>9
<1>2. ASSUME NEW k \in Keys, SweepUser(k) PROVE UserInv'
  <2>1. /\ users[k] # Nil /\ Stored(users[k].value, k)
        /\ users' = [users EXCEPT ![k] = Nil]
        /\ userWrite' = [key |-> k, value |-> users[k].value]
        /\ lapsed' = lapsed \cup {r \in Requests : key[r] = k /\ at[r] = "told"
                                                    /\ ~Posted(userPuts, r)}
        /\ UNCHANGED <<userPuts, at, key, renewing, rivals>>
    BY <1>2 DEF SweepUser, Users!Expire, Shape, UsersFit, handlers, sessions
  <2>2. /\ users'[k] = Nil
        /\ \A j \in Keys : j # k => users'[j] = users[j]
    BY <2>1 DEF Shape, TypeOK
  <2>3. KeptOrLapsed'
    BY <2>1, <2>2 DEF KeptOrLapsed, Posted, Shape, GuestsFit, Past
  <2>4. ASSUME NEW r \in Requests, Past(r), Active(r)' PROVE Active(r)
    <3>1. users'[key[r]] # Nil => users'[key[r]] = users[key[r]]
      BY <2>2, <2>4 DEF Shape, GuestsFit
    <3>2. userWrite'.value = r => users[key[r]] # Nil /\ users[key[r]].value = r
      BY <2>1 DEF Stored
    <3> QED
      BY <2>1, <2>4, <3>1, <3>2, ActiveMeans, ActiveMeansNext DEF Past
  <2>5. OneAtATime'
    BY <2>1, <2>4, StillOne DEF Past
  <2> QED BY <1>0, <2>3, <2>5
<1>3. CASE UserWritten
  <2>1. userWrite' = Nil /\ UNCHANGED <<users, userPuts, at, key, renewing, rivals, lapsed>>
    BY <1>3 DEF UserWritten, handlers, sessions, history
  <2>2. KeptOrLapsed'
    BY <2>1 DEF KeptOrLapsed, Posted
  <2>3. \A r \in Requests : Active(r)' => Active(r)
    BY <2>1, ActiveMeans, ActiveMeansNext DEF Past
  <2>4. OneAtATime'
    BY <2>1, <2>3, StillOne DEF Past
  <2> QED BY <1>0, <2>2, <2>4
<1>4. CASE Tick
  <2>1. /\ users' = [k \in Keys |-> Users!Older(users[k])]
        /\ UNCHANGED <<userPuts, userWrite, at, key, renewing, rivals, lapsed>>
    BY <1>4 DEF Tick, Users!Tick, handlers, sessions, history
  <2>2. \A k \in Keys : /\ users'[k] = Nil <=> users[k] = Nil
                        /\ users[k] # Nil => users'[k].value = users[k].value
    <3> SUFFICES ASSUME NEW k \in Keys, users[k] # Nil
                 PROVE  users'[k] # Nil /\ users'[k].value = users[k].value
      BY <2>1 DEF Users!Older
    <3>1. users[k] \in [value : Requests, ttl : Int] /\ users'[k] = Users!Older(users[k])
      BY <2>1 DEF Users!Lease, Shape, TypeOK
    <3>2. /\ Users!Older(users[k]) \in [value : Requests, ttl : Int]
          /\ Users!Older(users[k]).value = users[k].value
      BY <3>1 DEF Users!Older
    <3> QED BY <3>1, <3>2, NilAssumption
  <2>3. \A r \in Requests : Past(r) => key[r] \in Keys
    BY DEF Shape, GuestsFit
  <2>4. KeptOrLapsed'
    BY <2>1, <2>2, <2>3 DEF KeptOrLapsed, Posted, Past
  <2>5. \A r \in Requests : Past(r) /\ Active(r)' => Active(r)
    BY <2>1, <2>2, <2>3, ActiveMeans, ActiveMeansNext DEF Past
  <2>6. OneAtATime'
    BY <2>1, <2>5, StillOne DEF Past
  <2> QED BY <1>0, <2>4, <2>6
<1>5. ASSUME NEW r \in Requests, NEW k \in Keys, TryRegister(r, k) PROVE UserInv'
  <2>1. /\ at[r] \in {"idle", "found"} /\ at' = [at EXCEPT ![r] = "checked"]
        /\ key' = [key EXCEPT ![r] = k]
        /\ rivals' = [rivals EXCEPT ![r] = Overlapping(k)]
        /\ UNCHANGED <<users, userPuts, userWrite, renewing, lapsed>>
    BY <1>5 DEF TryRegister, caches, sessions
  <2>2. userWrite = Nil => users[k] = Nil
    <3>1. Nil \in GetUser(k)
      BY <1>5 DEF TryRegister, Has
    <3>2. users[k] # Nil => users[k].value # Nil
      BY NilAssumption DEF Shape, TypeOK, Users!Lease
    <3> QED
      BY <3>1, <3>2 DEF GetUser, Seen
  <2>3. /\ at'[r] = "checked" /\ key'[r] = k /\ rivals'[r] = Overlapping(k) /\ ~Past(r)
        /\ \A s \in Requests \ {r} : at'[s] = at[s] /\ key'[s] = key[s] /\ rivals'[s] = rivals[s]
    BY <2>1 DEF Shape, TypeOK, Past
  <2>4. KeptOrLapsed'
    BY <2>1, <2>3 DEF KeptOrLapsed, Posted
  <2>5. \A s \in Requests \ {r} : Active(s)' => Active(s)
    BY <2>1, <2>3, ActiveMeans, ActiveMeansNext DEF Past
  <2>6. ASSUME NEW s \in Requests \ {r}, Past(s), key[s] = k, s \notin Overlapping(k)
        PROVE  s \in lapsed /\ ~Active(s)
    <3>1. /\ at[s] = "told" /\ ~Posted(userPuts, s) /\ ~\E q \in Requests : renewing[q] = s
          /\ users[k] = Nil
          /\ userWrite = Nil \/ userWrite.key # k
      BY <2>6, <2>2 DEF Overlapping, Coming
    <3>2. s \in lapsed
      BY <2>6, <3>1 DEF KeptOrLapsed
    <3>3. userWrite = Nil \/ userWrite.value # s
      BY <2>6, <3>1 DEF Shape, UsersFit, Stored
    <3> QED
      BY <2>6, <3>1, <3>2, <3>3, ActiveMeans
  <2>7. ASSUME NEW s \in Requests \ {r}, Past(s)', key'[s] = k
        PROVE  (Overlapped(r, s) \/ GoneForGood(s))'
    <3>1. Past(s) /\ key[s] = k
      BY <2>3, <2>7 DEF Past
    <3>2. CASE s \in Overlapping(k)
      BY <3>2, <2>3 DEF Overlapped
    <3>3. CASE s \notin Overlapping(k)
      BY <3>1, <3>3, <2>1, <2>5, <2>6 DEF GoneForGood
    <3> QED BY <3>2, <3>3
  <2>8. OneAtATime'
    <3> SUFFICES ASSUME NEW a \in Requests, NEW b \in Requests,
                        a # b, Past(a)', Past(b)', key'[a] = key'[b]
                 PROVE  (Overlapped(a, b) \/ GoneForGood(a) \/ GoneForGood(b))'
      BY DEF OneAtATime
    <3>1. CASE a = r
      BY <3>1, <2>3, <2>7
    <3>2. CASE b = r
      BY <3>2, <2>3, <2>7 DEF Overlapped
    <3>3. CASE a # r /\ b # r
      <4>1. Past(a) /\ Past(b) /\ key[a] = key[b]
        BY <3>3, <2>3 DEF Past
      <4>2. Overlapped(a, b) \/ GoneForGood(a) \/ GoneForGood(b)
        BY <4>1 DEF OneAtATime
      <4> QED
        BY <3>3, <4>2, <2>1, <2>3, <2>5 DEF GoneForGood, Overlapped
    <3> QED BY <3>1, <3>2, <3>3
  <2> QED BY <1>0, <2>4, <2>8
<1>6. ASSUME NEW r \in Requests, Register(r) PROVE UserInv'
  <2> DEFINE p == [key |-> key[r], value |-> r, life |-> SessionExpireMs]
  <2>1. /\ at[r] \in {"linked", "added"} /\ at' = [at EXCEPT ![r] = "told"]
        /\ userPuts' = Append(userPuts, p) /\ users' = users
        /\ UNCHANGED <<userWrite, key, renewing, rivals, lapsed>>
    BY <1>6 DEF Register, SetUser, Users!RequestPut, sessions, history
  <2>2. /\ userPuts \in Seq(Users!PutRequest) /\ p \in Users!PutRequest /\ p.value = r
    BY <2>1 DEF Shape, TypeOK, GuestsFit, Past, Users!PutRequest
  <2> HIDE DEF p
  <2>3. \A s : Posted(userPuts', s) <=> Posted(userPuts, s) \/ r = s
    BY <2>1, <2>2, PostedAppend
  <2>4. /\ at'[r] = "told" /\ Past(r) /\ at[r] # "told"
        /\ \A s \in Requests \ {r} : at'[s] = at[s]
    BY <2>1 DEF Shape, TypeOK, Past
  <2>5. KeptOrLapsed'
    <3>1. \A s \in Requests : at'[s] = "told" =>
            s \in lapsed \/ Posted(userPuts', s) \/ users[key[s]] # Nil
      BY <2>3, <2>4 DEF KeptOrLapsed
    <3> QED BY <2>1, <3>1 DEF KeptOrLapsed, Posted
  <2>6. \A s \in Requests : Active(s)' => Active(s)
    BY <2>1, <2>3, <2>4, ActiveMeans, ActiveMeansNext DEF Past
  <2>7. \A s \in Requests : Past(s)' => Past(s)
    BY <2>4 DEF Past
  <2>8. OneAtATime'
    BY <2>1, <2>6, <2>7, StillOne
  <2> QED BY <1>0, <2>5, <2>8
<1>7. ASSUME NEW r \in Requests, RenewGet(r) PROVE UserInv'
  <2>1. PICK u \in GetUser(key[r]) \ {Nil} : renewing' = [renewing EXCEPT ![r] = u]
    BY <1>7 DEF RenewGet, Renewed
  <2>2. /\ session[r] # Nil
        /\ UNCHANGED <<users, userPuts, userWrite, at, key, rivals, lapsed>>
    BY <1>7 DEF RenewGet, caches, handlers, history
  <2>3. /\ Stored(u, key[r])
        /\ \/ users[key[r]] # Nil /\ users[key[r]].value = u
           \/ userWrite # Nil /\ userWrite.value = u
    BY <2>1, <2>2, SeenUser DEF Shape, SessionsFit, GuestsFit, Past
  <2>4. KeptOrLapsed'
    BY <2>2 DEF KeptOrLapsed, Posted
  <2>5. \A s \in Requests : renewing'[s] \in {renewing[s], u}
    BY <2>1 DEF Shape, TypeOK
  <2>6. Active(u)
    BY <2>3, ActiveMeans DEF Stored
  <2>7. \A s \in Requests : Active(s)' => Active(s)
    BY <2>2, <2>5, <2>6, ActiveMeans, ActiveMeansNext DEF Past
  <2>8. OneAtATime'
    BY <2>2, <2>7, StillOne DEF Past
  <2> QED BY <1>0, <2>4, <2>8
<1>8. ASSUME NEW r \in Requests, RenewSet(r) PROVE UserInv'
  <2> DEFINE p == [key |-> key[r], value |-> renewing[r], life |-> SessionExpireMs]
  <2>1. /\ renewing[r] # Nil /\ renewing' = [renewing EXCEPT ![r] = Nil]
        /\ userPuts' = Append(userPuts, p) /\ users' = users
        /\ UNCHANGED <<userWrite, at, key, rivals, lapsed>>
    BY <1>8 DEF RenewSet, SetUser, Users!RequestPut, handlers, history
  <2>2. /\ userPuts \in Seq(Users!PutRequest) /\ p \in Users!PutRequest
        /\ p.value = renewing[r] /\ renewing[r] \in Requests
    BY <2>1 DEF Shape, TypeOK, SessionsFit, GuestsFit, Past, Stored, Users!PutRequest
  <2> HIDE DEF p
  <2>3. \A s : Posted(userPuts', s) <=> Posted(userPuts, s) \/ renewing[r] = s
    BY <2>1, <2>2, PostedAppend
  <2>4. KeptOrLapsed'
    <3>1. \A s \in Requests : at[s] = "told" =>
            s \in lapsed \/ Posted(userPuts', s) \/ users[key[s]] # Nil
      BY <2>3 DEF KeptOrLapsed
    <3> QED BY <2>1, <3>1 DEF KeptOrLapsed, Posted
  <2>5. \A s \in Requests : renewing'[s] \in {renewing[s], Nil}
    BY <2>1 DEF Shape, TypeOK
  <2>6. \A s \in Requests : Active(s)' => Active(s)
    BY <2>1, <2>3, <2>5, NilAssumption, ActiveMeans, ActiveMeansNext DEF Past
  <2>7. OneAtATime'
    BY <2>1, <2>6, StillOne DEF Past
  <2> QED BY <1>0, <2>4, <2>7
<1>9. ASSUME UNCHANGED <<users, userPuts, userWrite, key, renewing, rivals, lapsed>>,
             \A s \in Requests : /\ Past(s)' => Past(s)
                                 /\ at'[s] = "told" <=> at[s] = "told"
      PROVE  UserInv'
  BY <1>0, <1>9, OthersKeep
<1>10. CASE StoreLink \/ LinkWritten \/ \E l \in SessionIds : SweepLink(l)
  <2>1. UNCHANGED <<users, userPuts, userWrite, at, key, session, renewing, rivals, lapsed>>
    BY <1>10 DEF StoreLink, LinkWritten, SweepLink, handlers, sessions, history
  <2> QED BY <2>1, <1>9 DEF Past
<1>11. ASSUME NEW r \in Requests, NEW l \in SessionIds, Join(r, l) \/ DrawLink(r, l) PROVE UserInv'
  <2>1. /\ UNCHANGED <<users, userPuts, userWrite, key, renewing, rivals, lapsed>>
        /\ \/ at[r] = "idle" /\ at' = [at EXCEPT ![r] = "redirected"]
           \/ at[r] = "checked" /\ at' = [at EXCEPT ![r] = "drawn"]
    BY <1>11 DEF Join, DrawLink, caches, sessions, history
  <2> QED BY <2>1, <1>9 DEF Past, Shape, TypeOK
<1>12. ASSUME NEW r \in Requests,
              SessionJoin(r) \/ FindContact(r) \/ RegisterLink(r) \/ AddContacts(r)
       PROVE  UserInv'
  <2>1. /\ UNCHANGED <<users, userPuts, userWrite, key, renewing, rivals, lapsed>>
        /\ \/ at[r] = "redirected" /\ at' = [at EXCEPT ![r] = "page"]
           \/ at[r] = "page" /\ at' = [at EXCEPT ![r] = "found"]
           \/ at[r] = "drawn" /\ at' = [at EXCEPT ![r] = "linked"]
           \/ at[r] = "checked" /\ at' = [at EXCEPT ![r] = "added"]
    BY <1>12 DEF SessionJoin, FindContact, RegisterLink, AddContacts, caches, sessions, history
  <2> QED BY <2>1, <1>9 DEF Past, Shape, TypeOK
<1>13. ASSUME NEW r \in Requests, SignIn(r) PROVE UserInv'
  <2>1. UNCHANGED <<users, userPuts, userWrite, at, key, renewing, rivals, lapsed>>
    BY <1>13 DEF SignIn, caches, handlers, history
  <2>2. KeptOrLapsed'
    BY <2>1 DEF KeptOrLapsed, Posted
  <2>3. \A s \in Requests : Active(s)' => Active(s)
    BY <2>1, ActiveMeans, ActiveMeansNext DEF Past
  <2>4. OneAtATime'
    BY <2>1, <2>3, StillOne DEF Past
  <2> QED BY <1>0, <2>2, <2>4
<1>14. CASE UNCHANGED vars
  BY <1>14, <1>9 DEF vars, caches, handlers, sessions, history, Past
<1> QED
  BY <1>1, <1>2, <1>3, <1>4, <1>5, <1>6, <1>7, <1>8, <1>10, <1>11, <1>12, <1>13, <1>14 DEF Next

\* The inductive invariant of users.
LEMMA UserInvHolds == Spec => []UserInv
<1>1. Init => UserInv
  BY UserInvInit
<1>2. UserInv /\ [Next]_vars => UserInv'
  BY UserInvNext
<1> QED BY <1>1, <1>2, PTL DEF Spec

\* The types of all variables, in every reachable state.
THEOREM TypeCorrectness == Spec => []TypeOK
<1>1. UserInv => TypeOK
  BY DEF UserInv, Shape
<1> QED BY <1>1, UserInvHolds, PTL

\* Of the user objects of one key a connected client has the one its key leads to,
\* unless it has lapsed or the two registered at the same time.
THEOREM SessionsAreReached == Spec => []SessionIsReached
<1>1. UserInv => SessionIsReached
  <2> SUFFICES ASSUME UserInv, NEW r \in Requests, session[r] # Nil, users[key[r]] # Nil,
                      users[key[r]].value # session[r], session[r] \notin lapsed
               PROVE  Overlapped(session[r], users[key[r]].value)
    BY DEF SessionIsReached
  <2>1. /\ Stored(session[r], key[r]) /\ key[r] \in Keys
        /\ Stored(users[key[r]].value, key[r])
    BY DEF UserInv, Shape, SessionsFit, UsersFit, GuestsFit, Past, Stored
  <2>2. PICK o \in Requests : o = session[r]
    BY <2>1 DEF Stored
  <2>3. PICK u \in Requests : u = users[key[r]].value
    BY <2>1 DEF Stored
  <2>4. Active(u)
    BY <2>1, <2>3, ActiveMeans DEF Stored
  <2>5. Past(o) /\ Past(u) /\ key[o] = key[u] /\ o # u
    BY <2>1, <2>2, <2>3 DEF Stored, Past
  <2>6. ~GoneForGood(o) /\ ~GoneForGood(u)
    BY <2>2, <2>4 DEF GoneForGood
  <2> QED
    BY <2>2, <2>3, <2>5, <2>6 DEF UserInv, OneAtATime
<1> QED BY <1>1, UserInvHolds, PTL

\* One user takes the place of another only when the two registered at the same time.
THEOREM TakeoversNeedOverlap == Spec => TakeoverNeedsOverlap
<1>1. UserInv /\ [Next]_vars =>
        [\A k \in Keys :
           users[k] # Nil /\ users'[k] # Nil /\ users[k].value # users'[k].value
             => Overlapped(users[k].value, users'[k].value)]_vars
  <2> SUFFICES ASSUME UserInv, Next, NEW k \in Keys, users[k] # Nil, users'[k] # Nil,
                      users[k].value # users'[k].value
               PROVE  Overlapped(users[k].value, users'[k].value)
    OBVIOUS
  <2>1. Stored(users[k].value, k)
    BY DEF UserInv, Shape, UsersFit
  <2>2. PICK o \in Requests : o = users[k].value
    BY <2>1 DEF Stored
  <2>3. StoreUser
    <3>1. ~Tick
      <4> SUFFICES ASSUME Tick PROVE FALSE
        OBVIOUS
      <4>1. users[k] \in Users!Lease /\ users'[k] = Users!Older(users[k])
        BY DEF Tick, Users!Tick, UserInv, Shape, TypeOK
      <4> QED BY <4>1 DEF Users!Older, Users!Lease
    <3>2. ASSUME NEW j \in Keys PROVE ~SweepUser(j)
      BY DEF SweepUser, Users!Expire, UserInv, Shape, TypeOK
    <3>3. users' # users
      OBVIOUS
    <3> QED
      BY <3>1, <3>2, <3>3
         DEF Next, UserWritten, StoreLink, LinkWritten, SweepLink, RegistedKeys!Expire, Join,
             DrawLink, SessionJoin, FindContact, TryRegister, RegisterLink, AddContacts,
             Register, SetUser, Users!RequestPut, SignIn, RenewGet, RenewSet, caches
  <2>4. /\ userPuts # << >> /\ userPuts \in Seq(Users!PutRequest)
        /\ 1 \in 1..Len(userPuts) /\ Head(userPuts) = userPuts[1]
        /\ Posted(userPuts, Head(userPuts).value)
    BY <2>3, PostedTail DEF StoreUser, Users!ApplyPut, UserInv, Shape, TypeOK
  <2>5. /\ Stored(Head(userPuts).value, Head(userPuts).key)
        /\ Head(userPuts).key = k /\ Head(userPuts).value = users'[k].value
    BY <2>3, <2>4 DEF StoreUser, Users!ApplyPut, UserInv, Shape, TypeOK, UsersFit
  <2>6. PICK u \in Requests : u = users'[k].value
    BY <2>5 DEF Stored
  <2>7. Active(o) /\ Active(u)
    BY <2>1, <2>2, <2>4, <2>5, <2>6, ActiveMeans DEF Stored
  <2>8. Past(o) /\ Past(u) /\ key[o] = key[u] /\ o # u
    BY <2>1, <2>2, <2>5, <2>6 DEF Stored, Past
  <2> QED
    BY <2>2, <2>6, <2>7, <2>8 DEF UserInv, OneAtATime, GoneForGood
<1> QED BY <1>1, UserInvHolds, PTL DEF Spec, TakeoverNeedsOverlap

-----------------------------------------------------------------------------
(* Links *)

LEMMA LinkInvInit == Init => LinkInv
<1> SUFFICES ASSUME Init PROVE LinkInv
  OBVIOUS
<1>1. UserInv
  BY UserInvInit
<1>2. /\ userPuts = << >> /\ linkPuts = << >>
      /\ \A l \in SessionIds : links[l] = Nil
  BY DEF Init, Users!Init, RegistedKeys!Init
<1> QED
  BY <1>1, <1>2 DEF LinkInv, LinksFit, LinkLeadsToUser

\* What is known of a link that is stored, and of its owner.
LEMMA StoredLink ==
  ASSUME LinkInv, NEW l \in SessionIds, links[l] # Nil
  PROVE  /\ links[l].value \in Requests /\ links[l].ttl \in Int
         /\ links[l].ttl <= InviteLinkExpire
         /\ at[links[l].value] \in {"linked", "told"} /\ key[links[l].value] \in Keys
         /\ links[l].ttl >= 0 /\ Left(links[l]) >= 0 =>
              \/ Following(links[l].value)
              \/ /\ users[key[links[l].value]] # Nil
                 /\ users[key[links[l].value]].ttl >= Left(links[l])
<1>1. links[l].value \in Requests /\ links[l].ttl \in Int
  BY DEF LinkInv, UserInv, Shape, TypeOK, RegistedKeys!Lease
<1>2. links[l].ttl <= InviteLinkExpire /\ at[links[l].value] \in {"linked", "told"}
  BY DEF LinkInv, LinksFit
<1>3. key[links[l].value] \in Keys
  BY <1>1, <1>2 DEF LinkInv, UserInv, Shape, GuestsFit, Past
<1> QED
  BY <1>1, <1>2, <1>3 DEF LinkInv, LinkLeadsToUser, Following

\* And of one that is on its way.
LEMMA ComingLink ==
  ASSUME LinkInv, NEW i \in 1..Len(linkPuts)
  PROVE  /\ linkPuts[i].value \in Requests
         /\ at[linkPuts[i].value] \in {"linked", "told"} /\ Following(linkPuts[i].value)
<1>1. linkPuts[i] \in RegistedKeys!PutRequest
  BY DEF LinkInv, UserInv, Shape, TypeOK
<1> QED
  BY <1>1 DEF LinkInv, LinksFit, RegistedKeys!PutRequest

\* A step that touches neither the links nor the leases of the users.
LEMMA LinksKept ==
  ASSUME LinkInv, UNCHANGED <<users, links, linkPuts>>,
         \A s \in Requests : at[s] \in {"linked", "told"} =>
           /\ at'[s] \in {"linked", "told"} /\ key'[s] = key[s]
           /\ Following(s) => Following(s)'
  PROVE  LinksFit' /\ LinkLeadsToUser'
<1>1. (\A i \in 1..Len(linkPuts) :
         at[linkPuts[i].value] \in {"linked", "told"} /\ Following(linkPuts[i].value))'
  <2> SUFFICES ASSUME NEW i \in 1..Len(linkPuts)
               PROVE  at'[linkPuts[i].value] \in {"linked", "told"} /\ Following(linkPuts[i].value)'
    OBVIOUS
  <2>1. PICK o \in Requests : o = linkPuts[i].value
    BY ComingLink
  <2>2. at'[o] \in {"linked", "told"} /\ Following(o)'
    BY <2>1, ComingLink
  <2> QED
    BY <2>1, <2>2 DEF Following, Posted
<1>2. ASSUME NEW l \in SessionIds, links[l] # Nil
      PROVE  /\ links[l].ttl <= InviteLinkExpire /\ at'[links[l].value] \in {"linked", "told"}
             /\ links[l].ttl >= 0 /\ Left(links[l]) >= 0 =>
                  \/ Following(links[l].value)'
                  \/ /\ users[key'[links[l].value]] # Nil
                     /\ users[key'[links[l].value]].ttl >= Left(links[l])
  <2>1. PICK o \in Requests : o = links[l].value
    BY <1>2, StoredLink
  <2>2. links[l].ttl >= 0 /\ Left(links[l]) >= 0 =>
          \/ Following(o)'
          \/ users[key'[o]] # Nil /\ users[key'[o]].ttl >= Left(links[l])
    BY <1>2, <2>1, StoredLink
  <2> QED
    BY <1>2, <2>1, <2>2, StoredLink DEF Following, Posted
<1>3. LinksFit'
  BY <1>1, <1>2 DEF LinksFit
<1>4. LinkLeadsToUser'
  BY <1>2 DEF LinkLeadsToUser, Following, Posted
<1> QED BY <1>3, <1>4

LEMMA LinkInvNext == LinkInv /\ [Next]_vars => LinkInv'
<1> SUFFICES ASSUME LinkInv, [Next]_vars PROVE LinkInv'
  OBVIOUS
<1>0. UserInv' /\ Shape' /\ Shape
  BY UserInvNext DEF LinkInv, UserInv
<1> SUFFICES LinksFit' /\ LinkLeadsToUser'
  BY <1>0 DEF LinkInv
<1>1. CASE StoreUser
  <2> DEFINE p == Head(userPuts)
  <2>1. /\ userPuts # << >> /\ userPuts \in Seq(Users!PutRequest)
        /\ p \in Users!PutRequest
        /\ \A r : Posted(userPuts, r) <=> Posted(Tail(userPuts), r) \/ p.value = r
    BY <1>0, <1>1, PostedTail DEF StoreUser, Users!ApplyPut, Shape, TypeOK
  <2>2. p.key \in Keys /\ p.value \in Requests /\ p.life = SessionExpireMs
    BY <2>1, LifeTimes DEF Users!PutRequest
  <2>3. Stored(p.value, p.key)
    BY <1>0, <2>1, PostedTail DEF Shape, UsersFit
  <2> HIDE DEF p
  <2>4. /\ userPuts' = Tail(userPuts)
        /\ users' = [users EXCEPT ![p.key] = [value |-> p.value, ttl |-> p.life]]
        /\ late' = IF Posted(linkPuts, p.value) THEN late \cup {p.value} ELSE late
        /\ UNCHANGED <<at, key, links, linkPuts>>
    BY <1>1 DEF StoreUser, Users!ApplyPut, p, handlers
  <2>5. /\ users'[p.key] = [value |-> p.value, ttl |-> SessionExpireMs]
        /\ \A k \in Keys : k # p.key => users'[k] = users[k]
    BY <1>0, <2>2, <2>4 DEF Shape, TypeOK
  <2>6. users'[p.key] # Nil
    BY <2>2, <2>5, NilAssumption, LifeTimes
  <2>7. \A r : r # p.value \/ Posted(linkPuts, r) => (Following(r) => Following(r)')
    BY <2>1, <2>4 DEF Following, Posted
  <2>8. (\A i \in 1..Len(linkPuts) :
           at[linkPuts[i].value] \in {"linked", "told"} /\ Following(linkPuts[i].value))'
    <3> SUFFICES ASSUME NEW i \in 1..Len(linkPuts)
                 PROVE  /\ at'[linkPuts[i].value] \in {"linked", "told"}
                        /\ Following(linkPuts[i].value)'
      BY <2>4
    <3>1. PICK o \in Requests : o = linkPuts[i].value
      BY ComingLink
    <3>2. Posted(linkPuts, o)
      BY <3>1, <1>0 DEF Posted, Shape, TypeOK
    <3>3. at[o] \in {"linked", "told"} /\ Following(o)
      BY <3>1, ComingLink
    <3>4. Following(o)'
      BY <3>2, <3>3, <2>7
    <3> QED
      BY <3>1, <3>3, <3>4, <2>4 DEF Following, Posted
  <2>9. ASSUME NEW l \in SessionIds, links[l] # Nil, links[l].ttl >= 0, Left(links[l]) >= 0
        PROVE  \/ Following(links[l].value)'
               \/ /\ users'[key[links[l].value]] # Nil
                  /\ users'[key[links[l].value]].ttl >= Left(links[l])
    <3>1. PICK o \in Requests : o = links[l].value
      BY <2>9, StoredLink
    <3>2. /\ links[l].ttl \in Int /\ links[l].ttl <= InviteLinkExpire /\ key[o] \in Keys
          /\ Following(o) \/ (users[key[o]] # Nil /\ users[key[o]].ttl >= Left(links[l]))
      BY <2>9, <3>1, StoredLink
    <3>3. CASE key[o] = p.key
      BY <3>1, <3>2, <3>3, <2>5, <2>6, LifeTimes DEF Left
    <3>4. CASE key[o] # p.key
      <4>1. o # p.value
        BY <3>4, <2>3 DEF Stored
      <4>2. Following(o) => Following(o)'
        BY <4>1, <2>7
      <4>3. users'[key[o]] = users[key[o]]
        BY <3>2, <3>4, <2>5
      <4> QED
        BY <2>4, <3>1, <3>2, <4>2, <4>3 DEF Following, Posted
    <3> QED BY <3>3, <3>4
  <2>10. LinksFit'
    BY <2>4, <2>8 DEF LinksFit, LinkInv
  <2>11. LinkLeadsToUser'
    BY <2>4, <2>9 DEF LinkLeadsToUser, Following, Posted
  <2> QED BY <2>10, <2>11
<1>2. CASE StoreLink
  <2> DEFINE p == Head(linkPuts)
  <2>1. /\ linkPuts # << >> /\ linkPuts \in Seq(RegistedKeys!PutRequest)
        /\ p \in RegistedKeys!PutRequest /\ 1 \in 1..Len(linkPuts) /\ p = linkPuts[1]
        /\ \A i \in 1..Len(Tail(linkPuts)) :
             \E j \in 1..Len(linkPuts) : Tail(linkPuts)[i] = linkPuts[j]
    BY <1>0, <1>2, PostedTail DEF StoreLink, RegistedKeys!ApplyPut, Shape, TypeOK
  <2>2. p.key \in SessionIds /\ p.value \in Requests /\ p.life = InviteLinkExpire
    BY <2>1, LifeTimes DEF RegistedKeys!PutRequest
  <2>3. at[p.value] \in {"linked", "told"} /\ Following(p.value)
    BY <2>1, ComingLink
  <2> HIDE DEF p
  <2>4. /\ linkPuts' = Tail(linkPuts)
        /\ links' = [links EXCEPT ![p.key] = [value |-> p.value, ttl |-> p.life]]
        /\ UNCHANGED <<users, userPuts, at, key, late>>
    BY <1>2 DEF StoreLink, RegistedKeys!ApplyPut, p, handlers, history
  <2>5. /\ links'[p.key] = [value |-> p.value, ttl |-> InviteLinkExpire]
        /\ \A l \in SessionIds : l # p.key => links'[l] = links[l]
    BY <1>0, <2>2, <2>4 DEF Shape, TypeOK
  <2>6. \A r : Following(r)' <=> Following(r)
    BY <2>4 DEF Following, Posted
  <2>7. \A i \in 1..Len(Tail(linkPuts)) :
          /\ at[Tail(linkPuts)[i].value] \in {"linked", "told"}
          /\ Following(Tail(linkPuts)[i].value)
    BY <2>1 DEF LinkInv, LinksFit
  <2>8. LinksFit'
    <3>1. (\A i \in 1..Len(linkPuts) :
             at[linkPuts[i].value] \in {"linked", "told"} /\ Following(linkPuts[i].value))'
      BY <2>4, <2>7 DEF Following, Posted
    <3>2. ASSUME NEW l \in SessionIds, links'[l] # Nil
          PROVE  links'[l].ttl <= InviteLinkExpire /\ at[links'[l].value] \in {"linked", "told"}
      BY <3>2, <2>3, <2>5, ExpireAssumption DEF LinkInv, LinksFit
    <3> QED BY <3>1, <3>2, <2>4 DEF LinksFit
  <2>9. ASSUME NEW l \in SessionIds, links'[l] # Nil, links'[l].ttl >= 0, Left(links'[l]) >= 0
        PROVE  \/ Following(links'[l].value)
               \/ /\ users[key[links'[l].value]] # Nil
                  /\ users[key[links'[l].value]].ttl >= Left(links'[l])
    BY <2>9, <2>3, <2>5, StoredLink
  <2>10. LinkLeadsToUser'
    BY <2>4, <2>9 DEF LinkLeadsToUser, Following, Posted
  <2> QED BY <2>8, <2>10
<1>3. ASSUME NEW k \in Keys, SweepUser(k) PROVE LinksFit' /\ LinkLeadsToUser'
  <2>1. /\ users[k] # Nil /\ users[k].ttl < 0 /\ users[k].ttl \in Int
        /\ users' = [users EXCEPT ![k] = Nil]
        /\ UNCHANGED <<userPuts, at, key, links, linkPuts, late>>
    BY <1>0, <1>3 DEF SweepUser, Users!Expire, Users!Lease, Shape, TypeOK, handlers
  <2>2. \A j \in Keys : j # k => users'[j] = users[j]
    BY <1>0, <2>1 DEF Shape, TypeOK
  <2>3. LinksFit'
    BY <2>1 DEF LinkInv, LinksFit, Following, Posted
  <2>4. ASSUME NEW l \in SessionIds, links[l] # Nil, links[l].ttl >= 0, Left(links[l]) >= 0
        PROVE  \/ Following(links[l].value)
               \/ /\ users'[key[links[l].value]] # Nil
                  /\ users'[key[links[l].value]].ttl >= Left(links[l])
    <3>1. CASE key[links[l].value] = k
      BY <2>1, <2>4, <3>1, StoredLink, LifeTimes DEF Left
    <3>2. CASE key[links[l].value] # k
      BY <2>2, <2>4, <3>2, StoredLink
    <3> QED BY <3>1, <3>2
  <2>5. LinkLeadsToUser'
    BY <2>1, <2>4 DEF LinkLeadsToUser, Following, Posted
  <2> QED BY <2>3, <2>5
<1>4. ASSUME NEW l \in SessionIds, SweepLink(l) PROVE LinksFit' /\ LinkLeadsToUser'
  <2>1. /\ links' = [links EXCEPT ![l] = Nil]
        /\ UNCHANGED <<users, userPuts, at, key, linkPuts, late>>
    BY <1>4 DEF SweepLink, RegistedKeys!Expire, handlers, history
  <2>2. \A m \in SessionIds : links'[m] \in {links[m], Nil}
    BY <1>0, <2>1 DEF Shape, TypeOK
  <2>3. LinksFit'
    BY <2>1, <2>2 DEF LinkInv, LinksFit, Following, Posted
  <2>4. LinkLeadsToUser'
    BY <2>1, <2>2 DEF LinkInv, LinkLeadsToUser, Posted
  <2> QED BY <2>3, <2>4
<1>5. CASE Tick
  <2>1. /\ users' = [k \in Keys |-> Users!Older(users[k])]
        /\ links' = [l \in SessionIds |-> RegistedKeys!Older(links[l])]
        /\ UNCHANGED <<userPuts, at, key, linkPuts, late>>
    BY <1>5 DEF Tick, Users!Tick, RegistedKeys!Tick, handlers, history
  <2>2. ASSUME NEW l \in SessionIds, links'[l] # Nil
        PROVE  /\ links[l] # Nil /\ links'[l].value = links[l].value
               /\ links[l].ttl \in Int /\ links'[l].ttl \in Int /\ links'[l].ttl <= links[l].ttl
               /\ links'[l].ttl >= 0 => links'[l].ttl = links[l].ttl - 1
    <3>1. links'[l] = RegistedKeys!Older(links[l]) /\ links[l] # Nil
      BY <2>1, <2>2 DEF RegistedKeys!Older
    <3>2. links[l] \in [value : Requests, ttl : Nat \cup {-1}]
      BY <1>0, <3>1 DEF Shape, TypeOK, RegistedKeys!Lease
    <3> QED BY <3>1, <3>2 DEF RegistedKeys!Older
  <2>3. ASSUME NEW k \in Keys, users[k] # Nil, users[k].ttl >= 0
        PROVE  /\ users'[k] # Nil /\ users[k].ttl \in Int
               /\ users'[k].ttl = users[k].ttl - 1
    <3>1. users[k] \in [value : Requests, ttl : Int]
      BY <1>0, <2>3 DEF Shape, TypeOK, Users!Lease
    <3>2. users'[k] = [users[k] EXCEPT !.ttl = users[k].ttl - 1]
      BY <2>1, <2>3, <3>1 DEF Users!Older
    <3>3. users'[k] \in [value : Requests, ttl : Int]
      BY <3>1, <3>2
    <3> QED BY <3>1, <3>2, <3>3, NilAssumption
  <2>4. LinksFit'
    <3>1. (\A i \in 1..Len(linkPuts) :
             at[linkPuts[i].value] \in {"linked", "told"} /\ Following(linkPuts[i].value))'
      BY <2>1 DEF LinkInv, LinksFit, Following, Posted
    <3>2. ASSUME NEW l \in SessionIds, links'[l] # Nil
          PROVE  links'[l].ttl <= InviteLinkExpire /\ at[links'[l].value] \in {"linked", "told"}
      BY <3>2, <2>2, StoredLink, ExpireAssumption
    <3> QED BY <3>1, <3>2, <2>1 DEF LinksFit
  <2>5. ASSUME NEW l \in SessionIds, links'[l] # Nil, links'[l].ttl >= 0, Left(links'[l]) >= 0
        PROVE  \/ Following(links'[l].value)
               \/ /\ users'[key[links'[l].value]] # Nil
                  /\ users'[key[links'[l].value]].ttl >= Left(links'[l])
    <3>1. PICK o \in Requests : o = links[l].value /\ o = links'[l].value
      BY <2>2, <2>5, StoredLink
    <3>2. /\ links[l] # Nil /\ links[l].ttl \in Int /\ links[l].ttl >= 0
          /\ links'[l].ttl = links[l].ttl - 1
          /\ Left(links[l]) \in Int /\ Left(links[l]) >= 0
          /\ Left(links'[l]) = Left(links[l]) - 1 /\ Left(links'[l]) >= 0
      BY <2>2, <2>5, LifeTimes DEF Left
    <3>3. /\ key[o] \in Keys
          /\ Following(o) \/ (users[key[o]] # Nil /\ users[key[o]].ttl >= Left(links[l]))
      BY <3>1, <3>2, StoredLink
    <3>4. CASE users[key[o]] # Nil /\ users[key[o]].ttl >= Left(links[l])
      <4>1. users[key[o]].ttl \in Int
        BY <1>0, <3>3, <3>4 DEF Shape, TypeOK, Users!Lease
      <4> QED BY <2>3, <3>1, <3>2, <3>3, <3>4, <4>1
    <3> QED BY <3>1, <3>3, <3>4
  <2>6. LinkLeadsToUser'
    BY <2>1, <2>5 DEF LinkLeadsToUser, Following, Posted
  <2> QED BY <2>4, <2>6
<1>6. ASSUME NEW r \in Requests, RegisterLink(r) PROVE LinksFit' /\ LinkLeadsToUser'
  <2> DEFINE p == [key |-> link[r], value |-> r, life |-> InviteLinkExpireMs]
  <2>1. /\ at[r] = "drawn" /\ at' = [at EXCEPT ![r] = "linked"]
        /\ linkPuts' = Append(linkPuts, p) /\ links' = links
        /\ UNCHANGED <<users, userPuts, key, late>>
    BY <1>6 DEF RegisterLink, SetLink, RegistedKeys!RequestPut, history
  <2>2. /\ p \in RegistedKeys!PutRequest /\ linkPuts \in Seq(RegistedKeys!PutRequest)
        /\ p.value = r
    BY <1>0, <2>1 DEF RegistedKeys!PutRequest, Shape, GuestsFit, TypeOK
  <2> HIDE DEF p
  <2>3. \A i \in 1..Len(linkPuts') :
          linkPuts'[i] = p \/ \E j \in 1..Len(linkPuts) : linkPuts'[i] = linkPuts[j]
    BY <2>1, <2>2, PostedAppend
  <2>4. /\ at'[r] = "linked"
        /\ \A s \in Requests : at[s] \in {"linked", "told"} => at'[s] = at[s]
        /\ \A s \in Requests : Following(s) => Following(s)'
        /\ Following(r)'
    BY <1>0, <2>1 DEF Shape, TypeOK, Following, Posted
  <2>5. (\A i \in 1..Len(linkPuts) :
           at[linkPuts[i].value] \in {"linked", "told"} /\ Following(linkPuts[i].value))'
    <3> SUFFICES ASSUME NEW i \in 1..Len(linkPuts')
                 PROVE  /\ at'[linkPuts'[i].value] \in {"linked", "told"}
                        /\ Following(linkPuts[i].value)'
      OBVIOUS
    <3>1. PICK o \in Requests : /\ o = linkPuts'[i].value
                                /\ o = r \/ (at[o] \in {"linked", "told"} /\ Following(o))
      <4>1. CASE linkPuts'[i] = p
        BY <4>1, <2>2
      <4>2. ASSUME NEW j \in 1..Len(linkPuts), linkPuts'[i] = linkPuts[j]
            PROVE  /\ linkPuts'[i].value \in Requests
                   /\ at[linkPuts'[i].value] \in {"linked", "told"}
                   /\ Following(linkPuts'[i].value)
        BY <4>2, ComingLink DEF Following
      <4> QED BY <2>3, <4>1, <4>2
    <3>2. at'[o] \in {"linked", "told"} /\ Following(o)'
      BY <2>4, <3>1
    <3> QED
      BY <3>1, <3>2 DEF Following, Posted
  <2>6. LinksFit'
    BY <2>1, <2>4, <2>5, StoredLink DEF LinksFit
  <2>7. LinkLeadsToUser'
    BY <2>1, <2>4, StoredLink DEF LinkLeadsToUser, Following, Posted
  <2> QED BY <2>6, <2>7
<1>7. ASSUME NEW r \in Requests, Register(r) PROVE LinksFit' /\ LinkLeadsToUser'
  <2> DEFINE p == [key |-> key[r], value |-> r, life |-> SessionExpireMs]
  <2>1. /\ at[r] \in {"linked", "added"} /\ at' = [at EXCEPT ![r] = "told"]
        /\ userPuts' = Append(userPuts, p) /\ users' = users
        /\ UNCHANGED <<key, links, linkPuts, late>>
    BY <1>7 DEF Register, SetUser, Users!RequestPut, history
  <2>2. /\ userPuts \in Seq(Users!PutRequest) /\ p \in Users!PutRequest /\ p.value = r
    BY <1>0, <2>1 DEF Shape, TypeOK, GuestsFit, Past, Users!PutRequest
  <2> HIDE DEF p
  <2>3. \A s : Posted(userPuts', s) <=> Posted(userPuts, s) \/ r = s
    BY <2>1, <2>2, PostedAppend
  <2>4. \A s \in Requests : at[s] \in {"linked", "told"} => at'[s] \in {"linked", "told"}
    BY <1>0, <2>1 DEF Shape, TypeOK
  <2>5. \A s \in Requests : Following(s) => Following(s)'
    BY <1>0, <2>1, <2>3 DEF Following, Posted, Shape, TypeOK
  <2> QED BY <2>1, <2>4, <2>5, LinksKept
<1>8. ASSUME NEW r \in Requests, RenewSet(r) PROVE LinksFit' /\ LinkLeadsToUser'
  <2> DEFINE p == [key |-> key[r], value |-> renewing[r], life |-> SessionExpireMs]
  <2>1. /\ renewing[r] # Nil /\ userPuts' = Append(userPuts, p) /\ users' = users
        /\ UNCHANGED <<at, key, links, linkPuts, late>>
    BY <1>8 DEF RenewSet, SetUser, Users!RequestPut, handlers, history
  <2>2. userPuts \in Seq(Users!PutRequest) /\ p \in Users!PutRequest
    BY <1>0, <2>1 DEF Shape, TypeOK, SessionsFit, GuestsFit, Past, Stored, Users!PutRequest
  <2> HIDE DEF p
  <2>3. \A s : Posted(userPuts, s) => Posted(userPuts', s)
    BY <2>1, <2>2, PostedAppend
  <2>4. \A s \in Requests : Following(s) => Following(s)'
    BY <2>1, <2>3 DEF Following, Posted
  <2> QED BY <2>1, <2>4, LinksKept
<1>9. ASSUME UNCHANGED <<users, userPuts, links, linkPuts, late>>,
             \A s \in Requests : at[s] \in {"linked", "told"} => at'[s] = at[s] /\ key'[s] = key[s]
      PROVE  LinksFit' /\ LinkLeadsToUser'
  <2>1. \A s \in Requests : at[s] \in {"linked", "told"} => (Following(s) => Following(s)')
    BY <1>9 DEF Following, Posted
  <2> QED BY <1>9, <2>1, LinksKept
<1>10. CASE UserWritten \/ LinkWritten \/ UNCHANGED vars
  BY <1>9, <1>10 DEF UserWritten, LinkWritten, handlers, history, vars, caches
<1>11. ASSUME NEW r \in Requests, SignIn(r) \/ RenewGet(r) PROVE LinksFit' /\ LinkLeadsToUser'
  BY <1>9, <1>11 DEF SignIn, RenewGet, caches, handlers, history
<1>12. ASSUME NEW r \in Requests, NEW l \in SessionIds, Join(r, l) \/ DrawLink(r, l)
       PROVE  LinksFit' /\ LinkLeadsToUser'
  <2>1. /\ UNCHANGED <<users, userPuts, links, linkPuts, late, key>>
        /\ at[r] \in {"idle", "checked"}
        /\ at' \in {[at EXCEPT ![r] = "redirected"], [at EXCEPT ![r] = "drawn"]}
    BY <1>12 DEF Join, DrawLink, caches, history
  <2> QED BY <1>0, <1>9, <2>1 DEF Shape, TypeOK
<1>13. ASSUME NEW r \in Requests, SessionJoin(r) \/ FindContact(r) \/ AddContacts(r)
       PROVE  LinksFit' /\ LinkLeadsToUser'
  <2>1. /\ UNCHANGED <<users, userPuts, links, linkPuts, late, key>>
        /\ at[r] \in {"redirected", "page", "checked"}
        /\ at' \in {[at EXCEPT ![r] = "page"], [at EXCEPT ![r] = "found"],
                    [at EXCEPT ![r] = "added"]}
    BY <1>13 DEF SessionJoin, FindContact, AddContacts, caches, history
  <2> QED BY <1>0, <1>9, <2>1 DEF Shape, TypeOK
<1>14. ASSUME NEW r \in Requests, NEW k \in Keys, TryRegister(r, k)
       PROVE  LinksFit' /\ LinkLeadsToUser'
  <2>1. /\ UNCHANGED <<users, userPuts, links, linkPuts, late>>
        /\ at[r] \in {"idle", "found"}
        /\ at' = [at EXCEPT ![r] = "checked"] /\ key' = [key EXCEPT ![r] = k]
    BY <1>14 DEF TryRegister, caches
  <2> QED BY <1>0, <1>9, <2>1 DEF Shape, TypeOK
<1> QED
  BY <1>1, <1>2, <1>3, <1>4, <1>5, <1>6, <1>7, <1>8, <1>10, <1>11, <1>12, <1>13, <1>14 DEF Next

\* An invite link that is not over leads to a registered user, but for a user who is
\* still to come or was stored before the link was.  Of the two life times the proof
\* uses that they are numbers, not that they are the same one.
THEOREM LinksLeadToUsers == Spec => []LinkLeadsToUser
<1>1. Init => LinkInv
  BY LinkInvInit
<1>2. LinkInv /\ [Next]_vars => LinkInv'
  BY LinkInvNext
<1>3. LinkInv => LinkLeadsToUser
  BY DEF LinkInv
<1> QED BY <1>1, <1>2, <1>3, PTL DEF Spec

=============================================================================

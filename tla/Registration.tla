---------------------------- MODULE Registration ----------------------------
(***************************************************************************)
(* The HTTP handlers of src/tmcs/server_handler.go that sign users up, and *)
(* those a guest meets on the way: an invite link leads to its owner's     *)
(* page, the page to a registration that makes the two each other's        *)
(* contacts.  Behind them are two caches, Users and RegistedKeys, of which *)
(* this module knows what they promise (LeaseTable, which ObjectCache      *)
(* implements): a Set takes effect some time after it has returned.  What  *)
(* a lookup may see is not part of that promise: while the cache writes    *)
(* its map, a key can be missed and one that is going can still be found.  *)
(*                                                                         *)
(* A request stands for its client too, and for the user object that       *)
(* tryRegister makes.  One that is refused, or whose handler panics, goes  *)
(* no further.  A client that is told its registration has succeeded may   *)
(* connect, and its session then renews the user of its key.               *)
(***************************************************************************)
EXTENDS Integers, SequencesExt

CONSTANTS
    Requests,           \* POSTs to key/register, each with what comes before and after
    Keys,               \* fingerprints
    SessionIds,         \* what invite links are made of
    InviteLinkExpire,   \* of the configuration, in ticks
    Backlog,            \* bound: a session renews only if fewer Sets are on their way
    Nil

\* ReadConfig: both from the same field.  Nothing reads sessionExpire, which
\* README.md:100 says is the life time of a user; no property here depends on it.
InviteLinkExpireMs == InviteLinkExpire
SessionExpireMs == InviteLinkExpire

ASSUME ExpireAssumption == InviteLinkExpire \in Nat
ASSUME BacklogAssumption == Backlog \in Nat
ASSUME NilAssumption ==
    Nil \notin Requests \cup Keys \cup SessionIds \cup [value : Requests, ttl : Int]
                 \cup [key : Keys \cup SessionIds, value : Requests]

VARIABLES
    users, userPuts,    \* the cache Users: its leases, and the Sets on their way
    userWrite,          \* the entry process is putting into, or taking out of, its map
    links, linkPuts, linkWrite,    \* the cache RegistedKeys
    at,         \* [Requests -> Place]
    host,       \* [Requests -> Keys \cup {Nil}]: whose page a guest is led to
    contact,    \* [Requests -> Requests \cup {Nil}]: the user object found for it
    key,        \* [Requests -> Keys \cup {Nil}]: the fingerprint of msg.Pubkey
    link,       \* [Requests -> SessionIds \cup {Nil}]: sessionId
    contacts,   \* [Requests -> SUBSET Keys]: User.Contacts
    session,    \* [Requests -> Requests \cup {Nil}]: Session.User of the client's session
    renewing,   \* [Requests -> Requests \cup {Nil}]: what its Renew has read and not yet set
    rivals,     \* for the properties: see Overlapping
    lapsed,     \* ... requests whose key the cache has given up since it was stored
    late        \* ... requests whose user was stored while the link was on its way

caches == <<users, userPuts, userWrite, links, linkPuts, linkWrite>>
handlers == <<at, host, contact, key, link, contacts>>
sessions == <<session, renewing>>
history == <<rivals, lapsed, late>>
vars == <<caches, handlers, sessions, history>>

Place == {"idle", "redirected", "page", "found", "checked", "drawn", "linked", "added", "told"}

Users == INSTANCE LeaseTable WITH
    Values <- Requests, LifeTimes <- {SessionExpireMs},
    lease <- users, puts <- userPuts, drops <- << >>

RegistedKeys == INSTANCE LeaseTable WITH
    Keys <- SessionIds, Values <- Requests, LifeTimes <- {InviteLinkExpireMs},
    lease <- links, puts <- linkPuts, drops <- << >>

-----------------------------------------------------------------------------
(* The caches *)

\* What Get of k may return.  (The runtime may also stop the program, and a slot
\* without its pointer makes the handler panic.)
Seen(table, write, k) ==
    LET stored == IF table[k] = Nil THEN Nil ELSE table[k].value IN
      IF write = Nil THEN {stored}
      ELSE {Nil, stored} \cup (IF write.key = k THEN {write.value} ELSE {})

GetUser(k) == Seen(users, userWrite, k)
GetLink(l) == Seen(links, linkWrite, l)

SetUser(k, r) == Users!RequestPut([key |-> k, value |-> r, life |-> SessionExpireMs])
SetLink(l, r) ==
    RegistedKeys!RequestPut([key |-> l, value |-> r, life |-> InviteLinkExpireMs])

Posted(puts, r) == \E i \in DOMAIN puts : puts[i].value = r

\* A Set takes effect; that of a new key writes the map.
StoreUser ==
    /\ userWrite = Nil
    /\ Users!ApplyPut
    /\ LET p == Head(userPuts) IN
         /\ userWrite' = IF users[p.key] = Nil THEN [key |-> p.key, value |-> p.value] ELSE Nil
         /\ late' = IF Posted(linkPuts, p.value) THEN late \cup {p.value} ELSE late
    /\ UNCHANGED <<links, linkPuts, linkWrite, handlers, sessions, rivals, lapsed>>

StoreLink ==
    /\ linkWrite = Nil
    /\ RegistedKeys!ApplyPut
    /\ LET p == Head(linkPuts) IN
         linkWrite' = IF links[p.key] = Nil THEN [key |-> p.key, value |-> p.value] ELSE Nil
    /\ UNCHANGED <<users, userPuts, userWrite, handlers, sessions, history>>

\* Mutant: cleanup takes an entry that is not quite over.
SweepUser_Early(k) ==
    /\ userWrite = Nil
    /\ users[k] # Nil /\ users[k].ttl <= 0
    /\ users' = [users EXCEPT ![k] = Nil]
    /\ userWrite' = [key |-> k, value |-> users[k].value]
    /\ UNCHANGED <<userPuts, links, linkPuts, linkWrite, handlers, sessions, history>>

\* cleanup drops an entry.
SweepUser(k) ==
    /\ userWrite = Nil
    /\ Users!Expire(k)
    /\ userWrite' = [key |-> k, value |-> users[k].value]
    /\ lapsed' = lapsed \cup {r \in Requests : key[r] = k /\ at[r] = "told"
                                                /\ ~Posted(userPuts, r)}
    /\ UNCHANGED <<links, linkPuts, linkWrite, handlers, sessions, rivals, late>>

SweepLink(l) ==
    /\ linkWrite = Nil
    /\ RegistedKeys!Expire(l)
    /\ linkWrite' = [key |-> l, value |-> links[l].value]
    /\ UNCHANGED <<users, userPuts, userWrite, handlers, sessions, history>>

UserWritten ==
    /\ userWrite # Nil
    /\ userWrite' = Nil
    /\ UNCHANGED <<users, userPuts, links, linkPuts, linkWrite, handlers, sessions, history>>

LinkWritten ==
    /\ linkWrite # Nil
    /\ linkWrite' = Nil
    /\ UNCHANGED <<users, userPuts, userWrite, links, linkPuts, handlers, sessions, history>>

Tick ==
    /\ Users!Tick
    /\ RegistedKeys!Tick
    /\ UNCHANGED <<userWrite, linkWrite, handlers, sessions, history>>

-----------------------------------------------------------------------------
(* A guest's way to a registration *)

\* handleJoin: redirect to the page of the user whose key the link has.
Join(r, l) ==
    /\ at[r] = "idle"
    /\ \E o \in GetLink(l) \ {Nil} : host' = [host EXCEPT ![r] = key[o]]
    /\ at' = [at EXCEPT ![r] = "redirected"]
    /\ UNCHANGED <<caches, contact, key, link, contacts, sessions, history>>

\* handleSessionJoin: the page is there as long as its user is.
SessionJoin(r) ==
    /\ at[r] = "redirected"
    /\ GetUser(host[r]) # {Nil}
    /\ at' = [at EXCEPT ![r] = "page"]
    /\ UNCHANGED <<caches, host, contact, key, link, contacts, sessions, history>>

\* handleSessionRegister up to tryRegister.
FindContact(r) ==
    /\ at[r] = "page"
    /\ \E c \in GetUser(host[r]) \ {Nil} : contact' = [contact EXCEPT ![r] = c]
    /\ at' = [at EXCEPT ![r] = "found"]
    /\ UNCHANGED <<caches, host, key, link, contacts, sessions, history>>

-----------------------------------------------------------------------------
(* Registration *)

Past(r) == at[r] \in {"checked", "drawn", "linked", "added", "told"}

\* Users of key k that are still to be stored: their handlers have looked for the
\* key and not sent their Set, or it has not taken effect, or a Renew has read them.
Coming(k) ==
    {r \in Requests :
       /\ key[r] = k
       /\ \/ Past(r) /\ at[r] # "told"
          \/ Posted(userPuts, r)
          \/ \E s \in Requests : renewing[s] = r}

\* Who is overlooked by a lookup of k that misses: they, and all users of the key
\* when the cache is writing its map and the key is there or going.
Overlapping(k) ==
    Coming(k) \cup (IF userWrite # Nil /\ (users[k] # Nil \/ userWrite.key = k)
                    THEN {r \in Requests : key[r] = k} ELSE {})

\* Mutant: tryRegister without its Has.
Has_Never(k) == {FALSE}

Has(k) == {u # Nil : u \in GetUser(k)}

\* tryRegister: a request in order, whose key is not found.
TryRegister(r, k) ==
    /\ at[r] \in {"idle", "found"}
    /\ FALSE \in Has(k)
    /\ key' = [key EXCEPT ![r] = k]
    /\ rivals' = [rivals EXCEPT ![r] = Overlapping(k)]
    /\ at' = [at EXCEPT ![r] = "checked"]
    /\ UNCHANGED <<caches, host, contact, link, contacts, sessions, lapsed, late>>

\* handleRegister: a session id is drawn until one is not found.
DrawLink(r, l) ==
    /\ at[r] = "checked" /\ contact[r] = Nil
    /\ Nil \in GetLink(l)
    /\ link' = [link EXCEPT ![r] = l]
    /\ at' = [at EXCEPT ![r] = "drawn"]
    /\ UNCHANGED <<caches, host, contact, key, contacts, sessions, history>>

RegisterLink(r) ==
    /\ at[r] = "drawn"
    /\ SetLink(link[r], r)
    /\ at' = [at EXCEPT ![r] = "linked"]
    /\ UNCHANGED <<users, userPuts, userWrite, linkWrite, host, contact, key, link, contacts,
                   sessions, history>>

\* handleSessionRegister: AddContact on both sides, unless the contact has too many.
AddContacts(r) ==
    /\ at[r] = "checked" /\ contact[r] # Nil
    /\ contacts' = [contacts EXCEPT ![contact[r]] = @ \cup {key[r]},
                                    ![r] = {key[contact[r]]}]
    /\ at' = [at EXCEPT ![r] = "added"]
    /\ UNCHANGED <<caches, host, contact, key, link, sessions, history>>

\* Both end with the Set of the user and the answer.
Register(r) ==
    /\ at[r] \in {"linked", "added"}
    /\ SetUser(key[r], r)
    /\ at' = [at EXCEPT ![r] = "told"]
    /\ UNCHANGED <<userWrite, links, linkPuts, linkWrite, host, contact, key, link, contacts,
                   sessions, history>>

-----------------------------------------------------------------------------
(* Sessions *)

\* The handshake of a client that has been told it is registered, the first one or
\* another after its connection has broken.
SignIn(r) ==
    /\ at[r] = "told"
    /\ \E o \in GetUser(key[r]) \ {Nil} : session' = [session EXCEPT ![r] = o]
    /\ UNCHANGED <<caches, handlers, renewing, history>>

\* Mutant: the session puts back the user it has.
Renewed_Own(r) == {session[r]}

\* userRenewer looks the key up, so it renews whoever is registered under it.
Renewed(r) == GetUser(key[r]) \ {Nil}

RenewGet(r) ==
    /\ session[r] # Nil /\ renewing[r] = Nil
    /\ \E u \in Renewed(r) : renewing' = [renewing EXCEPT ![r] = u]
    /\ UNCHANGED <<caches, handlers, session, history>>

RenewSet(r) ==
    /\ renewing[r] # Nil
    /\ Len(userPuts) < Backlog
    /\ SetUser(key[r], renewing[r])
    /\ renewing' = [renewing EXCEPT ![r] = Nil]
    /\ UNCHANGED <<userWrite, links, linkPuts, linkWrite, handlers, session, history>>

-----------------------------------------------------------------------------

Init ==
    /\ Users!Init /\ userWrite = Nil
    /\ RegistedKeys!Init /\ linkWrite = Nil
    /\ at = [r \in Requests |-> "idle"]
    /\ host = [r \in Requests |-> Nil]
    /\ contact = [r \in Requests |-> Nil]
    /\ key = [r \in Requests |-> Nil]
    /\ link = [r \in Requests |-> Nil]
    /\ contacts = [r \in Requests |-> {}]
    /\ session = [r \in Requests |-> Nil]
    /\ renewing = [r \in Requests |-> Nil]
    /\ rivals = [r \in Requests |-> {}]
    /\ lapsed = {} /\ late = {}

Next ==
    \/ StoreUser \/ UserWritten \/ (\E k \in Keys : SweepUser(k))
    \/ StoreLink \/ LinkWritten \/ (\E l \in SessionIds : SweepLink(l))
    \/ Tick
    \/ \E r \in Requests :
         \/ \E l \in SessionIds : Join(r, l) \/ DrawLink(r, l)
         \/ SessionJoin(r) \/ FindContact(r)
         \/ \E k \in Keys : TryRegister(r, k)
         \/ RegisterLink(r) \/ AddContacts(r) \/ Register(r)
         \/ SignIn(r) \/ RenewGet(r) \/ RenewSet(r)

Spec == Init /\ [][Next]_vars

-----------------------------------------------------------------------------
(* Properties *)

\* The types of the variables.
TypeOK ==
    /\ users \in [Keys -> Users!Lease \cup {Nil}]
    /\ userPuts \in Seq(Users!PutRequest)
    /\ userWrite \in [key : Keys, value : Requests] \cup {Nil}
    /\ links \in [SessionIds -> RegistedKeys!Lease \cup {Nil}]
    /\ linkPuts \in Seq(RegistedKeys!PutRequest)
    /\ linkWrite \in [key : SessionIds, value : Requests] \cup {Nil}
    /\ at \in [Requests -> Place]
    /\ host \in [Requests -> Keys \cup {Nil}]
    /\ contact \in [Requests -> Requests \cup {Nil}]
    /\ key \in [Requests -> Keys \cup {Nil}]
    /\ link \in [Requests -> SessionIds \cup {Nil}]
    /\ contacts \in [Requests -> SUBSET Keys]
    /\ session \in [Requests -> Requests \cup {Nil}]
    /\ renewing \in [Requests -> Requests \cup {Nil}]
    /\ rivals \in [Requests -> SUBSET Requests]
    /\ lapsed \subseteq Requests /\ late \subseteq Requests

Overlapped(r, s) == r \in rivals[s] \/ s \in rivals[r]

\* One user object takes another's place in the cache only if the registrations
\* overlapped: the second was checked before the first was stored, or while a
\* Renew that had read the first was still to be carried out.
TakeoverNeedsOverlap ==
    [][\A k \in Keys :
         users[k] # Nil /\ users'[k] # Nil /\ users[k].value # users'[k].value
           => Overlapped(users[k].value, users'[k].value)]_vars

\* A client whose session has another user object than the one messages for its
\* key are posted to has let its registration lapse, or has registered at the
\* same time as the other.
SessionIsReached ==
    \A r \in Requests :
      LET o == session[r] IN
        o # Nil /\ users[key[r]] # Nil =>
          LET u == users[key[r]].value IN u = o \/ o \in lapsed \/ Overlapped(o, u)

\* What is left at least of the life of a user who was stored no earlier than his
\* link l, whatever the two life times are.
Left(l) == l.ttl + SessionExpireMs - InviteLinkExpireMs

\* An invite link that is not over leads to a user who is registered for as long as
\* his own life time lasts, though he may never have come back: unless the Set of
\* the user is yet to come or to take effect, or has overtaken that of the link.
LinkLeadsToUser ==
    \A l \in SessionIds :
      links[l] # Nil /\ links[l].ttl >= 0 /\ Left(links[l]) >= 0 =>
        LET o == links[l].value IN
          \/ at[o] = "linked" \/ Posted(userPuts, o) \/ o \in late
          \/ users[key[o]] # Nil /\ users[key[o]].ttl >= Left(links[l])

=============================================================================

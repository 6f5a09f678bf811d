----------------------------- MODULE LeaseTable -----------------------------
(***************************************************************************)
(* What src/cache/object_cache.go promises its users, with none of its     *)
(* machinery: a table of leased values and two mailboxes.                  *)
(*                                                                         *)
(*   - a put and a drop are requests: they take effect later, puts in the  *)
(*     order they were posted and drops in the order they were posted, but *)
(*     a put and a drop may overtake each other (two Go channels);         *)
(*   - a put replaces the value and restarts the lease from the moment it  *)
(*     takes effect;                                                       *)
(*   - a lease ends by a drop or, at some moment after its time is over,   *)
(*     by expiry.  Nothing else removes or alters an entry.                *)
(*                                                                         *)
(* ObjectCache implements this specification (ObjectCache!Implements).     *)
(***************************************************************************)
EXTENDS Integers, Sequences

CONSTANTS
    Keys,       \* fingerprints, session ids
    Values,     \* what is stored (users, keys)
    LifeTimes,  \* the life times requests carry, in ticks: numbers
    Nil         \* no lease: not a member of Lease

\* A value and the ticks its lease has left; -1 is "over".
Lease == [value : Values, ttl : Nat \cup {-1}]

PutRequest == [key : Keys, value : Values, life : LifeTimes]

VARIABLES
    lease,  \* [Keys -> Lease \cup {Nil}]
    puts,   \* put requests that have not taken effect
    drops   \* keys whose drop has not taken effect

tableVars == <<lease, puts, drops>>

-----------------------------------------------------------------------------

Init ==
    /\ lease = [k \in Keys |-> Nil]
    /\ puts = << >>
    /\ drops = << >>

RequestPut(r) ==
    /\ puts' = Append(puts, r)
    /\ UNCHANGED <<lease, drops>>

RequestDrop(k) ==
    /\ drops' = Append(drops, k)
    /\ UNCHANGED <<lease, puts>>

ApplyPut ==
    /\ puts # << >>
    /\ LET r == Head(puts) IN
         lease' = [lease EXCEPT ![r.key] = [value |-> r.value, ttl |-> r.life]]
    /\ puts' = Tail(puts)
    /\ UNCHANGED drops

ApplyDrop ==
    /\ drops # << >>
    /\ lease' = [lease EXCEPT ![Head(drops)] = Nil]
    /\ drops' = Tail(drops)
    /\ UNCHANGED puts

\* Only a lease whose time is over may be dropped unasked.
Expire(k) ==
    /\ lease[k] # Nil
    /\ lease[k].ttl < 0
    /\ lease' = [lease EXCEPT ![k] = Nil]
    /\ UNCHANGED <<puts, drops>>

\* One tick of the clock for a lease.
Older(l) ==
    IF l = Nil \/ l.ttl < 0 THEN l ELSE [l EXCEPT !.ttl = l.ttl - 1]

Tick ==
    /\ lease' = [k \in Keys |-> Older(lease[k])]
    /\ UNCHANGED <<puts, drops>>

Next ==
    \/ \E r \in PutRequest : RequestPut(r)
    \/ \E k \in Keys : RequestDrop(k) \/ Expire(k)
    \/ ApplyPut
    \/ ApplyDrop
    \/ Tick

Spec == Init /\ [][Next]_tableVars

=============================================================================

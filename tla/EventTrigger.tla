---------------------------- MODULE EventTrigger ----------------------------
(***************************************************************************)
(* PromiseEventTrigger of src/www/lib/tmcs-anonymous/src/event.ts: an      *)
(* event with one listener, which keeps what is triggered while it has     *)
(* none.                                                                   *)
(***************************************************************************)
EXTENDS Sequences

CONSTANT NoListener

NewTrigger == [listener |-> NoListener, eventqueue |-> << >>]

\* on: the new listener replaces the old one and gets the queued events.
On(t, l) == [listener |-> l, eventqueue |-> << >>]
DispatchedOn(t) == t.eventqueue

\* trigger: without a listener the event is queued.
Trigger(t, e) ==
    IF t.listener = NoListener THEN [t EXCEPT !.eventqueue = Append(@, e)] ELSE t

\* What trigger gives to the listener at once.
Dispatched(t, e) == IF t.listener = NoListener THEN << >> ELSE <<e>>

\* off: from now on events are queued again.
Off(t) == [t EXCEPT !.listener = NoListener]

=============================================================================

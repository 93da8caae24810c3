----------------------------- MODULE UnleashEvents -----------------------------
(***************************************************************************)
(* The event handlers of the Unleash provider (unleash/events.py): the     *)
(* client's polling thread runs the handlers of an event by iterating over *)
(* the list of them, while the application, in other threads or in the     *)
(* handlers themselves, adds and removes handlers of the same event.  One  *)
(* event type is modelled: each has a list of its own, and the client      *)
(* emits the events of a type from one thread.  UnleashProvider composes   *)
(* these actions with the provider's own.                                  *)
(***************************************************************************)
EXTENDS Naturals, SequencesExt

CONSTANTS
    Handlers,           \* handlers the application may register
    OneShot,            \* those that remove themselves when they are called
    Raising,            \* those that raise an exception
    RemovesDuringEmit,  \* other threads remove handlers while an event is emitted
    MaxRegistered       \* bound: length of the list

ASSUME EventsAssumption ==
    /\ OneShot \subseteq Handlers /\ Raising \subseteq Handlers
    /\ RemovesDuringEmit \in BOOLEAN
    /\ MaxRegistered \in Nat

VARIABLES
    handlers,       \* _event_handlers[event_type], duplicates included
    emitting,       \* emit_event is in its loop
    pos,            \* how many elements its iterator has yielded
    called,         \* handlers it has called
    due             \* history: handlers registered when it began and ever since

eventVars == <<handlers, emitting, pos, called, due>>

-----------------------------------------------------------------------------
EventTypes ==
    /\ handlers \in Seq(Handlers) /\ Len(handlers) <= MaxRegistered
    /\ emitting \in BOOLEAN
    /\ pos \in 0..MaxRegistered
    /\ called \subseteq Handlers /\ due \subseteq Handlers

EventInit ==
    /\ handlers = <<>> /\ emitting = FALSE
    /\ pos = 0 /\ called = {} /\ due = {}

\* Nothing stops a handler from being registered twice.
AddHandler(h) ==
    /\ Len(handlers) < MaxRegistered
    /\ handlers' = Append(handlers, h)
    /\ UNCHANGED <<emitting, pos, called, due>>

\* list.remove takes the first occurrence; what is behind it moves up.
ListRemove(h) ==
    \E i \in 1..Len(handlers) :
        /\ handlers[i] = h /\ \A j \in 1..(i - 1) : handlers[j] # h
        /\ handlers' = RemoveAt(handlers, i)

RemoveHandler(h) ==
    /\ emitting => RemovesDuringEmit
    /\ ListRemove(h)
    /\ due' = due \cap ToSet(handlers')
    /\ UNCHANGED <<emitting, pos, called>>

EmitEvent ==
    /\ ~emitting
    /\ emitting' = TRUE
    /\ pos' = 0 /\ called' = {} /\ due' = ToSet(handlers)
    /\ UNCHANGED handlers

\* What a handler does to the list when it is called.
AfterCall(h) == IF h \in OneShot THEN ListRemove(h) ELSE UNCHANGED handlers

\* Mutant of Call: an exception of a handler ends the loop.
CallUnsuppressed ==
    /\ emitting /\ pos < Len(handlers)
    /\ LET h == handlers[pos + 1] IN
       /\ called' = called \cup {h}
       /\ emitting' = (h \notin Raising)
       /\ AfterCall(h)
    /\ pos' = pos + 1
    /\ UNCHANGED due

\* Mutant of Call: the iterator is advanced twice.
CallTwice ==
    /\ emitting /\ pos < Len(handlers)
    /\ LET h == handlers[pos + 1] IN
       /\ called' = called \cup {h}
       /\ AfterCall(h)
    /\ pos' = pos + 2
    /\ UNCHANGED <<emitting, due>>

\* One turn of the loop; an exception of the handler is suppressed.
Call ==
    /\ emitting /\ pos < Len(handlers)
    /\ LET h == handlers[pos + 1] IN
       /\ called' = called \cup {h}
       /\ AfterCall(h)
    /\ pos' = pos + 1
    /\ UNCHANGED <<emitting, due>>

\* The iterator is exhausted: it compares its position with the list's length.
Done ==
    /\ emitting /\ pos >= Len(handlers)
    /\ emitting' = FALSE
    /\ UNCHANGED <<handlers, pos, called, due>>

-----------------------------------------------------------------------------
(* Properties.                                                              *)

\* "Emit an event to all registered handlers" (emit_event's docstring): when
\* the loop has ended, every handler that was registered when it began, and
\* that nobody else removed, has been called, however many handlers raise an
\* exception or are registered meanwhile.
AllCalled == ~emitting => due \subseteq called
=============================================================================

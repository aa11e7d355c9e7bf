------------------------------ MODULE AuditLog ------------------------------
(***************************************************************************)
(* What the registry promises of its audit trail: a mutation states an     *)
(* intent, and every intent becomes one event of an append-only log.       *)
(***************************************************************************)
EXTENDS Sequences, FiniteSets

CONSTANTS
    Events,
    Reliable  \* the events whose intent is kept until they are logged

VARIABLES
    intents,  \* events some mutation has asked for
    events    \* the log, oldest first

avars == <<intents, events>>

Logged == {events[i] : i \in DOMAIN events}

Init == intents = {} /\ events = <<>>

\* A mutation commits and asks for the event.
Intend(e) ==
    /\ e \notin intents
    /\ intents' = intents \cup {e}
    /\ UNCHANGED events

\* The event is appended, once.
Publish(e) ==
    /\ e \in intents \ Logged
    /\ events' = Append(events, e)
    /\ UNCHANGED intents

Next == \E e \in Events : Intend(e) \/ Publish(e)

\* Safety: nothing is logged twice, unasked, or removed.
SafeSpec == Init /\ [][Next]_avars

\* Every reliable intent is eventually logged.
Spec == SafeSpec /\ \A e \in Reliable : WF_avars(Publish(e))
=============================================================================

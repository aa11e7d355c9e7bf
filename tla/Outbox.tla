------------------------------- MODULE Outbox -------------------------------
(***************************************************************************)
(* Delivery of the registry's audit events.  A mutation's transaction      *)
(* inserts a row into registry_outbox; drain_outbox moves the pending rows *)
(* to registry_events, a hash-chained log.  Draining is done by every      *)
(* handler after its mutation and by a background task once a second, so   *)
(* several drains run at once, each on its own snapshot of the pending     *)
(* rows, and any of them may fail or stop between two statements           *)
(* (postgres_api.rs, control_plane.rs, main.rs).                           *)
(*                                                                         *)
(* Some handlers append to the log directly, without an outbox row         *)
(* (append_event): these have no retry.                                    *)
(***************************************************************************)
EXTENDS Integers, Sequences, FiniteSets

CONSTANTS
    Worker,       \* the background task of main.rs
    Handlers,     \* request handlers that drain after their mutation
    Entries,      \* outbox rows, numbered by their id column
    Direct,       \* events appended directly
    Genesis,      \* previous_hash of the first event, and "no event"
    BatchLimit,   \* LIMIT of pending_outbox (100 in drain_outbox)
    MaxFaults     \* bound: errors and crashes in one behaviour

Drainers == {Worker} \cup Handlers
Events == Entries \cup Direct

ASSUME OutboxAssumption ==
    /\ Entries \subseteq Nat
    /\ IsFiniteSet(Entries)
    /\ Entries \cap Direct = {}
    /\ Genesis \notin Events
    /\ Worker \notin Handlers
    /\ BatchLimit \in Nat \ {0}
    /\ MaxFaults \in Nat

VARIABLES
    outbox,     \* [Entries -> state of the row]
    deferred,   \* rows whose available_at lies in the future
    log,        \* registry_events by sequence: key and previous event
    pc,         \* [Drainers -> where the drain stands]
    batch,      \* [Drainers -> rows of its snapshot not yet taken up]
    item,       \* [Drainers -> event in hand]
    previous,   \* [Drainers -> last event read under the log's lock]
    requested,  \* direct events some handler has asked for
    faults      \* errors and crashes so far

rows == <<outbox, deferred>>
drain == <<pc, batch, item, previous>>
vars == <<rows, log, drain, requested, faults>>

Logged == {log[i].key : i \in DOMAIN log}
LastEvent == IF log = <<>> THEN Genesis ELSE log[Len(log)].key

\* Faulty: the advisory lock is not taken.  (As in Registry, nothing uses a
\* variant marked "Faulty:"; in its original's place it makes a property fail.)
LogNeverLocked == FALSE

\* pg_advisory_xact_lock(0x4f415448), held to the end of the append's
\* transaction.
LogLocked == \E d \in Drainers : pc[d] = "insert"

\* pending_outbox: undelivered and available, the lowest ids first.
Available == {e \in Entries : outbox[e] = "pending" /\ e \notin deferred}
PendingBatch ==
    {e \in Available : Cardinality({x \in Available : x < e}) < BatchLimit}

Goto(d, label) == pc' = [pc EXCEPT ![d] = label]

\* The drain (or direct append) is over: nothing is held.
Stop(d) ==
    /\ Goto(d, "idle")
    /\ batch' = [batch EXCEPT ![d] = {}]
    /\ item' = [item EXCEPT ![d] = Genesis]
    /\ previous' = [previous EXCEPT ![d] = Genesis]

Fault == faults < MaxFaults /\ faults' = faults + 1

-----------------------------------------------------------------------------
\* A mutation commits its outbox row.  The id comes from a sequence outside the
\* transaction's order, so a lower id may become visible later.
Enqueue(e) ==
    /\ outbox[e] = "absent"
    /\ outbox' = [outbox EXCEPT ![e] = "pending"]
    /\ UNCHANGED <<deferred, log, drain, requested, faults>>

\* Faulty: available_at is written in another unit and lies beyond any now.
TickNever ==
    /\ deferred # deferred
    /\ deferred' = {}
    /\ UNCHANGED <<outbox, log, drain, requested, faults>>

\* retry_outbox put available_at five seconds ahead: they pass.
Tick ==
    /\ deferred # {}
    /\ deferred' = {}
    /\ UNCHANGED <<outbox, log, drain, requested, faults>>

\* drain_outbox reads its snapshot of the pending rows.
StartDrain(d) ==
    /\ pc[d] = "idle"
    /\ PendingBatch # {}
    /\ Goto(d, "next")
    /\ batch' = [batch EXCEPT ![d] = PendingBatch]
    /\ UNCHANGED <<rows, log, item, previous, requested, faults>>

\* append_event, from a handler, with a key derived from the event.
StartDirect(h, e) ==
    /\ pc[h] = "idle"
    /\ Goto(h, "append")
    /\ item' = [item EXCEPT ![h] = e]
    /\ requested' = requested \cup {e}
    /\ UNCHANGED <<rows, log, batch, previous, faults>>

\* The loop of drain_outbox takes up the next row, by id.
TakeNext(d) ==
    /\ pc[d] = "next"
    /\ \E e \in batch[d] :
           /\ \A x \in batch[d] : e <= x
           /\ item' = [item EXCEPT ![d] = e]
           /\ batch' = [batch EXCEPT ![d] = @ \ {e}]
    /\ Goto(d, "append")
    /\ UNCHANGED <<rows, log, previous, requested, faults>>

EndDrain(d) ==
    /\ pc[d] = "next"
    /\ batch[d] = {}
    /\ Stop(d)
    /\ UNCHANGED <<rows, log, requested, faults>>

\* Where a successful append leads: drain_outbox marks the row, a direct
\* append is done.
Appended(d) ==
    IF item[d] \in Direct THEN Stop(d)
    ELSE Goto(d, "mark") /\ UNCHANGED <<batch, item, previous>>

\* Where a failed append leads: drain_outbox defers the row; a direct append
\* answers with an error and is not repeated.
AppendError(d) ==
    IF item[d] \in Direct THEN Stop(d)
    ELSE Goto(d, "retry") /\ UNCHANGED <<batch, item, previous>>

\* append_event_keyed finds the key in the log: nothing to insert.
FindLogged(d) ==
    /\ pc[d] = "append"
    /\ ~ LogLocked
    /\ item[d] \in Logged
    /\ Appended(d)
    /\ UNCHANGED <<rows, log, requested, faults>>

\* append_event_keyed, with the lock, reads the event it will chain to.
LockLog(d) ==
    /\ pc[d] = "append"
    /\ ~ LogLocked
    /\ item[d] \notin Logged
    /\ Goto(d, "insert")
    /\ previous' = [previous EXCEPT ![d] = LastEvent]
    /\ UNCHANGED <<rows, log, batch, item, requested, faults>>

Inserted(d) == Append(log, [key |-> item[d], previous |-> previous[d]])

\* The event is inserted and the transaction commits.
InsertEvent(d) ==
    /\ pc[d] = "insert"
    /\ log' = Inserted(d)
    /\ Appended(d)
    /\ UNCHANGED <<rows, requested, faults>>

\* The transaction fails; or it commits and the connection breaks before the
\* answer arrives, so that an event already in the log is reported as failed.
AppendFails(d) ==
    /\ pc[d] \in {"append", "insert"}
    /\ \/ UNCHANGED log
       \/ pc[d] = "insert" /\ log' = Inserted(d)
    /\ AppendError(d)
    /\ Fault
    /\ UNCHANGED <<rows, requested>>

\* mark_outbox_delivered.
MarkDelivered(d) ==
    /\ pc[d] = "mark"
    /\ outbox' = [outbox EXCEPT ![item[d]] = "delivered"]
    /\ Goto(d, "next")
    /\ item' = [item EXCEPT ![d] = Genesis]
    /\ previous' = [previous EXCEPT ![d] = Genesis]
    /\ UNCHANGED <<deferred, log, batch, requested, faults>>

\* Faulty: the event of an append that seemed to fail is deleted from the log.
RetryLaterUndoing(d) ==
    /\ pc[d] = "retry"
    /\ deferred' = deferred \cup {item[d]}
    /\ log' = SelectSeq(log, LAMBDA event : event.key # item[d])
    /\ Goto(d, "next")
    /\ item' = [item EXCEPT ![d] = Genesis]
    /\ previous' = [previous EXCEPT ![d] = Genesis]
    /\ UNCHANGED <<outbox, batch, requested, faults>>

\* retry_outbox: available again in five seconds.
RetryLater(d) ==
    /\ pc[d] = "retry"
    /\ deferred' = deferred \cup {item[d]}
    /\ Goto(d, "next")
    /\ item' = [item EXCEPT ![d] = Genesis]
    /\ previous' = [previous EXCEPT ![d] = Genesis]
    /\ UNCHANGED <<outbox, log, batch, requested, faults>>

\* The update of the row fails, which ends drain_outbox with the error; or the
\* process stops anywhere.  An open transaction rolls back.
Abandon(d) ==
    /\ pc[d] # "idle"
    /\ Stop(d)
    /\ Fault
    /\ UNCHANGED <<rows, log, requested>>

-----------------------------------------------------------------------------
Init ==
    /\ outbox = [e \in Entries |-> "absent"]
    /\ deferred = {}
    /\ log = <<>>
    /\ pc = [d \in Drainers |-> "idle"]
    /\ batch = [d \in Drainers |-> {}]
    /\ item = [d \in Drainers |-> Genesis]
    /\ previous = [d \in Drainers |-> Genesis]
    /\ requested = {}
    /\ faults = 0

\* The steps of one drain that need no fault.
Progress(d) ==
    \/ StartDrain(d)
    \/ TakeNext(d)
    \/ EndDrain(d)
    \/ FindLogged(d)
    \/ LockLog(d)
    \/ InsertEvent(d)
    \/ MarkDelivered(d)
    \/ RetryLater(d)

Next ==
    \/ \E e \in Entries : Enqueue(e)
    \/ Tick
    \/ \E h \in Handlers, e \in Direct : StartDirect(h, e)
    \/ \E d \in Drainers : Progress(d) \/ AppendFails(d) \/ Abandon(d)

Spec == Init /\ [][Next]_vars

\* The background task loops for ever and only logs an error, so it keeps
\* taking steps; the clock advances; and a handler inside a transaction ends
\* it, for PostgreSQL rolls back a transaction whose connection is gone.
\* Handlers need not take any other step.
Fairness ==
    /\ WF_vars(Progress(Worker))
    /\ WF_vars(Tick)
    /\ \A h \in Handlers : WF_vars(InsertEvent(h))

FairSpec == Spec /\ Fairness

-----------------------------------------------------------------------------
\* The drains' local variables and the tables have their shapes.
TypeOK ==
    /\ outbox \in [Entries -> {"absent", "pending", "delivered"}]
    /\ deferred \subseteq Entries
    /\ log \in Seq([key : Events, previous : Events \cup {Genesis}])
    /\ pc \in [Drainers -> {"idle", "next", "append", "insert", "mark", "retry"}]
    /\ batch \in [Drainers -> SUBSET Entries]
    /\ item \in [Drainers -> Events \cup {Genesis}]
    /\ previous \in [Drainers -> Events \cup {Genesis}]
    /\ requested \subseteq Direct
    /\ faults \in 0..MaxFaults

\* However many drains, retries and repeated deliveries, an event key is
\* inserted into the log once: the key is looked up under the log's lock, so
\* the unique index on event_key never has to refuse an insert.
NoDuplicates ==
    \A i, j \in DOMAIN log : log[i].key = log[j].key => i = j

\* Every event carries the hash of the event before it, so the chain can be
\* verified from GENESIS.
ChainUnbroken ==
    \A i \in DOMAIN log :
        log[i].previous = IF i = 1 THEN Genesis ELSE log[i - 1].key

\* A row is marked delivered only when its event is in the log, and an event
\* is in the log only if its mutation committed or its handler asked for it.
DeliveredIsLogged ==
    /\ \A e \in Entries : outbox[e] = "delivered" => e \in Logged
    /\ \A e \in Logged : IF e \in Direct THEN e \in requested
                         ELSE outbox[e] # "absent"

\* The tables stay well formed, and the log is one chain of distinct events
\* somebody asked for, under concurrent drains, failed appends and lost
\* acknowledgements (drain_audit_outbox, append_event).
LogSound == TypeOK /\ NoDuplicates /\ ChainUnbroken /\ DeliveredIsLogged

\* An event whose mutation committed reaches the log and its row is retired,
\* although appends fail and drains are abandoned finitely often.
EventuallyDelivered ==
    \A e \in Entries :
        outbox[e] = "pending" ~> (e \in Logged /\ outbox[e] = "delivered")

\* The audit trail the registry promises: the committed rows and the requests
\* for direct events are the intents; only rows are sure to be logged.
Trail == INSTANCE AuditLog WITH
    Events <- Events,
    Reliable <- Entries,
    intents <- {e \in Entries : outbox[e] # "absent"} \cup requested,
    events <- [i \in DOMAIN log |-> log[i].key]

\* The outbox and its drains implement the audit trail.
ImplementsTrail == Trail!Spec

\* Its safety part: nothing is logged twice, unasked, or removed.
ImplementsSafeTrail == Trail!SafeSpec
=============================================================================

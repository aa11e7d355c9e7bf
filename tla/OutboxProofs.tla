---------------------------- MODULE OutboxProofs ----------------------------
(***************************************************************************)
(* Proofs about Outbox: the audit log stays one chain of distinct events   *)
(* somebody asked for, and the outbox with its drains implements the       *)
(* append-only trail of module AuditLog, for every number of handlers,     *)
(* rows, direct events and faults.                                         *)
(***************************************************************************)
EXTENDS Outbox, SequenceTheorems, TLAPS

LogRows == [key : Events, previous : Events \cup {Genesis}]

\* Somebody asked for the event: its row is committed, or a handler wants it.
Asked(e) == IF e \in Direct THEN e \in requested ELSE outbox[e] # "absent"

\* The advisory lock: one append is between its reads and its insert.
OneAppends ==
    \A c, d \in Drainers : pc[c] = "insert" /\ pc[d] = "insert" => c = d

\* What an append read under the lock is still true: the event is not there,
\* and the last event is the one it will chain to.
ReadsHold ==
    \A d \in Drainers : pc[d] = "insert" =>
        item[d] \notin Logged /\ previous[d] = LastEvent

\* Nobody carries an event nobody asked for; only rows are marked or
\* deferred, and only a row whose event is logged is marked.
CarriesAsked ==
    \A d \in Drainers :
        /\ \A e \in batch[d] : outbox[e] # "absent"
        /\ pc[d] \in {"append", "insert", "mark", "retry"} =>
               item[d] \in Events /\ Asked(item[d])
        /\ pc[d] \in {"mark", "retry"} => item[d] \in Entries
        /\ pc[d] = "mark" => item[d] \in Logged

\* The inductive invariant.
OutboxInv ==
    /\ TypeOK /\ NoDuplicates /\ ChainUnbroken /\ DeliveredIsLogged
    /\ OneAppends /\ ReadsHold /\ CarriesAsked

-----------------------------------------------------------------------------
\* What appending a row does to the log's keys and its last event.
LEMMA AppendLogs ==
    ASSUME TypeOK, NEW e \in Events, NEW p \in Events \cup {Genesis},
           log' = Append(log, [key |-> e, previous |-> p])
    PROVE  /\ log' \in Seq(LogRows)
           /\ Logged' = Logged \cup {e} /\ LastEvent' = e
           /\ DOMAIN log = 1..Len(log) /\ Len(log) \in Nat
           /\ DOMAIN log' = 1..(Len(log) + 1)
           /\ \A i \in DOMAIN log : log'[i] = log[i]
           /\ log'[Len(log) + 1] = [key |-> e, previous |-> p]
<1> DEFINE row == [key |-> e, previous |-> p]
<1>1. log \in Seq(LogRows) /\ row \in LogRows /\ row.key = e
  BY DEF TypeOK, LogRows
<1>2. log' = Append(log, row)
  OBVIOUS
<1> HIDE DEF row
<1>3. /\ log' \in Seq(LogRows)
      /\ DOMAIN log = 1..Len(log) /\ Len(log) \in Nat
      /\ DOMAIN log' = 1..(Len(log) + 1) /\ Len(log') = Len(log) + 1
      /\ \A i \in DOMAIN log : log'[i] = log[i]
      /\ log'[Len(log) + 1] = row
  BY <1>1, <1>2
<1>4. Logged' = Logged \cup {e}
  BY <1>1, <1>3 DEF Logged
<1>5. LastEvent' = e
  <2>1. log' # <<>>
    BY <1>3
  <2> QED BY <1>1, <1>3, <2>1 DEF LastEvent
<1> QED BY <1>3, <1>4, <1>5 DEF row

\* The last event is logged, or there is none.
LEMMA LastIsLogged ==
    ASSUME TypeOK
    PROVE  LastEvent \in Events \cup {Genesis}
<1>1. log \in Seq(LogRows)
  BY DEF TypeOK, LogRows
<1>2. CASE log = <<>>
  BY <1>2 DEF LastEvent
<1>3. CASE log # <<>>
  <2>1. Len(log) \in DOMAIN log /\ log[Len(log)] \in LogRows
    BY <1>1, <1>3
  <2> QED BY <1>3, <2>1 DEF LastEvent, LogRows
<1> QED BY <1>2, <1>3

\* The log holds events.
LEMMA LoggedEvents ==
    ASSUME TypeOK
    PROVE  Logged \subseteq Events
<1>1. log \in Seq(LogRows)
  BY DEF TypeOK, LogRows
<1>2. \A i \in DOMAIN log : log[i] \in LogRows
  BY <1>1
<1>3. \A r \in LogRows : r.key \in Events
  BY DEF LogRows
<1> QED BY <1>2, <1>3 DEF Logged

\* Stopping a drain leaves the others where they are.
LEMMA StopMoves ==
    ASSUME TypeOK, NEW d \in Drainers, Stop(d)
    PROVE  /\ pc' = [pc EXCEPT ![d] = "idle"]
           /\ \A c \in Drainers : c # d =>
                 pc'[c] = pc[c] /\ item'[c] = item[c] /\ previous'[c] = previous[c]
                   /\ batch'[c] = batch[c]
           /\ pc'[d] = "idle" /\ batch'[d] = {} /\ item'[d] = Genesis
           /\ pc' \in [Drainers -> {"idle", "next", "append", "insert", "mark", "retry"}]
           /\ batch' \in [Drainers -> SUBSET Entries]
           /\ item' \in [Drainers -> Events \cup {Genesis}]
           /\ previous' \in [Drainers -> Events \cup {Genesis}]
BY DEF TypeOK, Stop, Goto

\* Outcomes of an append: the drain stops, or goes on to a row it carries.
LEMMA OutcomeMoves ==
    ASSUME TypeOK, CarriesAsked, NEW d \in Drainers, pc[d] \in {"append", "insert"},
           Appended(d) \/ AppendError(d)
    PROVE  /\ \A c \in Drainers : c # d =>
                 pc'[c] = pc[c] /\ item'[c] = item[c] /\ previous'[c] = previous[c]
                   /\ batch'[c] = batch[c]
           /\ pc'[d] \in {"idle", "mark", "retry"}
           /\ batch'[d] \in {{}, batch[d]}
           /\ pc'[d] # "idle" => item'[d] = item[d] /\ item[d] \in Entries
           /\ pc'[d] = "mark" => Appended(d)
           /\ pc' \in [Drainers -> {"idle", "next", "append", "insert", "mark", "retry"}]
           /\ batch' \in [Drainers -> SUBSET Entries]
           /\ item' \in [Drainers -> Events \cup {Genesis}]
           /\ previous' \in [Drainers -> Events \cup {Genesis}]
<1>1. CASE item[d] \in Direct
  <2>1. Stop(d)
    BY <1>1 DEF Appended, AppendError
  <2> QED BY <2>1, StopMoves
<1>2. CASE item[d] \notin Direct
  <2>1. item[d] \in Entries
    BY <1>2 DEF CarriesAsked, Events
  <2> QED BY <1>2, <2>1 DEF Appended, AppendError, Goto, TypeOK
<1> QED BY <1>1, <1>2

\* A step that leaves the log and what was asked for leaves what they imply.
LEMMA LogStays ==
    ASSUME OutboxInv, log' = log, UNCHANGED <<outbox, requested>>
    PROVE  /\ Logged' = Logged /\ LastEvent' = LastEvent
           /\ \A e \in Events : Asked(e)' = Asked(e)
           /\ NoDuplicates' /\ ChainUnbroken' /\ DeliveredIsLogged'
BY DEF OutboxInv, Logged, LastEvent, Asked, NoDuplicates, ChainUnbroken,
       DeliveredIsLogged, Events

-----------------------------------------------------------------------------
LEMMA EnqueueKeeps ==
    ASSUME OutboxInv, NEW e \in Entries, Enqueue(e)
    PROVE  OutboxInv'
<1>1. /\ outbox' = [outbox EXCEPT ![e] = "pending"] /\ outbox[e] = "absent"
      /\ deferred' = deferred /\ log' = log /\ requested' = requested /\ faults' = faults
      /\ pc' = pc /\ batch' = batch /\ item' = item /\ previous' = previous
  BY DEF Enqueue, drain
<1>2. TypeOK'
  BY <1>1 DEF OutboxInv, TypeOK
<1>3. /\ Logged' = Logged /\ LastEvent' = LastEvent
      /\ NoDuplicates' /\ ChainUnbroken' /\ OneAppends' /\ ReadsHold'
  BY <1>1 DEF OutboxInv, Logged, LastEvent, NoDuplicates, ChainUnbroken, OneAppends, ReadsHold
<1>4. \A x \in Entries : outbox[x] # "absent" => outbox'[x] # "absent"
  BY <1>1 DEF OutboxInv, TypeOK
<1>5. \A x \in Entries : outbox'[x] = "delivered" => outbox[x] = "delivered"
  BY <1>1 DEF OutboxInv, TypeOK
<1>6. Logged \subseteq Events
  BY LoggedEvents DEF OutboxInv
<1>7. DeliveredIsLogged'
  BY <1>1, <1>3, <1>4, <1>5, <1>6 DEF OutboxInv, DeliveredIsLogged, Events
<1>8. CarriesAsked'
  <2>1. \A x \in Events : Asked(x) => Asked(x)'
    BY <1>1, <1>4 DEF Asked, Events
  <2>2. \A d \in Drainers : batch[d] \subseteq Entries
    BY DEF OutboxInv, TypeOK
  <2> QED BY <1>1, <1>3, <1>4, <2>1, <2>2 DEF OutboxInv, CarriesAsked
<1> QED BY <1>2, <1>3, <1>7, <1>8 DEF OutboxInv

LEMMA TickKeeps ==
    ASSUME OutboxInv, Tick
    PROVE  OutboxInv'
<1>1. /\ deferred' = {} /\ UNCHANGED <<outbox, log, requested, faults, pc, batch, item, previous>>
  BY DEF Tick, drain
<1>2. TypeOK'
  BY <1>1 DEF OutboxInv, TypeOK
<1> QED BY <1>1, <1>2, LogStays
      DEF OutboxInv, OneAppends, ReadsHold, CarriesAsked

LEMMA StartDrainKeeps ==
    ASSUME OutboxInv, NEW d \in Drainers, StartDrain(d)
    PROVE  OutboxInv'
<1>1. /\ pc' = [pc EXCEPT ![d] = "next"] /\ batch' = [batch EXCEPT ![d] = PendingBatch]
      /\ UNCHANGED <<outbox, deferred, log, item, previous, requested, faults>>
  BY DEF StartDrain, Goto, rows
<1>2. \A e \in PendingBatch : e \in Entries /\ outbox[e] # "absent"
  BY DEF PendingBatch, Available
<1>3. TypeOK'
  BY <1>1, <1>2 DEF OutboxInv, TypeOK
<1>4. /\ Logged' = Logged /\ LastEvent' = LastEvent
      /\ \A e \in Events : Asked(e)' = Asked(e)
      /\ NoDuplicates' /\ ChainUnbroken' /\ DeliveredIsLogged'
  BY <1>1, LogStays
<1>5. OneAppends' /\ ReadsHold'
  BY <1>1, <1>4 DEF OutboxInv, TypeOK, OneAppends, ReadsHold
<1>6. CarriesAsked'
  BY <1>1, <1>2, <1>4 DEF OutboxInv, TypeOK, CarriesAsked
<1> QED BY <1>3, <1>4, <1>5, <1>6 DEF OutboxInv

LEMMA StartDirectKeeps ==
    ASSUME OutboxInv, NEW h \in Handlers, NEW e \in Direct, StartDirect(h, e)
    PROVE  OutboxInv'
<1>0. h \in Drainers /\ e \in Events /\ e \notin Entries
  BY OutboxAssumption DEF Drainers, Events
<1>1. /\ pc' = [pc EXCEPT ![h] = "append"] /\ item' = [item EXCEPT ![h] = e]
      /\ requested' = requested \cup {e}
      /\ UNCHANGED <<outbox, deferred, log, batch, previous, faults>>
  BY DEF StartDirect, Goto, rows
<1>2. TypeOK'
  BY <1>0, <1>1 DEF OutboxInv, TypeOK
<1>3. Logged' = Logged /\ LastEvent' = LastEvent /\ NoDuplicates' /\ ChainUnbroken'
  BY <1>1 DEF OutboxInv, Logged, LastEvent, NoDuplicates, ChainUnbroken
<1>4. DeliveredIsLogged'
  BY <1>1, <1>3 DEF OutboxInv, DeliveredIsLogged
<1>5. OneAppends' /\ ReadsHold'
  BY <1>0, <1>1, <1>3 DEF OutboxInv, TypeOK, OneAppends, ReadsHold
<1>6. CarriesAsked'
  <2>1. \A x \in Events : (Asked(x) => Asked(x)') /\ Asked(e)'
    BY <1>1 DEF Asked
  <2> QED BY <1>0, <1>1, <1>3, <2>1 DEF OutboxInv, TypeOK, CarriesAsked
<1> QED BY <1>2, <1>3, <1>4, <1>5, <1>6 DEF OutboxInv

LEMMA TakeNextKeeps ==
    ASSUME OutboxInv, NEW d \in Drainers, TakeNext(d)
    PROVE  OutboxInv'
<1>1. PICK e \in batch[d] :
        /\ pc' = [pc EXCEPT ![d] = "append"] /\ item' = [item EXCEPT ![d] = e]
        /\ batch' = [batch EXCEPT ![d] = @ \ {e}]
        /\ UNCHANGED <<outbox, deferred, log, previous, requested, faults>>
  BY DEF TakeNext, Goto, rows
<1>2. e \in Entries /\ e \in Events /\ e \notin Direct
  BY OutboxAssumption DEF OutboxInv, TypeOK, Events
<1>3. TypeOK'
  BY <1>1, <1>2 DEF OutboxInv, TypeOK
<1>4. /\ Logged' = Logged /\ LastEvent' = LastEvent
      /\ \A x \in Events : Asked(x)' = Asked(x)
      /\ NoDuplicates' /\ ChainUnbroken' /\ DeliveredIsLogged'
  BY <1>1, LogStays
<1>5. OneAppends' /\ ReadsHold'
  BY <1>1, <1>4 DEF OutboxInv, TypeOK, OneAppends, ReadsHold
<1>6. CarriesAsked'
  <2>1. Asked(e)
    BY <1>2 DEF OutboxInv, CarriesAsked, Asked
  <2> QED BY <1>1, <1>2, <1>4, <2>1 DEF OutboxInv, TypeOK, CarriesAsked
<1> QED BY <1>3, <1>4, <1>5, <1>6 DEF OutboxInv

\* EndDrain and Abandon: nothing is carried any more.
LEMMA StopKeeps ==
    ASSUME OutboxInv, NEW d \in Drainers, Stop(d), faults' \in 0..MaxFaults,
           UNCHANGED <<outbox, deferred, log, requested>>
    PROVE  OutboxInv'
<1>1. TypeOK'
  BY StopMoves DEF OutboxInv, TypeOK
<1>2. /\ Logged' = Logged /\ LastEvent' = LastEvent
      /\ \A x \in Events : Asked(x)' = Asked(x)
      /\ NoDuplicates' /\ ChainUnbroken' /\ DeliveredIsLogged'
  BY LogStays
<1>3. OneAppends' /\ ReadsHold' /\ CarriesAsked'
  BY <1>2, StopMoves DEF OutboxInv, OneAppends, ReadsHold, CarriesAsked
<1> QED BY <1>1, <1>2, <1>3 DEF OutboxInv

LEMMA FindLoggedKeeps ==
    ASSUME OutboxInv, NEW d \in Drainers, FindLogged(d)
    PROVE  OutboxInv'
<1>1. /\ pc[d] = "append" /\ item[d] \in Logged /\ Appended(d)
      /\ UNCHANGED <<outbox, deferred, log, requested, faults>>
  BY DEF FindLogged, rows
<1>2. TypeOK'
  BY <1>1, OutcomeMoves DEF OutboxInv, TypeOK
<1>3. /\ Logged' = Logged /\ LastEvent' = LastEvent
      /\ \A x \in Events : Asked(x)' = Asked(x)
      /\ NoDuplicates' /\ ChainUnbroken' /\ DeliveredIsLogged'
  BY <1>1, LogStays
<1>4. OneAppends' /\ ReadsHold' /\ CarriesAsked'
  BY <1>1, <1>3, OutcomeMoves DEF OutboxInv, OneAppends, ReadsHold, CarriesAsked
<1> QED BY <1>2, <1>3, <1>4 DEF OutboxInv

\* The lock was free and is taken: what is read under it is true.
LEMMA LockLogKeeps ==
    ASSUME OutboxInv, NEW d \in Drainers, LockLog(d)
    PROVE  OutboxInv'
<1>1. /\ pc[d] = "append" /\ item[d] \notin Logged /\ \A c \in Drainers : pc[c] # "insert"
      /\ pc' = [pc EXCEPT ![d] = "insert"] /\ previous' = [previous EXCEPT ![d] = LastEvent]
      /\ UNCHANGED <<outbox, deferred, log, batch, item, requested, faults>>
  BY DEF LockLog, LogLocked, Goto, rows
<1>2. TypeOK'
  BY <1>1, LastIsLogged DEF OutboxInv, TypeOK
<1>3. /\ Logged' = Logged /\ LastEvent' = LastEvent
      /\ \A x \in Events : Asked(x)' = Asked(x)
      /\ NoDuplicates' /\ ChainUnbroken' /\ DeliveredIsLogged'
  BY <1>1, LogStays
<1>4. OneAppends' /\ ReadsHold'
  BY <1>1, <1>3 DEF OutboxInv, TypeOK, OneAppends, ReadsHold
<1>5. CarriesAsked'
  BY <1>1, <1>3 DEF OutboxInv, TypeOK, CarriesAsked
<1> QED BY <1>2, <1>3, <1>4, <1>5 DEF OutboxInv

\* The insert, acknowledged or not: the chain grows by one new event.
LEMMA InsertKeeps ==
    ASSUME OutboxInv, NEW d \in Drainers, pc[d] = "insert", log' = Inserted(d),
           Appended(d) \/ AppendError(d), faults' \in 0..MaxFaults,
           UNCHANGED <<outbox, deferred, requested>>
    PROVE  OutboxInv'
<1>1. /\ item[d] \in Events /\ Asked(item[d]) /\ item[d] \notin Logged
      /\ previous[d] = LastEvent /\ previous[d] \in Events \cup {Genesis}
      /\ \A c \in Drainers : pc[c] = "insert" => c = d
  BY DEF OutboxInv, TypeOK, CarriesAsked, ReadsHold, OneAppends
<1> DEFINE e == item[d]
<1> DEFINE p == previous[d]
<1>2. /\ log' \in Seq(LogRows)
      /\ Logged' = Logged \cup {e} /\ LastEvent' = e
      /\ DOMAIN log = 1..Len(log) /\ Len(log) \in Nat
      /\ DOMAIN log' = 1..(Len(log) + 1)
      /\ \A i \in DOMAIN log : log'[i] = log[i]
      /\ log'[Len(log) + 1] = [key |-> e, previous |-> p]
  BY <1>1, AppendLogs DEF OutboxInv, Inserted
<1>3. TypeOK'
  BY <1>2, OutcomeMoves DEF OutboxInv, TypeOK, LogRows
<1>4. NoDuplicates'
  <2>1. \A i \in DOMAIN log : log[i].key # e
    BY <1>1 DEF Logged
  <2>2. log'[Len(log) + 1].key = e
    BY <1>2
  <2>3. \A i \in DOMAIN log' : i \in DOMAIN log \/ i = Len(log) + 1
    BY <1>2
  <2>4. \A i, j \in DOMAIN log : log[i].key = log[j].key => i = j
    BY DEF OutboxInv, NoDuplicates
  <2> QED BY <1>2, <2>1, <2>2, <2>3, <2>4 DEF NoDuplicates
<1>5. ChainUnbroken'
  <2>1. \A i \in DOMAIN log : i > 1 => i - 1 \in DOMAIN log
    BY <1>2
  <2>2. \A i \in DOMAIN log : log'[i].previous = IF i = 1 THEN Genesis ELSE log'[i - 1].key
    BY <1>2, <2>1 DEF OutboxInv, ChainUnbroken
  <2>3. log'[Len(log) + 1].previous = LastEvent
    BY <1>1, <1>2
  <2>4. CASE Len(log) = 0
    <3>1. log = <<>>
      BY <2>4, <1>2, EmptySeq DEF OutboxInv, TypeOK
    <3> QED BY <1>2, <2>2, <2>3, <2>4, <3>1 DEF ChainUnbroken, LastEvent
  <2>5. CASE Len(log) # 0
    <3>1. log # <<>> /\ Len(log) \in DOMAIN log /\ Len(log) + 1 # 1
      BY <1>2, <2>5
    <3>2. log'[Len(log) + 1].previous = log'[(Len(log) + 1) - 1].key
      BY <1>2, <2>3, <3>1 DEF LastEvent
    <3>3. \A i \in DOMAIN log' : i \in DOMAIN log \/ i = Len(log) + 1
      BY <1>2
    <3> QED BY <2>2, <3>1, <3>2, <3>3 DEF ChainUnbroken
  <2> QED BY <2>4, <2>5
<1>6. DeliveredIsLogged'
  BY <1>1, <1>2 DEF OutboxInv, DeliveredIsLogged, Asked
<1>7. \A x \in Events : Asked(x)' = Asked(x)
  BY DEF Asked
<1>8. OneAppends' /\ ReadsHold'
  BY <1>1, OutcomeMoves DEF OutboxInv, OneAppends, ReadsHold
<1>9. CarriesAsked'
  BY <1>1, <1>2, <1>7, OutcomeMoves DEF OutboxInv, CarriesAsked
<1> QED BY <1>3, <1>4, <1>5, <1>6, <1>8, <1>9 DEF OutboxInv

LEMMA AppendFailsKeeps ==
    ASSUME OutboxInv, NEW d \in Drainers, AppendFails(d)
    PROVE  OutboxInv'
<1>1. /\ pc[d] \in {"append", "insert"} /\ AppendError(d)
      /\ log' = log \/ (pc[d] = "insert" /\ log' = Inserted(d))
      /\ UNCHANGED <<outbox, deferred, requested>>
  BY DEF AppendFails, rows
<1>2. faults' \in 0..MaxFaults
  BY OutboxAssumption DEF AppendFails, Fault, OutboxInv, TypeOK
<1>3. CASE log' = log
  <2>1. TypeOK'
    BY <1>1, <1>2, <1>3, OutcomeMoves DEF OutboxInv, TypeOK
  <2>2. /\ Logged' = Logged /\ LastEvent' = LastEvent
        /\ \A x \in Events : Asked(x)' = Asked(x)
        /\ NoDuplicates' /\ ChainUnbroken' /\ DeliveredIsLogged'
    BY <1>1, <1>3, LogStays
  <2>3. pc'[d] # "mark"
    BY <1>1, StopMoves DEF AppendError, Goto, OutboxInv, TypeOK
  <2>4. OneAppends' /\ ReadsHold' /\ CarriesAsked'
    BY <1>1, <2>2, <2>3, OutcomeMoves DEF OutboxInv, OneAppends, ReadsHold, CarriesAsked
  <2> QED BY <2>1, <2>2, <2>4 DEF OutboxInv
<1>4. CASE pc[d] = "insert" /\ log' = Inserted(d)
  BY <1>1, <1>2, <1>4, InsertKeeps
<1> QED BY <1>1, <1>3, <1>4

LEMMA MarkKeeps ==
    ASSUME OutboxInv, NEW d \in Drainers, MarkDelivered(d)
    PROVE  OutboxInv'
<1>1. /\ pc[d] = "mark" /\ outbox' = [outbox EXCEPT ![item[d]] = "delivered"]
      /\ pc' = [pc EXCEPT ![d] = "next"] /\ item' = [item EXCEPT ![d] = Genesis]
      /\ previous' = [previous EXCEPT ![d] = Genesis]
      /\ UNCHANGED <<deferred, log, batch, requested, faults>>
  BY DEF MarkDelivered, Goto
<1>2. item[d] \in Entries /\ item[d] \in Logged
  BY <1>1 DEF OutboxInv, CarriesAsked
<1>3. TypeOK'
  BY <1>1, <1>2 DEF OutboxInv, TypeOK
<1>4. Logged' = Logged /\ LastEvent' = LastEvent /\ NoDuplicates' /\ ChainUnbroken'
  BY <1>1 DEF OutboxInv, Logged, LastEvent, NoDuplicates, ChainUnbroken
<1>5. \A x \in Entries : /\ outbox[x] # "absent" => outbox'[x] # "absent"
                         /\ outbox'[x] = "delivered" => outbox[x] = "delivered" \/ x = item[d]
  BY <1>1, <1>2 DEF OutboxInv, TypeOK
<1>6. DeliveredIsLogged'
  BY <1>1, <1>2, <1>4, <1>5, LoggedEvents DEF OutboxInv, DeliveredIsLogged, Events
<1>7. OneAppends' /\ ReadsHold'
  BY <1>1, <1>4 DEF OutboxInv, TypeOK, OneAppends, ReadsHold
<1>8. CarriesAsked'
  <2>1. \A x \in Events : Asked(x) => Asked(x)'
    BY <1>1, <1>5 DEF Asked, Events
  <2>2. \A c \in Drainers : batch[c] \subseteq Entries
    BY DEF OutboxInv, TypeOK
  <2> QED BY <1>1, <1>4, <1>5, <2>1, <2>2 DEF OutboxInv, TypeOK, CarriesAsked
<1> QED BY <1>3, <1>4, <1>6, <1>7, <1>8 DEF OutboxInv

LEMMA RetryKeeps ==
    ASSUME OutboxInv, NEW d \in Drainers, RetryLater(d)
    PROVE  OutboxInv'
<1>1. /\ pc[d] = "retry" /\ deferred' = deferred \cup {item[d]}
      /\ pc' = [pc EXCEPT ![d] = "next"] /\ item' = [item EXCEPT ![d] = Genesis]
      /\ previous' = [previous EXCEPT ![d] = Genesis]
      /\ UNCHANGED <<outbox, log, batch, requested, faults>>
  BY DEF RetryLater, Goto
<1>2. item[d] \in Entries
  BY <1>1 DEF OutboxInv, CarriesAsked
<1>3. TypeOK'
  BY <1>1, <1>2 DEF OutboxInv, TypeOK
<1>4. /\ Logged' = Logged /\ LastEvent' = LastEvent
      /\ \A x \in Events : Asked(x)' = Asked(x)
      /\ NoDuplicates' /\ ChainUnbroken' /\ DeliveredIsLogged'
  BY <1>1, LogStays
<1>5. OneAppends' /\ ReadsHold' /\ CarriesAsked'
  BY <1>1, <1>4 DEF OutboxInv, TypeOK, OneAppends, ReadsHold, CarriesAsked
<1> QED BY <1>3, <1>4, <1>5 DEF OutboxInv

-----------------------------------------------------------------------------
\* Every step of the specification keeps the inductive invariant.
LEMMA StepKeeps ==
    ASSUME OutboxInv, [Next]_vars
    PROVE  OutboxInv'
<1>1. ASSUME NEW d \in Drainers, Progress(d) \/ AppendFails(d) \/ Abandon(d)
      PROVE  OutboxInv'
  <2>1. CASE EndDrain(d)
    <3>1. faults' \in 0..MaxFaults
      BY <2>1 DEF EndDrain, OutboxInv, TypeOK
    <3> QED BY <2>1, <3>1, StopKeeps DEF EndDrain, rows
  <2>2. CASE Abandon(d)
    <3>1. faults' \in 0..MaxFaults
      BY <2>2, OutboxAssumption DEF Abandon, Fault, OutboxInv, TypeOK
    <3> QED BY <2>2, <3>1, StopKeeps DEF Abandon, rows
  <2>3. CASE InsertEvent(d)
    <3>1. faults' \in 0..MaxFaults
      BY <2>3 DEF InsertEvent, OutboxInv, TypeOK
    <3> QED BY <2>3, <3>1, InsertKeeps DEF InsertEvent, rows
  <2> QED BY <1>1, <2>1, <2>2, <2>3, StartDrainKeeps, TakeNextKeeps, FindLoggedKeeps,
             LockLogKeeps, MarkKeeps, RetryKeeps, AppendFailsKeeps DEF Progress
<1>2. CASE UNCHANGED vars
  <2>1. UNCHANGED <<outbox, deferred, log, pc, batch, item, previous, requested, faults>>
    BY <1>2 DEF vars, rows, drain
  <2>2. TypeOK'
    BY <2>1 DEF OutboxInv, TypeOK
  <2> QED BY <2>1, <2>2, LogStays DEF OutboxInv, OneAppends, ReadsHold, CarriesAsked
<1> QED BY <1>1, <1>2, EnqueueKeeps, TickKeeps, StartDirectKeeps DEF Next

LEMMA InitHolds ==
    ASSUME Init
    PROVE  OutboxInv
<1>1. log = <<>> /\ Logged = {} /\ DOMAIN log = {}
  BY DEF Init, Logged
<1>2. TypeOK
  <2>1. log \in Seq([key : Events, previous : Events \cup {Genesis}])
    BY <1>1
  <2> QED BY <2>1, OutboxAssumption DEF Init, TypeOK
<1> QED BY <1>1, <1>2 DEF Init, OutboxInv, NoDuplicates, ChainUnbroken, DeliveredIsLogged,
           OneAppends, ReadsHold, CarriesAsked

LEMMA OutboxInvHolds == Spec => []OutboxInv
BY InitHolds, StepKeeps, PTL DEF Spec

\* However drains overlap, appends fail or lose their acknowledgement and
\* processes stop, registry_events is one unbroken chain of distinct events
\* that were asked for, and a row marked delivered is in it (drain_outbox,
\* append_event_keyed, mark_outbox_delivered).
THEOREM LogSoundHolds == Spec => []LogSound
<1>1. OutboxInv => LogSound
  BY DEF OutboxInv, LogSound
<1> QED BY <1>1, OutboxInvHolds, PTL

-----------------------------------------------------------------------------
(***************************************************************************)
(* The refinement of AuditLog.                                             *)
(***************************************************************************)
Intents == {e \in Entries : outbox[e] # "absent"} \cup requested
Keys == [i \in DOMAIN log |-> log[i].key]

\* The abstract log holds what the detailed one does.
LEMMA TrailLogged == Trail!Logged = Logged
BY DEF Trail!Logged, Logged

\* An insert is the abstract Publish, or nothing when the log stays.
LEMMA InsertPublishes ==
    ASSUME OutboxInv, NEW d \in Drainers, pc[d] = "insert", log' = Inserted(d),
           UNCHANGED <<outbox, requested>>
    PROVE  \E e \in Events : Trail!Publish(e)
<1>1. /\ item[d] \in Events /\ Asked(item[d]) /\ item[d] \notin Logged
      /\ previous[d] \in Events \cup {Genesis}
  BY DEF OutboxInv, TypeOK, CarriesAsked, ReadsHold
<1>0. PICK e \in Events : e = item[d]
  BY <1>1
<1>2. e \in Intents
  BY <1>0, <1>1 DEF Asked, Events, Intents
<1>3. /\ DOMAIN log = 1..Len(log) /\ Len(log) \in Nat
      /\ DOMAIN log' = 1..(Len(log) + 1)
      /\ \A i \in DOMAIN log : log'[i] = log[i]
      /\ log'[Len(log) + 1].key = e
  BY <1>0, <1>1, AppendLogs DEF OutboxInv, Inserted
<1>4. Keys' = Append(Keys, e)
  <2>1. \A i \in DOMAIN log : log[i].key \in Events
    BY LoggedEvents DEF OutboxInv, Logged
  <2>2. Keys \in Seq(Events) /\ Len(Keys) = Len(log)
    BY <1>3, <2>1 DEF Keys
  <2>3. Keys' = [i \in 1..(Len(Keys) + 1) |-> IF i = Len(Keys) + 1 THEN e ELSE Keys[i]]
    BY <1>3, <2>2 DEF Keys
  <2> QED BY <1>0, <2>2, <2>3
<1>5. Intents' = Intents
  BY DEF Intents
<1>6. Trail!Publish(e)
  BY <1>0, <1>1, <1>2, <1>4, <1>5, TrailLogged DEF Trail!Publish, Intents, Keys
<1> QED BY <1>6

\* Every step of the outbox is a step of the trail or leaves it alone.
LEMMA TrailStep ==
    ASSUME OutboxInv, [Next]_vars
    PROVE  [Trail!Next]_Trail!avars
<1>1. ASSUME UNCHANGED <<outbox, requested, log>>
      PROVE  UNCHANGED Trail!avars
  BY <1>1 DEF Trail!avars
<1>2. ASSUME NEW e \in Entries, Enqueue(e)
      PROVE  Trail!Intend(e)
  <2>1. outbox' = [outbox EXCEPT ![e] = "pending"] /\ outbox[e] = "absent"
        /\ UNCHANGED <<log, requested>>
    BY <1>2 DEF Enqueue
  <2>2. e \notin Intents
    BY <2>1, OutboxAssumption DEF Intents, OutboxInv, TypeOK
  <2>3. Intents' = Intents \cup {e}
    BY <2>1 DEF Intents, OutboxInv, TypeOK
  <2> QED BY <2>1, <2>2, <2>3 DEF Trail!Intend, Intents
<1>3. ASSUME NEW h \in Handlers, NEW e \in Direct, StartDirect(h, e)
      PROVE  Trail!Intend(e) \/ UNCHANGED Trail!avars
  <2>1. requested' = requested \cup {e} /\ UNCHANGED <<log, outbox>>
    BY <1>3 DEF StartDirect, rows
  <2>2. CASE e \in requested
    <3>1. requested' = requested
      BY <2>1, <2>2
    <3> QED BY <2>1, <3>1, <1>1
  <2>3. CASE e \notin requested
    <3>1. e \notin Intents
      BY <2>3, OutboxAssumption DEF Intents
    <3>2. Intents' = Intents \cup {e}
      BY <2>1 DEF Intents
    <3> QED BY <2>1, <3>1, <3>2 DEF Trail!Intend, Intents
  <2> QED BY <2>2, <2>3
<1>4. ASSUME NEW d \in Drainers, Progress(d) \/ AppendFails(d) \/ Abandon(d)
      PROVE  (\E e \in Events : Trail!Publish(e)) \/ UNCHANGED Trail!avars
  <2>1. CASE InsertEvent(d) \/ AppendFails(d)
    <3>1. UNCHANGED <<outbox, requested>>
      BY <2>1 DEF InsertEvent, AppendFails, rows
    <3>2. log' = log \/ (pc[d] = "insert" /\ log' = Inserted(d))
      BY <2>1 DEF InsertEvent, AppendFails
    <3> QED BY <3>1, <3>2, <1>1, InsertPublishes
  <2>2. CASE MarkDelivered(d)
    <3>1. outbox' = [outbox EXCEPT ![item[d]] = "delivered"] /\ UNCHANGED <<log, requested>>
          /\ pc[d] = "mark"
      BY <2>2 DEF MarkDelivered
    <3>2. item[d] \in Entries /\ outbox[item[d]] # "absent"
      BY <3>1, OutboxAssumption DEF OutboxInv, CarriesAsked, Asked
    <3>3. Intents' = Intents
      BY <3>1, <3>2 DEF Intents, OutboxInv, TypeOK
    <3> QED BY <3>1, <3>3 DEF Trail!avars, Intents
  <2>3. CASE \/ StartDrain(d) \/ TakeNext(d) \/ EndDrain(d) \/ FindLogged(d) \/ LockLog(d)
             \/ RetryLater(d) \/ Abandon(d)
    BY <2>3, <1>1 DEF StartDrain, TakeNext, EndDrain, FindLogged, LockLog, RetryLater,
                      Abandon, rows
  <2> QED BY <1>4, <2>1, <2>2, <2>3 DEF Progress
<1>5. CASE Tick \/ UNCHANGED vars
  BY <1>5, <1>1 DEF Tick, vars, rows
<1> QED BY <1>2, <1>3, <1>4, <1>5 DEF Next, Trail!Next, Events

\* The outbox, its concurrent drains and the direct appends implement the
\* append-only audit trail: an event is logged once, only after its mutation
\* asked for it, and never removed (drain_outbox, append_event).
THEOREM AuditTrailImplemented == Spec => ImplementsSafeTrail
<1>1. Init => Trail!Init
  <2> SUFFICES ASSUME Init PROVE Trail!Init
    OBVIOUS
  <2>1. Intents = {}
    BY DEF Init, Intents
  <2>2. Keys = <<>>
    <3>1. DOMAIN log = {} /\ DOMAIN Keys = {}
      BY DEF Init, Keys
    <3>2. Keys \in Seq(Events) /\ Len(Keys) = 0
      BY <3>1 DEF Keys
    <3> QED BY <3>2, EmptySeq
  <2> QED BY <2>1, <2>2 DEF Trail!Init, Intents, Keys
<1> QED BY <1>1, TrailStep, OutboxInvHolds, PTL DEF Spec, ImplementsSafeTrail, Trail!SafeSpec
=============================================================================

------------------------------ MODULE Billing ------------------------------
(***************************************************************************)
(* Stripe webhooks (billing.rs verify_webhook, postgres_api.rs             *)
(* billing_webhook, control_plane.rs record_billing_event).  The provider  *)
(* signs the time and the body of each attempt, one body for an event, and *)
(* repeats attempts; the network delivers an attempt late, more than once  *)
(* or not at all, and anybody may post a body nobody signed.  Requests     *)
(* interleave between the verification and the INSERT, which may fail.     *)
(***************************************************************************)
EXTENDS Integers

CONSTANTS BillingEvents, \* provider event ids
          Payloads,      \* bodies
          Tolerance,     \* 300 seconds in the code
          MaxBillingTime \* bound on the clock

ASSUME BillingAssumption == {Tolerance, MaxBillingTime} \subseteq Nat

VARIABLES billNow,
          attempts,      \* deliveries on the network
          pending,       \* verified attempts whose INSERT is under way
          rows,          \* billing_events
          answered       \* history: attempts answered 204

billVars == <<billNow, attempts, pending, rows, answered>>

\* An attempt: the event's id and payload, the t= of the header and whether a
\* v1= signature covers exactly this t and this body.
Attempts == [id : BillingEvents, payload : Payloads, t : 0..MaxBillingTime, genuine : BOOLEAN]

BillingTypeOK ==
  /\ billNow \in 0..MaxBillingTime
  /\ attempts \in SUBSET Attempts /\ answered \in SUBSET attempts
  /\ \A p \in pending : p.attempt \in attempts /\ p.at \in 0..billNow
  /\ \A r \in rows : r.id \in BillingEvents /\ r.payload \in Payloads

BillingInit == billNow = 0 /\ attempts = {} /\ pending = {} /\ rows = {} /\ answered = {}

\* The provider sends an event, or sends it again, signed now.
SendAttempt(e, p) ==
  LET a == [id |-> e, payload |-> p, t |-> billNow, genuine |-> TRUE] IN
  /\ \A b \in attempts : b.genuine /\ b.id = e => b.payload = p
  /\ a \notin attempts
  /\ attempts' = attempts \cup {a} /\ UNCHANGED <<billNow, pending, rows, answered>>

\* A body without a valid signature for it, with any time in its header.
PostUnsigned(e, p, t) ==
  LET a == [id |-> e, payload |-> p, t |-> t, genuine |-> FALSE] IN
  /\ \A b \in attempts : b.genuine
  /\ attempts' = attempts \cup {a} /\ UNCHANGED <<billNow, pending, rows, answered>>

Distance(a, b) == IF a > b THEN a - b ELSE b - a

\* verify_webhook: the time is within the tolerance and a signature matches.
VerifiesWebhook(a) == Distance(billNow, a.t) <= Tolerance /\ a.genuine

\* What a row is made of: the columns received and payload, and which attempt
\* it came from and when that was verified.
Row(p) == [id |-> p.attempt.id, payload |-> p.attempt.payload, signed |-> p.attempt.t,
           verified |-> p.at, received |-> billNow]

\* record_billing_event: INSERT ... ON CONFLICT (provider_event_id) DO NOTHING.
Recorded(p) == IF \E r \in rows : r.id = p.attempt.id THEN rows ELSE rows \cup {Row(p)}

\* billing_webhook verifies; the attempt stays on the network and may arrive again.
ReceiveWebhook(a) ==
  /\ a \in attempts /\ VerifiesWebhook(a)
  /\ pending' = pending \cup {[attempt |-> a, at |-> billNow]}
  /\ UNCHANGED <<billNow, attempts, rows, answered>>

\* Faulty: 204 whatever became of the INSERT.
RecordEventUnchecked(p) ==
  /\ pending' = pending \ {p}
  /\ rows' \in {rows, Recorded(p)} /\ answered' = answered \cup {p.attempt}
  /\ UNCHANGED <<billNow, attempts>>

\* It inserts and answers 204, whether the event is new or was recorded before.
RecordEvent(p) ==
  /\ pending' = pending \ {p}
  /\ rows' = Recorded(p) /\ answered' = answered \cup {p.attempt}
  /\ UNCHANGED <<billNow, attempts>>

\* The INSERT reports an error, or the connection is dropped: the row may be
\* there all the same, and the provider is not told so.
RecordFails(p) ==
  /\ pending' = pending \ {p}
  /\ rows' \in {rows, Recorded(p)}
  /\ UNCHANGED <<billNow, attempts, answered>>

BillingTick == billNow < MaxBillingTime /\ billNow' = billNow + 1
               /\ UNCHANGED <<attempts, pending, rows, answered>>

BillingNext ==
  \/ \E e \in BillingEvents, p \in Payloads : SendAttempt(e, p)
  \/ \E e \in BillingEvents, p \in Payloads, t \in 0..MaxBillingTime : PostUnsigned(e, p, t)
  \/ \E a \in attempts : ReceiveWebhook(a)
  \/ \E p \in pending : RecordEvent(p) \/ RecordFails(p)
  \/ BillingTick

BillingSpec == BillingInit /\ [][BillingNext]_billVars

-----------------------------------------------------------------------------
\* Every row holds what the provider signed for that event, at a time within
\* the tolerance of its verification; late deliveries and unsigned bodies leave
\* none.
RecordedAuthentic ==
  \A r \in rows :
    /\ [id |-> r.id, payload |-> r.payload, t |-> r.signed, genuine |-> TRUE] \in attempts
    /\ Distance(r.verified, r.signed) <= Tolerance /\ r.verified <= r.received

\* What the provider was told is recorded is: every attempt answered 204 has
\* its event, with its body, among the rows.
AnsweredRecorded ==
  \A a \in answered : \E r \in rows : r.id = a.id /\ r.payload = a.payload

\* An event has its row from the first attempt that is answered 204 on, and the
\* row never changes, however often the provider and the network repeat it,
\* however requests interleave and whoever else posts.
RecordedOnce ==
  [][/\ rows \subseteq rows' /\ RecordedAuthentic' /\ AnsweredRecorded'
     /\ \A r, q \in rows' : r.id = q.id => r = q]_billVars
=============================================================================

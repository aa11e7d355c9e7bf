---------------------------- MODULE ArtifactStore ----------------------------
(***************************************************************************)
(* The registry's replicated object store (object_backend.rs): a put goes  *)
(* to the primary and then to each replica, each put creating the object   *)
(* or comparing it with what is there; a get falls back to the replicas    *)
(* and repairs the primary.  An object is named by the digest of its       *)
(* bytes, so a copy is good, missing, or damaged by the medium.            *)
(***************************************************************************)
EXTENDS Naturals

CONSTANTS Users,         \* handlers that put and get
          Digests,
          LastStore,     \* store 0 is the primary, 1..LastStore the replicas
          StoreFaults    \* bound: failed requests, lost and rotten copies

ASSUME ArtifactAssumption == LastStore \in Nat /\ StoreFaults \in Nat

Stores == 0..LastStore

VARIABLES copy,          \* [Stores -> [Digests -> {"none", "good", "rotten"}]]
          user,          \* what each handler does; promised is history: its
                         \* digest, if a put was acknowledged before it began
          acked,         \* history: digests some put was acknowledged for
          damaged,       \* history: copies the medium lost or spoilt
          storeFaults

objVars == <<copy, user, acked, damaged, storeFaults>>

Resting == [pc |-> "idle", digest |-> "none", store |-> 0, bytes |-> "none",
            promised |-> {}, reply |-> "none"]

ArtifactTypeOK ==
  /\ copy \in [Stores -> [Digests -> {"none", "good", "rotten"}]]
  /\ \A u \in Users : /\ user[u].pc \in {"idle", "put", "get", "repair", "done"}
                      /\ user[u].store \in Stores
                      /\ user[u].reply \in {"none", "ok", "missing", "error"}
  /\ acked \in SUBSET Digests /\ damaged \in SUBSET (Stores \X Digests)
  /\ storeFaults \in 0..StoreFaults

ArtifactInit ==
  /\ copy = [s \in Stores |-> [d \in Digests |-> "none"]]
  /\ user = [u \in Users |-> Resting]
  /\ acked = {} /\ damaged = {} /\ storeFaults = 0

Ends(u, reply) == user' = [user EXCEPT ![u].pc = "done", ![u].reply = reply]

BeginUse(u, what, d) ==
  /\ user[u] = Resting
  /\ user' = [user EXCEPT ![u] = [Resting EXCEPT !.pc = what, !.digest = d,
                 !.bytes = IF what = "put" THEN "good" ELSE "none",
                 !.promised = acked \cap {d}]]
  /\ UNCHANGED <<copy, acked, damaged>>

\* put_one: PutMode::Create writes nothing over an existing object.
PutOne(s, d, bytes) ==
  IF copy[s][d] = "none" THEN [copy EXCEPT ![s][d] = bytes] ELSE copy

\* put_one's ensure!: an object that exists has these bytes.
PutAgrees(s, d, bytes) == copy[s][d] \in {"none", bytes}

\* Faulty: the put is acknowledged once the primary has the object.
PutStepEarly(u) ==
  LET q == user[u] IN
  /\ q.pc = "put"
  /\ copy' = PutOne(q.store, q.digest, q.bytes)
  /\ IF PutAgrees(q.store, q.digest, q.bytes)
     THEN Ends(u, "ok") /\ acked' = acked \cup {q.digest}
     ELSE Ends(u, "error") /\ UNCHANGED acked
  /\ UNCHANGED damaged

\* put_immutable: the primary, then the replicas in order; the first error ends it.
PutStep(u) ==
  LET q == user[u] IN
  /\ q.pc = "put"
  /\ copy' = PutOne(q.store, q.digest, q.bytes)
  /\ IF ~PutAgrees(q.store, q.digest, q.bytes)
     THEN Ends(u, "error") /\ UNCHANGED acked
     ELSE IF q.store < LastStore
     THEN user' = [user EXCEPT ![u].store = @ + 1] /\ UNCHANGED acked
     ELSE Ends(u, "ok") /\ acked' = acked \cup {q.digest}
  /\ UNCHANGED damaged

\* get: the primary answers at once, a replica after the primary is repaired.
GetStep(u) ==
  LET q == user[u] found == copy[q.store][q.digest] IN
  /\ q.pc = "get"
  /\ IF found = "none"
     THEN IF q.store < LastStore THEN user' = [user EXCEPT ![u].store = @ + 1]
          ELSE Ends(u, "missing")
     ELSE user' = [user EXCEPT ![u].bytes = found,
                     ![u].pc = IF q.store = 0 THEN "done" ELSE "repair",
                     ![u].reply = IF q.store = 0 THEN "ok" ELSE "none"]
  /\ UNCHANGED <<copy, acked, damaged>>

RepairPrimary(u) ==
  LET q == user[u] IN
  /\ q.pc = "repair"
  /\ copy' = PutOne(0, q.digest, q.bytes)
  /\ Ends(u, IF PutAgrees(0, q.digest, q.bytes) THEN "ok" ELSE "error")
  /\ UNCHANGED <<acked, damaged>>

\* A request fails; a put may have reached the store nevertheless.
StoreFails(u) ==
  LET q == user[u] IN
  /\ q.pc \in {"put", "get", "repair"} /\ Ends(u, "error")
  /\ copy' \in IF q.pc = "get" THEN {copy}
               ELSE {copy, PutOne(IF q.pc = "put" THEN q.store ELSE 0, q.digest, q.bytes)}
  /\ UNCHANGED <<acked, damaged>>

Damage(s, d) ==
  /\ copy[s][d] = "good"
  /\ \E bad \in {"none", "rotten"} : copy' = [copy EXCEPT ![s][d] = bad]
  /\ damaged' = damaged \cup {<<s, d>>} /\ UNCHANGED <<user, acked>>

ArtifactNext ==
  \/ /\ \E u \in Users :
          \/ \E d \in Digests : BeginUse(u, "put", d) \/ BeginUse(u, "get", d)
          \/ PutStep(u) \/ GetStep(u) \/ RepairPrimary(u)
     /\ UNCHANGED storeFaults
  \/ /\ storeFaults < StoreFaults /\ storeFaults' = storeFaults + 1
     /\ \/ \E u \in Users : StoreFails(u)
        \/ \E s \in Stores, d \in Digests : Damage(s, d)

ArtifactSpec == ArtifactInit /\ [][ArtifactNext]_objVars

-----------------------------------------------------------------------------
\* An acknowledged put has left a whole copy in every store, also when it found
\* what an earlier put that failed half way, or a repair, had written; only the
\* medium takes one away.
AckedEverywhere ==
  \A d \in acked, s \in Stores : copy[s][d] = "good" \/ <<s, d>> \in damaged

\* A get that began after an acknowledged put finds the object unless every
\* store has lost or spoilt its copy.
ReadsSurviveLoss ==
  \A u \in Users : user[u].reply = "missing" /\ user[u].digest \in user[u].promised =>
    \A s \in Stores : <<s, user[u].digest>> \in damaged

\* Objects are immutable: no put and no repair, with whatever bytes it read,
\* replaces a copy; only damage does.
ObjectsImmutable ==
  [][\A s \in Stores, d \in Digests :
       copy[s][d] # "none" /\ copy'[s][d] # copy[s][d] =>
       storeFaults' # storeFaults /\ user' = user]_objVars
=============================================================================

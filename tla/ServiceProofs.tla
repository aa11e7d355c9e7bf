---------------------------- MODULE ServiceProofs ----------------------------
(***************************************************************************)
(* Proofs about the registry's services beside its control plane.          *)
(* ArtifactStore: what an acknowledged put leaves, what a get may miss and *)
(* that copies are immutable, for every number of handlers, objects,       *)
(* replicas and faults.  RateLimit, Billing and Checkpoints: the bound of  *)
(* a window, the webhook's rows and the one signing key.  MerkleProofs:    *)
(* that the proofs of a log of any length verify for that log alone.       *)
(***************************************************************************)
EXTENDS ArtifactStore, RateLimit, Billing, MerkleProofs, SequenceTheorems,
        WellFoundedInduction, TLAPS

Copies == {"none", "good", "rotten"}
Replies == {"none", "ok", "missing", "error"}

UserStates ==
  [pc : {"idle", "put", "get", "repair", "done"}, digest : Digests \cup {"none"},
   store : Stores, bytes : Copies, promised : SUBSET Digests, reply : Replies]

Typed ==
  /\ copy \in [Stores -> [Digests -> Copies]]
  /\ user \in [Users -> UserStates]
  /\ acked \in SUBSET Digests /\ damaged \in SUBSET (Stores \X Digests)
  /\ storeFaults \in 0..StoreFaults

\* A store still has the object whole, or its medium failed.
Kept(s, d) == copy[s][d] = "good" \/ <<s, d>> \in damaged

\* A put has left the object in every store before the one it is at.
PutBehind(u) ==
  user[u].pc = "put" =>
    /\ user[u].bytes = "good"
    /\ \A s \in Stores : s < user[u].store => Kept(s, user[u].digest)

\* A get of a promised object passes a store only if its medium failed.
GetBehind(u) ==
  user[u].digest \in user[u].promised =>
    /\ user[u].digest \in acked
    /\ user[u].pc = "get" =>
         \A s \in Stores : s < user[u].store => <<s, user[u].digest>> \in damaged
    /\ user[u].reply = "missing" =>
         \A s \in Stores : <<s, user[u].digest>> \in damaged

Behind(u) ==
  /\ user[u].pc \in {"put", "get", "repair"} => user[u].digest \in Digests
  /\ PutBehind(u) /\ GetBehind(u)

\* The inductive invariant.
StoreInv == Typed /\ AckedEverywhere /\ \A u \in Users : Behind(u)

\* Every step: what was whole stays so unless its medium fails, and what was
\* acknowledged stays acknowledged.
Grows ==
  /\ damaged \subseteq damaged' /\ acked \subseteq acked'
  /\ \A s \in Stores, d \in Digests : Kept(s, d) => Kept(s, d)'

-------------------------------------------------------------------------------
\* put_one writes only where nothing is, and if it agrees its bytes are there.
LEMMA PutOneKeeps ==
  ASSUME Typed, NEW s \in Stores, NEW d \in Digests, NEW b \in Copies
  PROVE  /\ PutOne(s, d, b) \in [Stores -> [Digests -> Copies]]
         /\ \A t \in Stores, e \in Digests :
              copy[t][e] # "none" => PutOne(s, d, b)[t][e] = copy[t][e]
         /\ PutAgrees(s, d, b) => PutOne(s, d, b)[s][d] = b
BY DEF Typed, PutOne, PutAgrees, Copies

\* A step in which put_one writes, or nothing does, keeps what was whole.
LEMMA PutGrows ==
  ASSUME Typed, NEW s \in Stores, NEW d \in Digests, NEW b \in Copies,
         copy' \in {copy, PutOne(s, d, b)}, damaged' = damaged, acked \subseteq acked'
  PROVE  copy' \in [Stores -> [Digests -> Copies]] /\ Grows
<1>1. /\ copy' \in [Stores -> [Digests -> Copies]]
      /\ \A t \in Stores, e \in Digests : copy[t][e] # "none" => copy'[t][e] = copy[t][e]
  <2>1. CASE copy' = copy
    BY <2>1 DEF Typed
  <2>2. CASE copy' = PutOne(s, d, b)
    BY <2>2, PutOneKeeps
  <2> QED BY <2>1, <2>2
<1> QED BY <1>1 DEF Grows, Kept

\* A handler that answers keeps its digest and what it was promised.
LEMMA EndsMoves ==
  ASSUME Typed, NEW u \in Users, NEW r \in Replies, Ends(u, r)
  PROVE  /\ \A v \in Users : v # u => user'[v] = user[v]
         /\ user' \in [Users -> UserStates]
         /\ user'[u].pc = "done" /\ user'[u].reply = r
         /\ user'[u].digest = user[u].digest /\ user'[u].promised = user[u].promised
<1>1. user[u] \in UserStates
  BY DEF Typed
<1> DEFINE n == [user[u] EXCEPT !.pc = "done", !.reply = r]
<1>2. user' = [user EXCEPT ![u] = n]
  BY DEF Ends
<1>3. n \in UserStates
  BY <1>1 DEF UserStates
<1>4. /\ n.pc = "done" /\ n.reply = r
      /\ n.digest = user[u].digest /\ n.promised = user[u].promised
  BY <1>1 DEF UserStates
<1> HIDE DEF n
<1> QED BY <1>2, <1>3, <1>4 DEF Typed

\* A put or a get that goes on to the next store changes nothing else.
LEMMA NextStoreMoves ==
  ASSUME Typed, NEW u \in Users, user[u].store < LastStore,
         user' = [user EXCEPT ![u].store = @ + 1]
  PROVE  /\ \A v \in Users : v # u => user'[v] = user[v]
         /\ user' \in [Users -> UserStates]
         /\ user'[u].pc = user[u].pc /\ user'[u].bytes = user[u].bytes
         /\ user'[u].digest = user[u].digest /\ user'[u].promised = user[u].promised
         /\ user'[u].reply = user[u].reply
         /\ \A s \in Stores : s < user'[u].store => s < user[u].store \/ s = user[u].store
<1>1. user[u] \in UserStates /\ user[u].store \in Stores
  BY DEF Typed, UserStates
<1>2. user[u].store + 1 \in Stores
  BY <1>1, ArtifactAssumption DEF Stores
<1> DEFINE n == [user[u] EXCEPT !.store = user[u].store + 1]
<1>3. user' = [user EXCEPT ![u] = n]
  OBVIOUS
<1>4. n \in UserStates
  BY <1>1, <1>2 DEF UserStates
<1>5. /\ n.pc = user[u].pc /\ n.bytes = user[u].bytes
      /\ n.digest = user[u].digest /\ n.promised = user[u].promised
      /\ n.reply = user[u].reply /\ n.store = user[u].store + 1
  BY <1>1 DEF UserStates
<1> HIDE DEF n
<1>6. user'[u] = n /\ user' \in [Users -> UserStates]
      /\ \A v \in Users : v # u => user'[v] = user[v]
  BY <1>3, <1>4 DEF Typed
<1>7. \A s \in Stores : s < user[u].store + 1 => s < user[u].store \/ s = user[u].store
  BY <1>1, ArtifactAssumption DEF Stores
<1> QED BY <1>5, <1>6, <1>7

\* A handler that does nothing keeps its part of the invariant.
LEMMA Frame ==
  ASSUME StoreInv, Grows, NEW v \in Users, user'[v] = user[v]
  PROVE  Behind(v)'
<1>1. Behind(v) /\ user[v] \in UserStates
  BY DEF StoreInv, Typed
<1>2. PutBehind(v)'
  BY <1>1 DEF Grows, Behind, PutBehind
<1>3. GetBehind(v)'
  BY <1>1 DEF Grows, Behind, GetBehind
<1> QED BY <1>1, <1>2, <1>3 DEF Behind

\* Unless a put is acknowledged, the promises to acknowledged puts are kept.
LEMMA AckedKept ==
  ASSUME StoreInv, Grows, acked' = acked
  PROVE  AckedEverywhere'
<1>1. \A d \in acked, s \in Stores : d \in Digests /\ Kept(s, d)
  BY DEF StoreInv, Typed, AckedEverywhere, Kept
<1>2. \A d \in acked, s \in Stores : Kept(s, d)'
  BY <1>1 DEF Grows
<1> QED BY <1>2 DEF AckedEverywhere, Kept

\* A handler that answers anything but "missing" has nothing left to keep.
LEMMA AnswerBehind ==
  ASSUME StoreInv, Grows, NEW u \in Users, NEW r \in Replies \ {"missing"}, Ends(u, r)
  PROVE  \A v \in Users : Behind(v)'
<1>0. r \in Replies /\ Typed /\ Behind(u)
  BY DEF StoreInv
<1>1. /\ \A v \in Users : v # u => user'[v] = user[v]
      /\ user'[u].pc = "done" /\ user'[u].reply = r
      /\ user'[u].digest = user[u].digest /\ user'[u].promised = user[u].promised
  BY <1>0, EndsMoves
<1>2. Behind(u)'
  BY <1>0, <1>1 DEF Behind, PutBehind, GetBehind, Grows
<1> QED BY <1>1, <1>2, Frame

-------------------------------------------------------------------------------
\* The store starts with nothing in it and nobody at work.
LEMMA StoreInitInv == ArtifactInit => StoreInv
<1> SUFFICES ASSUME ArtifactInit PROVE StoreInv
  OBVIOUS
<1>1. 0 \in Stores
  BY ArtifactAssumption DEF Stores
<1>2. Resting \in UserStates
  BY <1>1 DEF Resting, UserStates, Copies, Replies
<1>3. Typed
  BY <1>2, ArtifactAssumption DEF ArtifactInit, Typed, Copies
<1>4. \A u \in Users : Behind(u)
  BY DEF ArtifactInit, Behind, PutBehind, GetBehind, Resting
<1>5. AckedEverywhere
  BY DEF ArtifactInit, AckedEverywhere
<1> QED BY <1>3, <1>4, <1>5 DEF StoreInv

\* A handler that begins is at the primary, and a get knows what is promised.
LEMMA BeginInv ==
  ASSUME StoreInv, NEW u \in Users, NEW d \in Digests, NEW what \in {"put", "get"},
         BeginUse(u, what, d), UNCHANGED storeFaults
  PROVE  StoreInv'
<1> DEFINE b == IF what = "put" THEN "good" ELSE "none"
           n == [Resting EXCEPT !.pc = what, !.digest = d, !.bytes = b,
                                !.promised = acked \cap {d}]
<1>1. 0 \in Stores /\ Typed
  BY ArtifactAssumption DEF Stores, StoreInv
<1>2. user' = [user EXCEPT ![u] = n] /\ UNCHANGED <<copy, acked, damaged>>
  BY DEF BeginUse
<1>3. n \in UserStates
  <2>1. Resting \in UserStates
    BY <1>1 DEF Resting, UserStates, Copies, Replies
  <2>2. b \in Copies /\ acked \cap {d} \in SUBSET Digests
    BY DEF Copies
  <2> HIDE DEF b
  <2> QED BY <2>1, <2>2 DEF UserStates
<1>4. /\ n.pc = what /\ n.digest = d /\ n.store = 0 /\ n.reply = "none"
      /\ n.promised = acked \cap {d} /\ (what = "put" => n.bytes = "good")
  BY DEF Resting
<1> HIDE DEF n, b
<1>5. /\ \A v \in Users : v # u => user'[v] = user[v]
      /\ user'[u] = n /\ user' \in [Users -> UserStates]
  BY <1>1, <1>2, <1>3 DEF Typed
<1>6. Typed' /\ Grows
  BY <1>1, <1>2, <1>5 DEF Typed, Grows, Kept
<1>7. AckedEverywhere'
  BY <1>2, <1>6, AckedKept
<1>8. ~ \E s \in Stores : s < 0
  BY ArtifactAssumption DEF Stores
<1>9. Behind(u)'
  BY <1>2, <1>4, <1>5, <1>8 DEF Behind, PutBehind, GetBehind
<1> QED BY <1>5, <1>6, <1>7, <1>9, Frame DEF StoreInv

\* A put: what it finds or writes is the whole object, or it reports an error.
LEMMA PutInv ==
  ASSUME StoreInv, NEW u \in Users, PutStep(u), UNCHANGED storeFaults
  PROVE  StoreInv'
<1> DEFINE q == user[u]
<1>1. /\ Typed /\ Behind(u) /\ q.pc = "put" /\ q.bytes = "good" /\ q.bytes \in Copies
      /\ q.digest \in Digests /\ q.store \in Stores
  BY DEF StoreInv, Typed, PutStep, Behind, PutBehind, UserStates, Copies
<1>2. copy' = PutOne(q.store, q.digest, q.bytes) /\ damaged' = damaged
  BY DEF PutStep
<1>3. acked \subseteq acked'
  BY DEF PutStep
<1>4. copy' \in [Stores -> [Digests -> Copies]] /\ Grows
  BY <1>1, <1>2, <1>3, PutGrows
<1>5. CASE ~PutAgrees(q.store, q.digest, q.bytes)
  <2>1. Ends(u, "error") /\ acked' = acked
    BY <1>5 DEF PutStep
  <2>2. "error" \in Replies /\ "error" # "missing"
    BY DEF Replies
  <2>3. user' \in [Users -> UserStates]
    BY <1>1, <2>1, <2>2, EndsMoves
  <2>4. Typed'
    BY <1>1, <1>2, <1>4, <2>1, <2>3 DEF Typed
  <2>5. \A v \in Users : Behind(v)'
    BY <1>4, <2>1, <2>2, AnswerBehind
  <2> QED BY <1>4, <2>1, <2>4, <2>5, AckedKept DEF StoreInv
<1>6. CASE PutAgrees(q.store, q.digest, q.bytes) /\ q.store < LastStore
  <2>1. user' = [user EXCEPT ![u].store = @ + 1] /\ acked' = acked
    BY <1>6 DEF PutStep
  <2>2. /\ \A v \in Users : v # u => user'[v] = user[v]
        /\ user' \in [Users -> UserStates]
        /\ user'[u].pc = q.pc /\ user'[u].bytes = q.bytes
        /\ user'[u].digest = q.digest /\ user'[u].promised = q.promised
        /\ user'[u].reply = q.reply
        /\ \A s \in Stores : s < user'[u].store => s < q.store \/ s = q.store
    BY <1>1, <1>6, <2>1, NextStoreMoves
  <2>3. copy'[q.store][q.digest] = "good"
    BY <1>1, <1>2, <1>6, PutOneKeeps
  <2>4. Typed'
    BY <1>1, <1>2, <1>4, <2>1, <2>2 DEF Typed
  <2>5. PutBehind(u)'
    <3>1. \A s \in Stores : s < user'[u].store => copy'[s][q.digest] = "good"
                                               \/ <<s, q.digest>> \in damaged'
      BY <1>1, <1>4, <2>2, <2>3 DEF Behind, PutBehind, Grows, Kept
    <3> QED BY <1>1, <2>2, <3>1 DEF PutBehind, Kept
  <2>6. GetBehind(u)'
    BY <1>1, <1>4, <2>2 DEF Behind, GetBehind, Grows
  <2>7. Behind(u)'
    BY <1>1, <2>2, <2>5, <2>6 DEF Behind
  <2> QED BY <1>4, <2>1, <2>2, <2>4, <2>7, AckedKept, Frame DEF StoreInv
<1>7. CASE PutAgrees(q.store, q.digest, q.bytes) /\ ~(q.store < LastStore)
  <2>1. Ends(u, "ok") /\ acked' = acked \cup {q.digest}
    BY <1>7 DEF PutStep
  <2>2. "ok" \in Replies /\ "ok" # "missing"
    BY DEF Replies
  <2>3. user' \in [Users -> UserStates]
    BY <1>1, <2>1, <2>2, EndsMoves
  <2>4. Typed'
    BY <1>1, <1>2, <1>4, <2>1, <2>3 DEF Typed
  <2>5. \A s \in Stores : s < q.store \/ s = q.store
    BY <1>1, <1>7, ArtifactAssumption DEF Stores
  <2>6. copy'[q.store][q.digest] = "good"
    BY <1>1, <1>2, <1>7, PutOneKeeps
  <2>7. \A s \in Stores : copy'[s][q.digest] = "good" \/ <<s, q.digest>> \in damaged'
    BY <1>1, <1>4, <2>5, <2>6 DEF Behind, PutBehind, Grows, Kept
  <2>8. \A d \in acked, s \in Stores : Kept(s, d)'
    BY <1>1, <1>4 DEF StoreInv, Typed, AckedEverywhere, Grows, Kept
  <2>9. AckedEverywhere'
    BY <2>1, <2>7, <2>8 DEF AckedEverywhere, Kept
  <2>10. \A v \in Users : Behind(v)'
    BY <1>4, <2>1, <2>2, AnswerBehind
  <2> QED BY <2>4, <2>9, <2>10 DEF StoreInv
<1> QED BY <1>5, <1>6, <1>7

\* A get passes a store, or answers, only as the invariant allows: a promised
\* object is missing only from stores whose medium failed.
LEMMA GetInv ==
  ASSUME StoreInv, NEW u \in Users, GetStep(u), UNCHANGED storeFaults
  PROVE  StoreInv'
<1> DEFINE q == user[u]
           found == copy[q.store][q.digest]
<1>1. /\ Typed /\ Behind(u) /\ q.pc = "get" /\ q \in UserStates
      /\ q.digest \in Digests /\ q.store \in Stores /\ found \in Copies
  BY DEF StoreInv, Typed, GetStep, Behind, UserStates
<1>2. UNCHANGED <<copy, acked, damaged>>
  BY DEF GetStep
<1>3. Grows
  BY <1>2 DEF Grows, Kept
<1>4. AckedEverywhere'
  BY <1>2, <1>3, AckedKept
<1>5. ASSUME q.digest \in q.promised, found = "none"
      PROVE  <<q.store, q.digest>> \in damaged
  BY <1>1, <1>5 DEF Behind, GetBehind, StoreInv, AckedEverywhere
<1>6. CASE found = "none" /\ q.store < LastStore
  <2>1. user' = [user EXCEPT ![u].store = @ + 1]
    BY <1>6 DEF GetStep
  <2>2. /\ \A v \in Users : v # u => user'[v] = user[v]
        /\ user' \in [Users -> UserStates]
        /\ user'[u].pc = q.pc
        /\ user'[u].digest = q.digest /\ user'[u].promised = q.promised
        /\ user'[u].reply = q.reply
        /\ \A s \in Stores : s < user'[u].store => s < q.store \/ s = q.store
    BY <1>1, <1>6, <2>1, NextStoreMoves
  <2>3. Typed'
    BY <1>1, <1>2, <2>2 DEF Typed
  <2>4. GetBehind(u)'
    BY <1>1, <1>2, <1>5, <1>6, <2>2 DEF Behind, GetBehind
  <2>5. Behind(u)'
    BY <1>1, <2>2, <2>4 DEF Behind, PutBehind
  <2> QED BY <1>3, <1>4, <2>2, <2>3, <2>5, Frame DEF StoreInv
<1>7. CASE found = "none" /\ ~(q.store < LastStore)
  <2>1. Ends(u, "missing") /\ "missing" \in Replies
    BY <1>7 DEF GetStep, Replies
  <2>2. /\ \A v \in Users : v # u => user'[v] = user[v]
        /\ user' \in [Users -> UserStates]
        /\ user'[u].pc = "done"
        /\ user'[u].digest = q.digest /\ user'[u].promised = q.promised
    BY <1>1, <2>1, EndsMoves
  <2>3. Typed'
    BY <1>1, <1>2, <2>2 DEF Typed
  <2>4. \A s \in Stores : s < q.store \/ s = q.store
    BY <1>1, <1>7, ArtifactAssumption DEF Stores
  <2>5. GetBehind(u)'
    BY <1>1, <1>2, <1>5, <1>7, <2>2, <2>4 DEF Behind, GetBehind
  <2>6. Behind(u)'
    BY <2>2, <2>5 DEF Behind, PutBehind
  <2> QED BY <1>3, <1>4, <2>2, <2>3, <2>6, Frame DEF StoreInv
<1>8. CASE found # "none"
  <2> DEFINE pc == IF q.store = 0 THEN "done" ELSE "repair"
             reply == IF q.store = 0 THEN "ok" ELSE "none"
             n == [q EXCEPT !.bytes = found, !.pc = pc, !.reply = reply]
  <2>1. user' = [user EXCEPT ![u] = n]
    BY <1>8 DEF GetStep
  <2>2. pc \in {"done", "repair"} /\ reply \in {"ok", "none"}
    OBVIOUS
  <2> HIDE DEF pc, reply
  <2>3. /\ n \in UserStates /\ n.pc \in {"done", "repair"} /\ n.reply \in {"ok", "none"}
        /\ n.digest = q.digest /\ n.promised = q.promised
    BY <1>1, <2>2 DEF UserStates, Replies
  <2> HIDE DEF n
  <2>4. /\ \A v \in Users : v # u => user'[v] = user[v]
        /\ user'[u] = n /\ user' \in [Users -> UserStates]
    BY <1>1, <2>1, <2>3 DEF Typed
  <2>5. Typed'
    BY <1>1, <1>2, <2>4 DEF Typed
  <2>6. GetBehind(u)'
    BY <1>1, <1>2, <2>3, <2>4 DEF Behind, GetBehind
  <2>7. Behind(u)'
    BY <1>1, <2>3, <2>4, <2>6 DEF Behind, PutBehind
  <2> QED BY <1>3, <1>4, <2>4, <2>5, <2>7, Frame DEF StoreInv
<1> QED BY <1>6, <1>7, <1>8

\* A repair, and a request that fails with or without its effect, put at most
\* one copy where none was, and the handler answers.
LEMMA AnswerInv ==
  ASSUME StoreInv, NEW u \in Users, NEW s \in Stores, NEW r \in Replies \ {"missing"},
         user[u].pc \in {"put", "get", "repair"}, Ends(u, r),
         copy' \in {copy, PutOne(s, user[u].digest, user[u].bytes)},
         UNCHANGED <<acked, damaged>>, storeFaults' \in 0..StoreFaults
  PROVE  StoreInv'
<1>1. /\ Typed /\ user[u].digest \in Digests /\ user[u].bytes \in Copies /\ r \in Replies
  BY DEF StoreInv, Typed, Behind, UserStates
<1>2. copy' \in [Stores -> [Digests -> Copies]] /\ Grows
  BY <1>1, PutGrows
<1>3. user' \in [Users -> UserStates]
  BY <1>1, EndsMoves
<1>4. Typed'
  BY <1>1, <1>2, <1>3 DEF Typed
<1>5. AckedEverywhere'
  BY <1>2, AckedKept
<1>6. \A v \in Users : Behind(v)'
  BY <1>2, AnswerBehind
<1> QED BY <1>4, <1>5, <1>6 DEF StoreInv

\* get repairs the primary with what it read, if nothing has reappeared there.
LEMMA RepairInv ==
  ASSUME StoreInv, NEW u \in Users, RepairPrimary(u), UNCHANGED storeFaults
  PROVE  StoreInv'
<1>1. PICK r \in {"ok", "error"} : Ends(u, r)
  BY DEF RepairPrimary
<1>2. r \in Replies \ {"missing"} /\ 0 \in Stores /\ storeFaults' \in 0..StoreFaults
  BY ArtifactAssumption DEF Replies, Stores, StoreInv, Typed
<1>3. /\ user[u].pc \in {"put", "get", "repair"} /\ UNCHANGED <<acked, damaged>>
      /\ copy' \in {copy, PutOne(0, user[u].digest, user[u].bytes)}
  BY DEF RepairPrimary
<1> QED BY <1>1, <1>2, <1>3, AnswerInv

\* A request that fails, with or without its effect.
LEMMA FailsInv ==
  ASSUME StoreInv, NEW u \in Users, StoreFails(u), storeFaults' \in 0..StoreFaults
  PROVE  StoreInv'
<1>1. PICK s \in {user[u].store, 0} :
         copy' \in {copy, PutOne(s, user[u].digest, user[u].bytes)}
  BY DEF StoreFails
<1>2. s \in Stores /\ "error" \in Replies \ {"missing"}
  BY ArtifactAssumption DEF Replies, Stores, StoreInv, Typed, UserStates
<1>3. /\ user[u].pc \in {"put", "get", "repair"} /\ UNCHANGED <<acked, damaged>>
      /\ Ends(u, "error")
  BY DEF StoreFails
<1> QED BY <1>1, <1>2, <1>3, AnswerInv

\* The medium takes a copy away and is recorded as having done so.
LEMMA DamageInv ==
  ASSUME StoreInv, NEW s \in Stores, NEW d \in Digests, Damage(s, d),
         storeFaults' \in 0..StoreFaults
  PROVE  StoreInv'
<1>1. Typed
  BY DEF StoreInv
<1>2. PICK bad \in {"none", "rotten"} : copy' = [copy EXCEPT ![s][d] = bad]
  BY DEF Damage
<1>3. /\ copy' \in [Stores -> [Digests -> Copies]]
      /\ \A t \in Stores, e \in Digests : <<t, e>> # <<s, d>> => copy'[t][e] = copy[t][e]
  BY <1>1, <1>2 DEF Typed, Copies
<1>4. damaged' = damaged \cup {<<s, d>>} /\ UNCHANGED <<user, acked>>
  BY DEF Damage
<1>5. Grows
  BY <1>3, <1>4 DEF Grows, Kept
<1>6. Typed'
  BY <1>1, <1>3, <1>4 DEF Typed
<1> QED BY <1>4, <1>5, <1>6, AckedKept, Frame DEF StoreInv

\* The invariant is inductive.
LEMMA StoreNextInv == StoreInv /\ [ArtifactNext]_objVars => StoreInv'
<1> SUFFICES ASSUME StoreInv, [ArtifactNext]_objVars PROVE StoreInv'
  OBVIOUS
<1>1. CASE UNCHANGED objVars
  BY <1>1 DEF objVars, StoreInv, Typed, AckedEverywhere, Behind, PutBehind, GetBehind, Kept
<1>2. ASSUME NEW u \in Users, NEW d \in Digests, UNCHANGED storeFaults,
             BeginUse(u, "put", d) \/ BeginUse(u, "get", d)
      PROVE  StoreInv'
  BY <1>2, BeginInv
<1>3. ASSUME NEW u \in Users, PutStep(u) \/ GetStep(u) \/ RepairPrimary(u),
             UNCHANGED storeFaults
      PROVE  StoreInv'
  BY <1>3, PutInv, GetInv, RepairInv
<1>4. ASSUME storeFaults < StoreFaults, storeFaults' = storeFaults + 1
      PROVE  storeFaults' \in 0..StoreFaults
  BY <1>4, ArtifactAssumption DEF StoreInv, Typed
<1>5. ASSUME NEW u \in Users, StoreFails(u), storeFaults' \in 0..StoreFaults
      PROVE  StoreInv'
  BY <1>5, FailsInv
<1>6. ASSUME NEW s \in Stores, NEW d \in Digests, Damage(s, d), storeFaults' \in 0..StoreFaults
      PROVE  StoreInv'
  BY <1>6, DamageInv
<1> QED BY <1>1, <1>2, <1>3, <1>4, <1>5, <1>6 DEF ArtifactNext

\* It holds in every reachable state.
LEMMA StoreAlways == ArtifactSpec => []StoreInv
BY StoreInitInv, StoreNextInv, PTL DEF ArtifactSpec

-------------------------------------------------------------------------------
\* The type invariant: handlers stay within the stores that exist.
THEOREM ArtifactTypes == ArtifactSpec => []ArtifactTypeOK
<1>1. StoreInv => ArtifactTypeOK
  BY DEF StoreInv, Typed, UserStates, Copies, Replies, ArtifactTypeOK
<1> QED BY <1>1, StoreAlways, PTL

\* put_immutable's promise: once it answered, every store has the object whole,
\* whatever failed or half-done puts and repairs ran beside it, and only a
\* failing medium takes a copy away.
THEOREM AckedEverywhereHolds == ArtifactSpec => []AckedEverywhere
<1>1. StoreInv => AckedEverywhere
  BY DEF StoreInv
<1> QED BY <1>1, StoreAlways, PTL

\* get's promise: an object whose put was acknowledged before the get began is
\* reported missing only when the medium of every store failed.
THEOREM ReadsSurviveLossHolds == ArtifactSpec => []ReadsSurviveLoss
<1>1. StoreInv => ReadsSurviveLoss
  BY DEF StoreInv, Behind, GetBehind, ReadsSurviveLoss
<1> QED BY <1>1, StoreAlways, PTL

\* PutMode::Create: no put, no repair and no request that failed half way
\* replaces a copy; only the medium does.
THEOREM ObjectsImmutableHolds == ArtifactSpec => ObjectsImmutable
<1> DEFINE Immutable ==
      \A s \in Stores, d \in Digests :
        copy[s][d] # "none" /\ copy'[s][d] # copy[s][d] =>
        storeFaults' # storeFaults /\ user' = user
<1>1. ASSUME StoreInv, [ArtifactNext]_objVars PROVE [Immutable]_objVars
  <2>0. Typed
    BY <1>1 DEF StoreInv
  <2>1. CASE UNCHANGED objVars
    BY <2>1
  <2>2. ASSUME NEW u \in Users, NEW s \in Stores, user[u].pc \in {"put", "get", "repair"},
               copy' \in {copy, PutOne(s, user[u].digest, user[u].bytes)}
        PROVE  Immutable
    <3>1. user[u].digest \in Digests /\ user[u].bytes \in Copies
      BY <1>1, <2>2 DEF StoreInv, Typed, Behind, UserStates
    <3>2. \A t \in Stores, e \in Digests : copy[t][e] # "none" => copy'[t][e] = copy[t][e]
      <4>1. CASE copy' = copy
        BY <4>1
      <4>2. CASE copy' = PutOne(s, user[u].digest, user[u].bytes)
        BY <2>0, <2>2, <3>1, <4>2, PutOneKeeps
      <4> QED BY <2>2, <4>1, <4>2
    <3> QED BY <3>2
  <2>3. 0 \in Stores /\ \A u \in Users : user[u].store \in Stores
    BY <2>0, ArtifactAssumption DEF Stores, Typed, UserStates
  <2>4. ASSUME NEW u \in Users, NEW d \in Digests,
               BeginUse(u, "put", d) \/ BeginUse(u, "get", d)
        PROVE  Immutable
    BY <2>4 DEF BeginUse
  <2>5. ASSUME NEW u \in Users, PutStep(u) PROVE Immutable
    BY <2>2, <2>3, <2>5 DEF PutStep
  <2>6. ASSUME NEW u \in Users, GetStep(u) PROVE Immutable
    BY <2>6 DEF GetStep
  <2>7. ASSUME NEW u \in Users, RepairPrimary(u) PROVE Immutable
    BY <2>2, <2>3, <2>7 DEF RepairPrimary
  <2>8. ASSUME NEW u \in Users, StoreFails(u) PROVE Immutable
    <3>1. PICK s \in {user[u].store, 0} :
             copy' \in {copy, PutOne(s, user[u].digest, user[u].bytes)}
      BY <2>8 DEF StoreFails
    <3>2. s \in Stores /\ user[u].pc \in {"put", "get", "repair"}
      BY <2>3, <2>8 DEF StoreFails
    <3> QED BY <2>2, <3>1, <3>2
  <2>9. ASSUME NEW s \in Stores, NEW d \in Digests, Damage(s, d),
               storeFaults' = storeFaults + 1
        PROVE  Immutable
    <3>1. storeFaults' # storeFaults
      BY <2>0, <2>9 DEF Typed
    <3> QED BY <2>9, <3>1 DEF Damage
  <2> QED BY <1>1, <2>1, <2>4, <2>5, <2>6, <2>7, <2>8, <2>9 DEF ArtifactNext
<1> QED BY <1>1, StoreAlways, PTL DEF ArtifactSpec, ObjectsImmutable

-----------------------------------------------------------------------------
(***************************************************************************)
(* RateLimit.  The counter of the running window is never below what the   *)
(* window let through, and pruning cannot reach it.                        *)
(***************************************************************************)
RateTyped ==
  /\ rlNow \in Times
  /\ counts \in [Subjects -> [Times -> Nat]] /\ passed \in [Subjects -> [Times -> Nat]]

Counted == \A s \in Subjects : passed[s][ClockWindow] <= counts[s][WindowStart]

\* Nothing passed in a window that has not begun.
Ahead == \A s \in Subjects, w \in Times : w > ClockWindow => passed[s][w] = 0

RateInv == RateTyped /\ Counted /\ Ahead /\ WindowBound

LEMMA RateConstants ==
  /\ Window \in Nat /\ Window > 0 /\ Maximum \in Nat /\ Retention \in Nat /\ MaxTime \in Nat
  /\ Retention >= Window
  BY RateAssumption

LEMMA Euclid ==
  ASSUME NEW n \in Nat, NEW w \in Nat, w > 0
  PROVE  /\ n \div w \in Nat /\ n % w \in Nat /\ n % w < w
         /\ n = w * (n \div w) + (n % w)
  OBVIOUS

LEMMA Quotient ==
  ASSUME NEW n \in Nat, NEW w \in Nat, w > 0
  PROVE  n \div w <= n
<1>1. PICK q \in Nat, r \in Nat : q = n \div w /\ r = n % w /\ n = w * q + r
  BY Euclid
<1>2. w * q >= q
  OBVIOUS
<1> QED BY <1>1, <1>2

LEMMA NextWindow ==
  ASSUME NEW n \in Nat, NEW w \in Nat, w > 0
  PROVE  /\ (n + 1) \div w >= n \div w
         /\ (n + 1) \div w = n \div w => (n + 1) - ((n + 1) % w) = n - (n % w)
<1>1. PICK q \in Nat, r \in Nat : q = n \div w /\ r = n % w /\ n = w * q + r /\ r < w
  BY Euclid
<1>2. PICK p \in Nat, t \in Nat :
         p = (n + 1) \div w /\ t = (n + 1) % w /\ n + 1 = w * p + t /\ t < w
  BY Euclid
<1>3. p >= q
  <2>1. SUFFICES ASSUME p + 1 <= q PROVE FALSE
    OBVIOUS
  <2>2. PICK k \in Nat : q = p + 1 + k
    BY <2>1
  <2>3. w * q = w * p + w + w * k /\ w * k \in Nat /\ w * p \in Nat
    BY <2>2
  <2> QED BY <1>1, <1>2, <2>3
<1>4. p = q => (n + 1) - t = n - r
  BY <1>1, <1>2
<1> QED BY <1>1, <1>2, <1>3, <1>4

LEMMA WindowOf ==
  ASSUME NEW n \in Times
  PROVE  /\ n - (n % Window) \in Times /\ n \div Window \in Times
         /\ (n - (n % Window)) + Retention >= n
<1>1. n \in Nat /\ n <= MaxTime
  BY RateConstants DEF Times
<1>2. PICK q \in Nat, r \in Nat :
         q = n \div Window /\ r = n % Window /\ n = Window * q + r /\ r < Window
  BY <1>1, RateConstants, Euclid
<1>3. Window * q \in Nat /\ n - r = Window * q /\ q <= n
  BY <1>1, <1>2, RateConstants, Quotient
<1> QED BY <1>1, <1>2, <1>3, RateConstants DEF Times

LEMMA WindowsAre ==
  ASSUME RateTyped
  PROVE  /\ WindowStart \in Times /\ ClockWindow \in Times
         /\ WindowStart + Retention >= rlNow
  BY WindowOf DEF RateTyped, WindowStart, ClockWindow

LEMMA RequestKeeps ==
  ASSUME RateInv, NEW s \in Subjects, Request(s)
  PROVE  RateInv'
<1>1. RateTyped /\ Counted /\ Ahead /\ WindowBound
  BY DEF RateInv
<1>2. WindowStart \in Times /\ ClockWindow \in Times
  BY <1>1, WindowsAre
<1>3. PICK a \in Times, w \in Times : a = WindowStart /\ w = ClockWindow
  BY <1>2
<1>4. PICK n \in Nat : n = counts[s][a] + 1
  BY <1>1 DEF RateTyped
<1>5. /\ rlNow' = rlNow /\ counts' = [counts EXCEPT ![s][a] = n]
      /\ passed' = IF n <= Maximum THEN [passed EXCEPT ![s][w] = @ + 1] ELSE passed
  BY <1>3, <1>4 DEF Request, Within
<1>6. WindowStart' = a /\ ClockWindow' = w
  BY <1>3, <1>5 DEF WindowStart, ClockWindow
<1>7. counts' \in [Subjects -> [Times -> Nat]] /\ counts'[s][a] = n
      /\ \A t \in Subjects \ {s} : counts'[t] = counts[t]
  BY <1>1, <1>5 DEF RateTyped
<1>8. /\ passed' \in [Subjects -> [Times -> Nat]]
      /\ \A t \in Subjects, v \in Times :
           \/ passed'[t][v] = passed[t][v]
           \/ t = s /\ v = w /\ n <= Maximum /\ passed'[t][v] = passed[t][v] + 1
  <2>1. CASE n <= Maximum
    BY <1>1, <1>5, <2>1 DEF RateTyped
  <2>2. CASE ~(n <= Maximum)
    BY <1>1, <1>5, <2>2 DEF RateTyped
  <2> QED BY <2>1, <2>2
<1>9. RateTyped'
  BY <1>1, <1>5, <1>7, <1>8 DEF RateTyped, Times
<1>10. ASSUME NEW t \in Subjects PROVE passed'[t][w] <= counts'[t][a]
  <2>1. passed[t][w] <= counts[t][a] /\ passed[t][w] \in Nat /\ counts[t][a] \in Nat
    BY <1>1, <1>3 DEF Counted, RateTyped
  <2>2. CASE t = s
    BY <1>4, <1>7, <1>8, <2>1, <2>2
  <2>3. CASE t # s
    <3>1. passed'[t][w] = passed[t][w] /\ counts'[t] = counts[t]
      BY <1>7, <1>8, <2>3
    <3> QED BY <2>1, <3>1
  <2> QED BY <2>2, <2>3
<1>11. WindowBound'
  <2>1. ASSUME NEW t \in Subjects, NEW v \in Times PROVE passed'[t][v] <= Maximum
    <3>1. passed[t][v] <= Maximum
      BY <1>1 DEF WindowBound
    <3>2. CASE passed'[t][v] = passed[t][v]
      BY <3>1, <3>2
    <3>3. CASE t = s /\ v = w /\ n <= Maximum /\ passed'[t][v] = passed[t][v] + 1
      <4>1. passed'[s][w] <= n
        BY <1>7, <1>10
      <4>2. passed'[s][w] \in Nat
        BY <1>8
      <4> QED BY <3>3, <4>1, <4>2, RateConstants
    <3> QED BY <1>8, <3>2, <3>3
  <2> QED BY <2>1 DEF WindowBound, Times
<1>12. Ahead'
  <2>1. w \in Nat
    BY RateConstants DEF Times
  <2>2. ASSUME NEW t \in Subjects, NEW v \in Times, v > w PROVE passed'[t][v] = 0
    <3>1. v # w /\ passed[t][v] = 0
      BY <1>1, <1>3, <2>1, <2>2 DEF Ahead, Times
    <3> QED BY <1>8, <3>1
  <2> QED BY <1>6, <2>2 DEF Ahead, Times
<1>13. Counted'
  BY <1>6, <1>10 DEF Counted
<1> QED BY <1>9, <1>11, <1>12, <1>13 DEF RateInv

LEMMA RateStepKeeps ==
  RateInv /\ [RateNext]_rlVars => RateInv'
<1> SUFFICES ASSUME RateInv, [RateNext]_rlVars PROVE RateInv'
  OBVIOUS
<1>1. RateTyped /\ Counted /\ Ahead /\ WindowBound
  BY DEF RateInv
<1>2. WindowStart \in Times /\ ClockWindow \in Times /\ WindowStart + Retention >= rlNow
  BY <1>1, WindowsAre
<1>3. CASE Prune
  <2>1. /\ rlNow' = rlNow /\ passed' = passed
        /\ counts' = [s \in Subjects |-> [t \in Times |->
                        IF t + Retention < rlNow THEN 0 ELSE counts[s][t]]]
    BY <1>3 DEF Prune
  <2>2. WindowStart' = WindowStart /\ ClockWindow' = ClockWindow
    BY <2>1 DEF WindowStart, ClockWindow
  <2>3. counts' \in [Subjects -> [Times -> Nat]]
    BY <1>1, <2>1 DEF RateTyped
  <2>4. ~(WindowStart + Retention < rlNow)
    BY <1>1, <1>2, RateConstants DEF RateTyped, Times
  <2>5. \A s \in Subjects : counts'[s][WindowStart] = counts[s][WindowStart]
    BY <1>2, <2>1, <2>4
  <2>6. RateTyped'
    BY <1>1, <2>1, <2>3 DEF RateTyped, Times
  <2>7. Counted'
    BY <1>1, <2>1, <2>2, <2>5 DEF Counted
  <2>8. Ahead' /\ WindowBound'
    BY <1>1, <2>1, <2>2 DEF Ahead, WindowBound, Times
  <2> QED BY <2>6, <2>7, <2>8 DEF RateInv
<1>4. CASE Second
  <2>1. rlNow < MaxTime /\ rlNow' = rlNow + 1 /\ counts' = counts /\ passed' = passed
    BY <1>4 DEF Second
  <2>2. RateTyped'
    BY <1>1, <2>1, RateConstants DEF RateTyped, Times
  <2>3. rlNow \in Nat
    BY <1>1, RateConstants DEF RateTyped, Times
  <2>4. /\ ClockWindow' >= ClockWindow
        /\ ClockWindow' = ClockWindow => WindowStart' = WindowStart
    <3>1. /\ (rlNow + 1) \div Window >= rlNow \div Window
          /\ (rlNow + 1) \div Window = rlNow \div Window
               => (rlNow + 1) - ((rlNow + 1) % Window) = rlNow - (rlNow % Window)
      BY <2>3, RateConstants, NextWindow
    <3>2. ClockWindow' = (rlNow + 1) \div Window /\ WindowStart' = (rlNow + 1) - ((rlNow + 1) % Window)
      BY <2>1 DEF ClockWindow, WindowStart
    <3>3. ClockWindow = rlNow \div Window /\ WindowStart = rlNow - (rlNow % Window)
      BY DEF ClockWindow, WindowStart
    <3> QED BY <3>1, <3>2, <3>3
  <2>5. (WindowStart \in Times)' /\ (ClockWindow \in Times)'
    <3>1. WindowStart' \in Times /\ ClockWindow' \in Times
      <4>1. PICK n \in Times : n = rlNow'
        BY <2>2 DEF RateTyped, Times
      <4>2. WindowStart' = n - (n % Window) /\ ClockWindow' = n \div Window
        BY <4>1 DEF WindowStart, ClockWindow
      <4> QED BY <4>2, WindowOf
    <3> QED BY <3>1 DEF Times
  <2>6. PICK w \in Times, x \in Times, a \in Times :
          w = ClockWindow /\ x = ClockWindow' /\ a = WindowStart'
    BY <1>2, <2>5 DEF Times
  <2>7. Counted'
    <3>1. ASSUME NEW s \in Subjects PROVE passed[s][x] <= counts[s][a]
      <4>1. CASE x = w
        BY <1>1, <2>4, <2>6, <4>1 DEF Counted
      <4>2. CASE x # w
        <5>1. x > w
          BY <2>4, <2>6, <4>2 DEF Times
        <5>2. passed[s][x] = 0 /\ counts[s][a] \in Nat
          BY <1>1, <2>6, <5>1 DEF Ahead, RateTyped
        <5> QED BY <5>2
      <4> QED BY <4>1, <4>2
    <3> QED BY <2>1, <2>6, <3>1 DEF Counted
  <2>8. Ahead'
    <3>1. ASSUME NEW s \in Subjects, NEW v \in Times, v > x PROVE passed[s][v] = 0
      <4>1. v > w
        BY <2>4, <2>6, <3>1 DEF Times
      <4> QED BY <1>1, <2>6, <4>1 DEF Ahead
    <3> QED BY <2>1, <2>6, <3>1 DEF Ahead, Times
  <2>9. WindowBound'
    BY <1>1, <2>1 DEF WindowBound, Times
  <2> QED BY <2>2, <2>7, <2>8, <2>9 DEF RateInv
<1>5. CASE UNCHANGED rlVars
  BY <1>1, <1>5 DEF RateInv, RateTyped, Counted, Ahead, WindowBound, WindowStart, ClockWindow,
                    Times, rlVars
<1> QED BY <1>3, <1>4, <1>5, RequestKeeps DEF RateNext

LEMMA RateAlways ==
  RateSpec => []RateInv
<1>1. RateInit => RateInv
  <2> SUFFICES ASSUME RateInit PROVE RateInv
    OBVIOUS
  <2>1. RateTyped
    BY RateConstants DEF RateInit, RateTyped, Times
  <2>2. WindowStart \in Times /\ ClockWindow \in Times
    BY <2>1, WindowsAre
  <2>3. Counted /\ Ahead
    BY <2>2 DEF RateInit, Counted, Ahead
  <2>4. WindowBound
    BY RateConstants DEF RateInit, WindowBound
  <2> QED BY <2>1, <2>3, <2>4 DEF RateInv
<1> QED BY <1>1, RateStepKeeps, PTL DEF RateSpec

(* Whatever requests come and whenever rows are pruned, a subject gets at  *)
(* most Maximum requests through in a window of the clock                  *)
(* (consume_rate_limit).                                                   *)
THEOREM WindowBoundHolds ==
  RateSpec => []WindowBound
<1>1. RateInv => WindowBound
  BY DEF RateInv
<1> QED BY <1>1, RateAlways, PTL

\* The counter of the running window has at most what its seconds admit.
SoFar == \A s \in Subjects : counts[s][WindowStart] <= (rlNow - WindowStart) * MaxPerSecond + asked[s]

RowsBounded ==
  \A s \in Subjects, t \in Times :
    /\ counts[s][t] <= Window * MaxPerSecond /\ passed[s][t] <= Window * MaxPerSecond
    /\ t > WindowStart => counts[s][t] = 0

RowsInv == asked \in [Subjects -> 0..MaxPerSecond] /\ SoFar /\ RowsBounded

LEMMA SecondOf ==
  ASSUME NEW n \in Nat, NEW w \in Nat, w > 0
  PROVE  /\ n - (n % w) \in Nat /\ n - (n % w) <= n /\ (n - (n - (n % w))) + 1 <= w
         /\ \/ (n + 1) - ((n + 1) % w) = n - (n % w)
            \/ (n + 1) - ((n + 1) % w) = n + 1
<1>1. PICK q \in Nat, r \in Nat : q = n \div w /\ r = n % w /\ n = w * q + r /\ r < w
  BY Euclid
<1>2. PICK p \in Nat, t \in Nat :
         p = (n + 1) \div w /\ t = (n + 1) % w /\ n + 1 = w * p + t /\ t < w
  BY Euclid
<1>3. w * q \in Nat /\ w * p \in Nat
  OBVIOUS
<1>4. n - r = w * q /\ (n - (n - r)) + 1 <= w
  BY <1>1, <1>3
<1>5. p >= q
  BY <1>1, <1>2, NextWindow
<1>6. CASE p = q
  BY <1>1, <1>2, <1>3, <1>4, <1>6
<1>7. CASE p # q
  <2>1. PICK k \in Nat : p = q + 1 + k
    BY <1>5, <1>7
  <2>2. w * p = w * q + w + w * k /\ w * k \in Nat
    BY <2>1
  <2>3. t = 0
    BY <1>1, <1>2, <1>3, <2>2
  <2> QED BY <1>1, <1>2, <1>3, <1>4, <2>3
<1> QED BY <1>6, <1>7

LEMMA Products ==
  ASSUME NEW r \in Nat, NEW w \in Nat, NEW m \in Nat, r + 1 <= w
  PROVE  r * m \in Nat /\ w * m \in Nat /\ (r + 1) * m = r * m + m /\ r * m + m <= w * m
<1>1. PICK k \in Nat : w = r + 1 + k
  OBVIOUS
<1>2. w * m = r * m + m + k * m /\ k * m \in Nat /\ r * m \in Nat
  BY <1>1
<1> QED BY <1>2

LEMMA RowsStepKeeps ==
  ASSUME RateInv, RowsInv, [RateNext]_rlVars
  PROVE  RowsInv'
<1>1. RateTyped /\ Counted
  BY DEF RateInv
<1>2. MaxPerSecond \in Nat /\ Window \in Nat /\ Window > 0 /\ MaxTime \in Nat
  BY RateAssumption
<1>3. PICK n \in Nat : n = rlNow
  BY <1>1, <1>2 DEF RateTyped, Times
<1>4. PICK a \in Nat : a = WindowStart /\ a \in Times /\ a = n - (n % Window)
  BY <1>1, <1>2, <1>3, WindowsAre DEF WindowStart, Times
<1>5. PICK r \in Nat : r = n - a /\ r + 1 <= Window
  BY <1>2, <1>3, <1>4, SecondOf
<1>6. PICK full \in Nat, done \in Nat :
        /\ full = Window * MaxPerSecond /\ done = r * MaxPerSecond
        /\ done + MaxPerSecond <= full /\ (r + 1) * MaxPerSecond = done + MaxPerSecond
  BY <1>2, <1>5, Products
<1>7. /\ \A s \in Subjects : asked[s] \in 0..MaxPerSecond /\ counts[s][a] <= done + asked[s]
      /\ \A s \in Subjects, t \in Times :
           /\ counts[s][t] \in Nat /\ passed[s][t] \in Nat
           /\ counts[s][t] <= full /\ passed[s][t] <= full /\ (t > a => counts[s][t] = 0)
  BY <1>1, <1>3, <1>4, <1>5, <1>6 DEF RowsInv, SoFar, RowsBounded, RateTyped
<1>8. CASE Prune \/ UNCHANGED rlVars
  <2>1. rlNow' = rlNow /\ asked' = asked /\ passed' = passed /\ WindowStart' = WindowStart
    BY <1>8 DEF Prune, rlVars, WindowStart
  <2>2. \A s \in Subjects, t \in Times : counts'[s][t] \in {0, counts[s][t]}
    BY <1>8 DEF Prune, rlVars
  <2>3. SoFar'
    <3> SUFFICES ASSUME NEW s \in Subjects PROVE counts'[s][a] <= done + asked[s]
      BY <1>3, <1>4, <1>5, <1>6, <2>1 DEF SoFar
    <3> QED BY <1>2, <1>4, <1>7, <2>2
  <2>4. RowsBounded'
    <3> SUFFICES ASSUME NEW s \in Subjects, NEW t \in Times
                 PROVE  counts'[s][t] <= full /\ passed[s][t] <= full /\ (t > a => counts'[s][t] = 0)
      BY <1>4, <1>6, <2>1 DEF RowsBounded, Times
    <3> QED BY <1>7, <2>2
  <2> QED BY <2>1, <2>3, <2>4 DEF RowsInv
<1>9. CASE Second
  <2>1. /\ rlNow' = n + 1 /\ asked' = [s \in Subjects |-> 0] /\ counts' = counts /\ passed' = passed
        /\ n + 1 \in Times
    BY <1>1, <1>2, <1>3, <1>9 DEF Second, RateTyped, Times
  <2>2. PICK b \in Nat : b = WindowStart' /\ (b = a \/ b = n + 1) /\ b \in Times /\ b >= a
    <3>1. WindowStart' = (n + 1) - ((n + 1) % Window)
      BY <2>1 DEF WindowStart
    <3>2. WindowStart' = a \/ WindowStart' = n + 1
      BY <1>2, <1>4, <3>1, SecondOf
    <3> QED BY <1>2, <1>4, <1>5, <2>1, <3>2
  <2>3. SoFar'
    <3> SUFFICES ASSUME NEW s \in Subjects PROVE counts[s][b] <= ((n + 1) - b) * MaxPerSecond + 0
      BY <2>1, <2>2 DEF SoFar
    <3>1. CASE b = a
      <4>1. (n + 1) - b = r + 1 /\ counts[s][a] <= done + asked[s] /\ asked[s] <= MaxPerSecond
            /\ asked[s] \in Nat /\ counts[s][a] \in Nat
        BY <1>2, <1>4, <1>5, <1>7, <3>1
      <4> QED BY <1>2, <1>6, <3>1, <4>1
    <3>2. CASE b # a
      <4>0. b = n + 1
        BY <2>2, <3>2, Zenon
      <4>3. b > a
        <5>1. b >= a /\ b # a
          BY <2>2, <3>2, Zenon
        <5> QED BY <5>1
      <4>4. (n + 1) - b = 0
        BY <4>0
      <4>1. b = n + 1 /\ b > a /\ (n + 1) - b = 0
        BY <4>0, <4>3, <4>4
      <4>2. counts[s][b] = 0
        BY <1>7, <2>2, <4>1
      <4> QED BY <1>2, <4>1, <4>2
    <3> QED BY <3>1, <3>2
  <2>4. RowsBounded'
    <3> SUFFICES ASSUME NEW s \in Subjects, NEW t \in Times
                 PROVE  counts[s][t] <= full /\ passed[s][t] <= full /\ (t > b => counts[s][t] = 0)
      BY <1>6, <2>1, <2>2 DEF RowsBounded, Times
    <3>1. t > b => t > a
      BY <1>2, <2>2 DEF Times
    <3> QED BY <1>7, <3>1
  <2>5. (asked \in [Subjects -> 0..MaxPerSecond])'
    BY <1>2, <2>1
  <2> QED BY <2>3, <2>4, <2>5 DEF RowsInv
<1>10. ASSUME NEW u \in Subjects, Request(u) PROVE RowsInv'
  <2>1. PICK w \in Times : w = ClockWindow
    BY <1>1, WindowsAre
  <2>2. PICK c \in Nat : c = counts[u][a] + 1
    BY <1>4, <1>7
  <2>3. /\ rlNow' = rlNow /\ asked[u] < MaxPerSecond /\ asked' = [asked EXCEPT ![u] = @ + 1]
        /\ counts' = [counts EXCEPT ![u][a] = c]
        /\ passed' = IF c <= Maximum THEN [passed EXCEPT ![u][w] = @ + 1] ELSE passed
    BY <1>4, <1>10, <2>1, <2>2 DEF Request, Within
  <2>4. WindowStart' = a
    BY <1>4, <2>3 DEF WindowStart
  <2>5. /\ asked' \in [Subjects -> 0..MaxPerSecond] /\ asked'[u] = asked[u] + 1
        /\ \A s \in Subjects \ {u} : asked'[s] = asked[s]
    <3>1. asked \in [Subjects -> 0..MaxPerSecond]
      BY DEF RowsInv
    <3> QED BY <1>2, <2>3, <3>1
  <2>6. \A s \in Subjects, t \in Times : counts'[s][t] = IF s = u /\ t = a THEN c ELSE counts[s][t]
    BY <1>1, <1>4, <2>3 DEF RateTyped
  <2>7. c <= done + (asked[u] + 1) /\ c <= full
    BY <1>2, <1>4, <1>6, <1>7, <2>2, <2>3
  <2>8. passed[u][w] + 1 <= c
    BY <1>1, <1>4, <1>7, <2>1, <2>2 DEF Counted
  <2>9. \A s \in Subjects, t \in Times :
          passed'[s][t] = passed[s][t] \/ (s = u /\ t = w /\ passed'[s][t] = passed[s][t] + 1)
    <3>1. CASE c <= Maximum
      BY <1>1, <2>1, <2>3, <3>1 DEF RateTyped
    <3>2. CASE ~(c <= Maximum)
      BY <2>3, <3>2
    <3> QED BY <3>1, <3>2
  <2>10. SoFar'
    <3> SUFFICES ASSUME NEW s \in Subjects PROVE counts'[s][a] <= done + asked'[s]
      BY <1>3, <1>5, <1>6, <2>3, <2>4 DEF SoFar
    <3> QED BY <1>4, <1>7, <2>5, <2>6, <2>7
  <2>11. RowsBounded'
    <3> SUFFICES ASSUME NEW s \in Subjects, NEW t \in Times
                 PROVE  counts'[s][t] <= full /\ passed'[s][t] <= full /\ (t > a => counts'[s][t] = 0)
      BY <1>6, <2>4 DEF RowsBounded, Times
    <3>1. counts'[s][t] <= full /\ (t > a => counts'[s][t] = 0)
      BY <1>7, <2>6, <2>7
    <3>2. passed'[s][t] <= full
      <4>1. passed[s][t] \in Nat /\ passed[s][t] <= full
        BY <1>7
      <4> QED BY <2>7, <2>8, <2>9, <4>1
    <3> QED BY <3>1, <3>2
  <2> QED BY <2>5, <2>10, <2>11 DEF RowsInv
<1> QED BY <1>8, <1>9, <1>10 DEF RateNext

(* A counter row of registry_rate_limits never holds more than the seconds *)
(* of one window admit: no request is counted into a window it does not    *)
(* belong to, however rows are pruned (consume_rate_limit).                *)
THEOREM RateTypes ==
  RateSpec => []RateTypeOK
<1>1. RateInit => RowsInv
  <2> SUFFICES ASSUME RateInit PROVE RowsInv
    OBVIOUS
  <2>1. MaxPerSecond \in Nat /\ Window \in Nat /\ Window * MaxPerSecond \in Nat
    BY RateAssumption
  <2>2. rlNow = 0 /\ WindowStart = 0
    BY RateConstants, SecondOf DEF RateInit, WindowStart
  <2>3. 0 \in Times
    BY RateConstants DEF Times
  <2>4. (rlNow - WindowStart) * MaxPerSecond = 0
    BY <2>1, <2>2
  <2> QED BY <2>1, <2>2, <2>3, <2>4 DEF RateInit, RowsInv, SoFar, RowsBounded
<1>2. RateInv /\ RowsInv => RateTypeOK
  <2> SUFFICES ASSUME RateInv, RowsInv PROVE RateTypeOK
    OBVIOUS
  <2>1. PICK full \in Nat : full = Window * MaxPerSecond
    BY RateAssumption
  <2>2. \A s \in Subjects, t \in Times : counts[s][t] \in 0..full /\ passed[s][t] \in 0..full
    BY <2>1 DEF RateInv, RateTyped, RowsInv, RowsBounded
  <2>3. counts \in [Subjects -> [Times -> 0..full]] /\ passed \in [Subjects -> [Times -> 0..full]]
    BY <2>2 DEF RateInv, RateTyped
  <2> QED BY <2>1, <2>3 DEF RateInv, RateTyped, RowsInv, RateTypeOK
<1> QED BY <1>1, <1>2, RowsStepKeeps, RateAlways, PTL DEF RateSpec

-----------------------------------------------------------------------------
(***************************************************************************)
(* Billing.                                                                *)
(***************************************************************************)
BillRows == [id : BillingEvents, payload : Payloads, signed : 0..MaxBillingTime,
             verified : 0..MaxBillingTime, received : 0..MaxBillingTime]

\* What is pending was verified, and the provider signs one body for an event.
BillInv ==
  /\ billNow \in 0..MaxBillingTime /\ attempts \subseteq Attempts /\ answered \subseteq attempts
  /\ rows \subseteq BillRows
  /\ \A p \in pending : /\ p.attempt \in attempts /\ p.attempt.genuine = TRUE /\ p.at \in 0..billNow
                         /\ Distance(p.at, p.attempt.t) <= Tolerance
  /\ \A a, b \in attempts : a.genuine = TRUE /\ b.genuine = TRUE /\ a.id = b.id => a.payload = b.payload
  /\ RecordedAuthentic /\ AnsweredRecorded
  /\ \A r, q \in rows : r.id = q.id => r = q

\* A row of the table is one of its event's bodies.
LEMMA RowSigned ==
  ASSUME BillInv, NEW r \in rows, NEW a \in attempts, a.genuine = TRUE, r.id = a.id
  PROVE  r.payload = a.payload
<1>1. PICK b \in attempts : b = [id |-> r.id, payload |-> r.payload, t |-> r.signed, genuine |-> TRUE]
  BY DEF BillInv, RecordedAuthentic
<1>2. b.genuine = TRUE /\ b.id = r.id /\ b.payload = r.payload
  BY <1>1
<1> QED BY <1>2 DEF BillInv

\* An INSERT, whether it is answered or not.
LEMMA RecordKeeps ==
  ASSUME BillInv, NEW p \in pending, pending' = pending \ {p},
         UNCHANGED <<billNow, attempts>>,
         \/ rows' = Recorded(p) /\ answered' = answered \cup {p.attempt}
         \/ rows' \in {rows, Recorded(p)} /\ answered' = answered
  PROVE  BillInv' /\ rows \subseteq rows'
<1>1. PICK b \in attempts : b = p.attempt /\ b \in Attempts
  BY DEF BillInv
<1>2. /\ b.id \in BillingEvents /\ b.payload \in Payloads /\ b.t \in 0..MaxBillingTime
      /\ b = [id |-> b.id, payload |-> b.payload, t |-> b.t, genuine |-> b.genuine]
  BY <1>1 DEF Attempts
<1>3. b.genuine = TRUE /\ Distance(p.at, b.t) <= Tolerance /\ p.at \in 0..billNow
  BY <1>1 DEF BillInv
<1>4. p.at \in 0..MaxBillingTime /\ billNow \in 0..MaxBillingTime /\ p.at <= billNow
  BY <1>3, BillingAssumption DEF BillInv
<1>5. PICK r : r = Row(p)
  OBVIOUS
<1>6. /\ r \in BillRows /\ r.id = b.id /\ r.payload = b.payload /\ r.signed = b.t
      /\ r.verified = p.at /\ r.received = billNow
  BY <1>1, <1>2, <1>4, <1>5 DEF BillRows, Row
<1>7. \/ rows' = rows
      \/ (\A q \in rows : q.id # b.id) /\ rows' = rows \cup {r}
  BY <1>1, <1>5 DEF Recorded
<1>8. [id |-> r.id, payload |-> r.payload, t |-> r.signed, genuine |-> TRUE] \in attempts
      /\ Distance(r.verified, r.signed) <= Tolerance /\ r.verified <= r.received
  BY <1>2, <1>3, <1>4, <1>6
<1>9. RecordedAuthentic'
  BY <1>7, <1>8 DEF BillInv, RecordedAuthentic
<1>10. rows' \subseteq BillRows /\ rows \subseteq rows'
  BY <1>6, <1>7 DEF BillInv
<1>11. \A x, q \in rows' : x.id = q.id => x = q
  BY <1>6, <1>7 DEF BillInv
<1>12. (billNow \in 0..MaxBillingTime)' /\ (attempts \subseteq Attempts)'
  BY DEF BillInv, Attempts
<1>13. (rows \subseteq BillRows)'
  BY <1>10 DEF BillRows
<1>14. AnsweredRecorded'
  <2>1. ASSUME NEW a \in answered
        PROVE  \E x \in rows' : x.id = a.id /\ x.payload = a.payload
    BY <1>10 DEF BillInv, AnsweredRecorded
  <2>2. CASE answered' = answered
    BY <2>1, <2>2 DEF AnsweredRecorded
  <2>3. CASE rows' = Recorded(p) /\ answered' = answered \cup {b}
    <3>1. CASE \E x \in rows : x.id = b.id
      <4>1. PICK x \in rows : x.id = b.id
        BY <3>1
      <4>2. x \in rows' /\ x.payload = b.payload
        BY <1>1, <1>3, <1>10, <4>1, RowSigned
      <4> QED BY <2>1, <2>3, <4>1, <4>2 DEF AnsweredRecorded
    <3>2. CASE ~ \E x \in rows : x.id = b.id
      <4>1. r \in rows'
        BY <1>1, <1>5, <2>3, <3>2 DEF Recorded
      <4> QED BY <1>6, <2>1, <2>3, <4>1 DEF AnsweredRecorded
    <3> QED BY <3>1, <3>2
  <2> QED BY <1>1, <2>2, <2>3
<1>15. answered' \subseteq attempts' /\ \A q \in pending' : q \in pending
  BY <1>1 DEF BillInv
<1>16. \A q \in pending' : /\ q.attempt \in attempts' /\ q.attempt.genuine = TRUE
                           /\ q.at \in 0..billNow' /\ Distance(q.at, q.attempt.t) <= Tolerance
  BY <1>15 DEF BillInv
<1>17. \A x, y \in attempts' : x.genuine = TRUE /\ y.genuine = TRUE /\ x.id = y.id
                                => x.payload = y.payload
  BY DEF BillInv
<1> QED BY <1>9, <1>10, <1>11, <1>12, <1>13, <1>14, <1>15, <1>16, <1>17 DEF BillInv, Distance

\* A verification.
LEMMA ReceiveKeeps ==
  ASSUME BillInv, NEW a \in attempts, ReceiveWebhook(a)
  PROVE  BillInv' /\ rows \subseteq rows'
<1>1. PICK p : p = [attempt |-> a, at |-> billNow]
  OBVIOUS
<1>2. /\ pending' = pending \cup {p} /\ p.attempt = a /\ p.at = billNow
      /\ UNCHANGED <<billNow, attempts, rows, answered>>
  BY <1>1 DEF ReceiveWebhook
<1>3. a.genuine = TRUE /\ Distance(billNow, a.t) <= Tolerance /\ billNow \in 0..billNow
  BY BillingAssumption DEF ReceiveWebhook, VerifiesWebhook, BillInv, Attempts
<1>4. \A q \in pending' : /\ q.attempt \in attempts' /\ q.attempt.genuine = TRUE
                          /\ q.at \in 0..billNow' /\ Distance(q.at, q.attempt.t) <= Tolerance
  BY <1>2, <1>3 DEF BillInv
<1>5. (RecordedAuthentic /\ AnsweredRecorded)'
  BY <1>2 DEF BillInv, RecordedAuthentic, AnsweredRecorded
<1> QED BY <1>2, <1>4, <1>5 DEF BillInv, Attempts, BillRows, Distance

LEMMA BillStepKeeps ==
  ASSUME BillInv, [BillingNext]_billVars
  PROVE  BillInv' /\ rows \subseteq rows'
<1>1. ASSUME NEW a \in Attempts, attempts' = attempts \cup {a},
             \A b \in attempts : b.genuine = TRUE /\ a.genuine = TRUE /\ b.id = a.id
                               => b.payload = a.payload,
             UNCHANGED <<billNow, pending, rows, answered>>
      PROVE  BillInv' /\ rows \subseteq rows'
  <2>1. attempts' \subseteq Attempts /\ attempts \subseteq attempts'
    BY <1>1 DEF BillInv
  <2>2. RecordedAuthentic' /\ AnsweredRecorded'
    BY <1>1, <2>1 DEF BillInv, RecordedAuthentic, AnsweredRecorded
  <2>3. (attempts \subseteq Attempts)' /\ (rows \subseteq BillRows)' /\ (billNow \in 0..MaxBillingTime)'
    BY <1>1, <2>1 DEF BillInv, Attempts, BillRows
  <2>4. \A x, y \in attempts' : x.genuine = TRUE /\ y.genuine = TRUE /\ x.id = y.id
                                => x.payload = y.payload
    BY <1>1 DEF BillInv
  <2>5. \A q \in pending' : /\ q.attempt \in attempts' /\ q.attempt.genuine = TRUE
                            /\ q.at \in 0..billNow' /\ Distance(q.at, q.attempt.t) <= Tolerance
    BY <1>1, <2>1 DEF BillInv
  <2> QED BY <1>1, <2>1, <2>2, <2>3, <2>4, <2>5 DEF BillInv, Distance
<1>2. ASSUME NEW e \in BillingEvents, NEW p \in Payloads, SendAttempt(e, p)
      PROVE  BillInv' /\ rows \subseteq rows'
  <2>1. PICK a : a = [id |-> e, payload |-> p, t |-> billNow, genuine |-> TRUE]
    OBVIOUS
  <2>2. a \in Attempts /\ a.id = e /\ a.payload = p
    BY <2>1 DEF BillInv, Attempts
  <2>3. /\ attempts' = attempts \cup {a} /\ UNCHANGED <<billNow, pending, rows, answered>>
        /\ \A b \in attempts : b.genuine = TRUE /\ b.id = e => b.payload = p
    BY <1>2, <2>1 DEF SendAttempt
  <2> QED BY <1>1, <2>2, <2>3
<1>3. ASSUME NEW e \in BillingEvents, NEW p \in Payloads, NEW t \in 0..MaxBillingTime,
             PostUnsigned(e, p, t)
      PROVE  BillInv' /\ rows \subseteq rows'
  <2>1. PICK a : a = [id |-> e, payload |-> p, t |-> t, genuine |-> FALSE]
    OBVIOUS
  <2>2. a \in Attempts /\ a.genuine = FALSE
    BY <2>1 DEF Attempts
  <2>3. attempts' = attempts \cup {a} /\ UNCHANGED <<billNow, pending, rows, answered>>
    BY <1>3, <2>1 DEF PostUnsigned
  <2> QED BY <1>1, <2>2, <2>3
<1>4. CASE BillingTick \/ UNCHANGED billVars
  <2>1. /\ UNCHANGED <<attempts, pending, rows, answered>> /\ billNow' \in 0..MaxBillingTime
        /\ billNow <= billNow'
    BY <1>4, BillingAssumption DEF BillInv, BillingTick, billVars
  <2>2. RecordedAuthentic' /\ AnsweredRecorded'
    BY <2>1 DEF BillInv, RecordedAuthentic, AnsweredRecorded
  <2>3. \A q \in pending : q.at \in 0..billNow'
    BY <2>1, BillingAssumption DEF BillInv
  <2> QED BY <2>1, <2>2, <2>3 DEF BillInv, Attempts, BillRows, Distance
<1>5. ASSUME NEW p \in pending, RecordEvent(p) \/ RecordFails(p)
      PROVE  BillInv' /\ rows \subseteq rows'
  BY <1>5, RecordKeeps DEF RecordEvent, RecordFails
<1> QED BY <1>2, <1>3, <1>4, <1>5, ReceiveKeeps DEF BillingNext

LEMMA BillAlways ==
  BillingSpec => []BillInv
<1>1. BillingInit => BillInv
  BY BillingAssumption DEF BillingInit, BillInv, RecordedAuthentic, AnsweredRecorded
<1>2. BillInv /\ [BillingNext]_billVars => BillInv'
  BY BillStepKeeps
<1> QED BY <1>1, <1>2, PTL DEF BillingSpec

(* Rows of billing_events hold an event and a body some attempt carried,   *)
(* and only attempts on the network are answered (billing_webhook).        *)
THEOREM BillingTypes ==
  BillingSpec => []BillingTypeOK
<1>1. BillInv => BillingTypeOK
  BY DEF BillInv, BillingTypeOK, BillRows
<1> QED BY <1>1, BillAlways, PTL

(* However often the provider and the network repeat a delivery and        *)
(* whoever else posts, record_billing_event keeps one row per event, never *)
(* changes it, only ever records what the provider signed in time, and has *)
(* recorded whatever billing_webhook answered 204 to.                      *)
THEOREM RecordedOnceHolds ==
  BillingSpec => RecordedOnce
<1>1. BillInv /\ [BillingNext]_billVars
        => [/\ rows \subseteq rows' /\ RecordedAuthentic' /\ AnsweredRecorded'
            /\ \A r, q \in rows' : r.id = q.id => r = q]_billVars
  <2> SUFFICES ASSUME BillInv, [BillingNext]_billVars
               PROVE  /\ rows \subseteq rows' /\ RecordedAuthentic' /\ AnsweredRecorded'
                      /\ \A r, q \in rows' : r.id = q.id => r = q
    OBVIOUS
  <2>1. BillInv' /\ rows \subseteq rows'
    BY BillStepKeeps
  <2> QED BY <2>1 DEF BillInv
<1> QED BY <1>1, BillAlways, PTL DEF BillingSpec, RecordedOnce

-----------------------------------------------------------------------------
(***************************************************************************)
(* Checkpoints.                                                            *)
(***************************************************************************)
KeyTyped ==
  /\ keyFile \in Servers \cup {NoKey}
  /\ server \in [Servers -> [pc : {"start", "link", "serve"}, key : Servers \cup {NoKey}]]
  /\ log \in Seq(EventHashes) /\ Len(log) <= MaxLog

\* Whoever serves has found a key in the file.
KeyInv ==
  /\ KeyTyped /\ OneSigningKey
  /\ \A p \in Servers : server[p].pc = "serve" => keyFile # NoKey

LEMMA KeyStepKeeps ==
  KeyInv /\ [CheckpointNext]_cpVars => KeyInv'
<1> SUFFICES ASSUME KeyInv, [CheckpointNext]_cpVars PROVE KeyInv'
  OBVIOUS
<1> USE DEF KeyInv
<1>1. ASSUME NEW p \in Servers, FindKey(p) PROVE KeyInv'
  <2>1. UNCHANGED <<keyFile, log, seen>>
    BY <1>1 DEF FindKey
  <2>2. PICK c \in [pc : {"start", "link", "serve"}, key : Servers \cup {NoKey}] :
          /\ server' = [server EXCEPT ![p] = c]
          /\ c.pc = "serve" => c.key = keyFile /\ keyFile # NoKey
    <3>1. CASE keyFile = NoKey
      <4>1. PICK c : c = [pc |-> "link", key |-> p]
        OBVIOUS
      <4>2. /\ c \in [pc : {"start", "link", "serve"}, key : Servers \cup {NoKey}]
            /\ c.pc # "serve" /\ server' = [server EXCEPT ![p] = c]
        BY <1>1, <3>1, <4>1 DEF FindKey
      <4> QED BY <4>2
    <3>2. CASE keyFile # NoKey
      <4>1. PICK c : c = [pc |-> "serve", key |-> keyFile]
        OBVIOUS
      <4>2. c \in [pc : {"start", "link", "serve"}, key : Servers \cup {NoKey}] /\ c.key = keyFile
        BY <4>1 DEF KeyTyped
      <4>3. server' = [server EXCEPT ![p] = c]
        BY <1>1, <3>2, <4>1 DEF FindKey
      <4> QED BY <3>2, <4>2, <4>3
    <3> QED BY <3>1, <3>2
  <2>3. KeyTyped'
    BY <2>1, <2>2 DEF KeyTyped
  <2>4. OneSigningKey'
    BY <2>1, <2>2 DEF OneSigningKey, KeyTyped
  <2> QED BY <2>1, <2>2, <2>3, <2>4 DEF KeyTyped
<1>2. ASSUME NEW p \in Servers, LinkKey(p) PROVE KeyInv'
  <2>1. UNCHANGED <<log, seen>>
    BY <1>2 DEF LinkKey
  <2>2. PICK k \in Servers : keyFile' = k /\ (k = keyFile \/ keyFile = NoKey)
    BY <1>2 DEF LinkKey, KeyTyped
  <2>3. server' = [server EXCEPT ![p] = [pc |-> "serve", key |-> k]]
    BY <1>2, <2>2 DEF LinkKey
  <2>4. KeyTyped'
    BY <2>1, <2>2, <2>3 DEF KeyTyped
  <2>5. \A q \in Servers : server'[q].pc = "serve" => server'[q].key = k
    BY <2>2, <2>3 DEF OneSigningKey, KeyTyped
  <2>6. OneSigningKey'
    BY <2>1, <2>2, <2>5 DEF OneSigningKey
  <2> QED BY <2>2, <2>4, <2>6, CheckpointAssumption
<1>3. ASSUME NEW p \in Servers, NEW e \in EventHashes, AppendHash(p, e) PROVE KeyInv'
  <2>1. log' \in Seq(EventHashes) /\ Len(log') <= MaxLog
    BY <1>3, CheckpointAssumption DEF AppendHash, KeyTyped
  <2> QED BY <1>3, <2>1 DEF AppendHash, KeyTyped, OneSigningKey
<1>4. ASSUME NEW p \in Servers, WitnessCheckpoint(p) PROVE KeyInv'
  <2>1. UNCHANGED <<keyFile, server, log>> /\ server[p].pc = "serve"
    BY <1>4 DEF WitnessCheckpoint
  <2>2. seen'.key = server[p].key
    BY <1>4 DEF WitnessCheckpoint, Checkpoint
  <2>3. OneSigningKey'
    BY <2>1, <2>2 DEF OneSigningKey
  <2> QED BY <2>1, <2>3 DEF KeyTyped
<1>5. CASE UNCHANGED cpVars
  BY <1>5 DEF cpVars, KeyTyped, OneSigningKey
<1> QED BY <1>1, <1>2, <1>3, <1>4, <1>5 DEF CheckpointNext

LEMMA KeyAlways ==
  CheckpointSpec => []KeyInv
<1>1. CheckpointInit => KeyInv
  BY CheckpointAssumption DEF CheckpointInit, KeyInv, KeyTyped, OneSigningKey
<1> QED BY <1>1, KeyStepKeeps, PTL DEF CheckpointSpec

(* Every key a process holds is a server's or none, and the log is a       *)
(* sequence of event hashes within its bound.                              *)
THEOREM CheckpointTypes ==
  CheckpointSpec => []CheckpointTypeOK
<1>1. KeyInv => CheckpointTypeOK
  BY DEF KeyInv, KeyTyped, CheckpointTypeOK
<1> QED BY <1>1, KeyAlways, PTL

(* However many processes create the signing key on one data directory at  *)
(* once, all of them serve with the key in the file, and every checkpoint  *)
(* a witness ever saw verifies under it (registry_signing_key).            *)
THEOREM OneSigningKeyHolds ==
  CheckpointSpec => []OneSigningKey
<1>1. KeyInv => OneSigningKey
  BY DEF KeyInv
<1> QED BY <1>1, KeyAlways, PTL

-----------------------------------------------------------------------------
(***************************************************************************)
(* Induction, stated about sets of natural numbers.                        *)
(***************************************************************************)
LEMMA LeastNumber ==
  ASSUME NEW T \in SUBSET Nat, T # {}
  PROVE  \E n \in T : \A m \in T : n <= m
  <1>1. IsWellFoundedOn(OpToRel(<, Nat), Nat)
    BY NatLessThanWellFounded
  <1>2. PICK n \in T : \A m \in T : ~ (<<m, n>> \in OpToRel(<, Nat))
    BY <1>1, WFMin, Zenon
  <1>3. \A m \in T : ~ (m < n)
    BY <1>2 DEF OpToRel
  <1> QED
    BY <1>3

LEMMA Induction ==
  ASSUME NEW T \in SUBSET Nat, 0 \in T, \A n \in T : n + 1 \in T
  PROVE  T = Nat
  <1> SUFFICES ASSUME Nat \ T # {} PROVE FALSE
    OBVIOUS
  <1>1. PICK n \in Nat \ T : \A m \in Nat \ T : n <= m
    BY LeastNumber
  <1>2. n # 0 /\ n - 1 \in Nat
    BY <1>1
  <1>3. n - 1 \in T
    BY <1>1, <1>2
  <1> QED
    BY <1>1, <1>2, <1>3

\* A number is in T if all the numbers below it being in T puts it there.
LEMMA StrongInduction ==
  ASSUME NEW T \in SUBSET Nat,
         \A n \in Nat : (\A m \in Nat : m < n => m \in T) => n \in T
  PROVE  T = Nat
  <1> SUFFICES ASSUME Nat \ T # {} PROVE FALSE
    OBVIOUS
  <1>1. PICK n \in Nat \ T : \A m \in Nat \ T : n <= m
    BY LeastNumber
  <1>2. \A m \in Nat : m < n => m \in T
    BY <1>1
  <1> QED
    BY <1>1, <1>2

-----------------------------------------------------------------------------
(***************************************************************************)
(* Powers of two.                                                          *)
(***************************************************************************)
LEMMA Halves ==
  ASSUME NEW n \in Nat
  PROVE  n \div 2 \in Nat /\ 2 * (n \div 2) <= n /\ n < 2 * (n \div 2) + 2
         /\ (n >= 2 => n \div 2 < n /\ n \div 2 >= 1)
  OBVIOUS

\* PowerBelow's definition defines it.
LEMMA PowerBelowIs ==
  PowerBelow = [n \in Nat |-> IF n < 2 THEN 1 ELSE 2 * PowerBelow[n \div 2]]
  <1> DEFINE Is(g, n) == g = [x \in 0..n |-> IF x < 2 THEN 1 ELSE 2 * g[x \div 2]]
             T == {n \in Nat : \E g : Is(g, n)}
  <1>1. 0 \in T
    <2>1. PICK g : g = [x \in 0..0 |-> 1]
      OBVIOUS
    <2>2. Is(g, 0)
      BY <2>1
    <2> QED BY <2>2
  <1>2. ASSUME NEW n \in T PROVE n + 1 \in T
    <2>1. PICK g : Is(g, n)
      OBVIOUS
    <2>2. PICK h : h = [x \in 0..n + 1 |->
                          IF x = n + 1 THEN IF x < 2 THEN 1 ELSE 2 * g[x \div 2] ELSE g[x]]
      OBVIOUS
    <2>3. \A x \in 0..n + 1 : x >= 2 => x \div 2 \in 0..n
      BY Halves
    <2>4. \A x \in 0..n + 1 : h[x] = IF x < 2 THEN 1 ELSE 2 * h[x \div 2]
      <3> SUFFICES ASSUME NEW x \in 0..n + 1
                   PROVE  h[x] = IF x < 2 THEN 1 ELSE 2 * h[x \div 2]
        OBVIOUS
      <3>1. CASE x < 2
        BY <2>1, <2>2, <3>1
      <3>2. CASE x >= 2
        <4>1. x \div 2 \in 0..n /\ x \div 2 # n + 1 /\ x \div 2 \in 0..n + 1
          BY <2>3, <3>2
        <4>2. h[x \div 2] = g[x \div 2]
          BY <2>2, <4>1
        <4>3. h[x] = 2 * g[x \div 2]
          BY <2>1, <2>2, <3>2
        <4> QED BY <3>2, <4>2, <4>3
      <3> QED BY <3>1, <3>2
    <2>5. Is(h, n + 1)
      BY <2>2, <2>4
    <2> QED BY <2>5
  <1>3. T = Nat
    <2> HIDE DEF T
    <2>1. T \in SUBSET Nat
      BY DEF T
    <2> QED BY <1>1, <1>2, <2>1, Induction
  <1>4. ASSUME NEW n \in Nat, NEW m \in Nat, NEW g, NEW h, Is(g, n), Is(h, m),
               NEW x \in Nat, x <= n, x <= m
        PROVE  g[x] = h[x]
    <2> DEFINE D == {y \in Nat : y <= n /\ y <= m /\ g[y] # h[y]}
    <2> SUFFICES ASSUME D # {} PROVE FALSE
      BY <1>4
    <2>1. PICK y \in D : \A z \in D : y <= z
      BY LeastNumber
    <2>2. y >= 2 => y \div 2 \in Nat /\ y \div 2 < y
      BY Halves
    <2>3. y >= 2 => g[y \div 2] = h[y \div 2]
      BY <2>1, <2>2
    <2>4. g[y] = IF y < 2 THEN 1 ELSE 2 * g[y \div 2]
      BY <1>4
    <2>5. h[y] = IF y < 2 THEN 1 ELSE 2 * h[y \div 2]
      BY <1>4
    <2> QED BY <2>3, <2>4, <2>5
  <1> DEFINE At(n) == CHOOSE g : Is(g, n)
  <1>5. \A n \in Nat : Is(At(n), n)
    BY <1>3
  <1>6. PICK f : f = [n \in Nat |-> At(n)[n]]
    OBVIOUS
  <1> HIDE DEF At
  <1>7. ASSUME NEW n \in Nat PROVE f[n] = IF n < 2 THEN 1 ELSE 2 * f[n \div 2]
    <2>1. f[n] = IF n < 2 THEN 1 ELSE 2 * At(n)[n \div 2]
      BY <1>5, <1>6
    <2>2. CASE n >= 2
      <3>1. n \div 2 \in Nat /\ n \div 2 <= n
        BY <2>2, Halves
      <3>2. PICK k \in Nat : k = n \div 2 /\ k <= n
        BY <3>1
      <3>3. Is(At(n), n) /\ Is(At(k), k)
        BY <1>5
      <3>4. At(n)[k] = At(k)[k]
        <4> HIDE DEF Is
        <4> QED BY <1>4, <3>2, <3>3
      <3>5. f[k] = At(k)[k]
        BY <1>6
      <3> QED BY <2>1, <3>2, <3>4, <3>5
    <2> QED BY <2>1, <2>2
  <1>8. f = [n \in Nat |-> IF n < 2 THEN 1 ELSE 2 * f[n \div 2]]
    BY <1>6, <1>7
  <1> QED
    BY <1>8, Zenon DEF PowerBelow

LEMMA PowerBelowOf ==
  ASSUME NEW n \in Nat
  PROVE  PowerBelow[n] = IF n < 2 THEN 1 ELSE 2 * PowerBelow[n \div 2]
  BY PowerBelowIs

\* It is the largest power of two that is at most n.
LEMMA PowerBelowFits ==
  ASSUME NEW n \in Nat, n > 0
  PROVE  /\ PowerBelow[n] \in Nat /\ PowerBelow[n] > 0
         /\ PowerBelow[n] <= n /\ n < 2 * PowerBelow[n]
  <1> DEFINE P(m) == m > 0 => /\ PowerBelow[m] \in Nat /\ PowerBelow[m] > 0
                              /\ PowerBelow[m] <= m /\ m < 2 * PowerBelow[m]
             T == {m \in Nat : P(m)}
  <1>1. ASSUME NEW m \in Nat, \A x \in Nat : x < m => x \in T PROVE m \in T
    <2>1. CASE m < 2
      BY <2>1, PowerBelowOf
    <2>2. CASE m >= 2
      <3>1. PICK h \in Nat : h = m \div 2 /\ 2 * h <= m /\ m < 2 * h + 2 /\ h < m /\ h >= 1
        BY <2>2, Halves
      <3>2. PICK b \in Nat : b = PowerBelow[h] /\ b > 0 /\ b <= h /\ h < 2 * b
        BY <1>1, <3>1
      <3>3. PowerBelow[m] = 2 * b
        BY <2>2, <3>1, <3>2, PowerBelowOf
      <3> QED BY <3>1, <3>2, <3>3
    <2> QED BY <2>1, <2>2
  <1>2. T = Nat
    <2> HIDE DEF T
    <2>1. T \in SUBSET Nat
      BY DEF T
    <2> QED BY <1>1, <2>1, StrongInduction
  <1> QED BY <1>2

Powers == {p \in Nat : IsPower(p)}

LEMMA Doubled ==
  ASSUME NEW n \in Nat, n > 0
  PROVE  PowerBelow[2 * n] = 2 * PowerBelow[n]
  <1>1. 2 * n \in Nat /\ ~(2 * n < 2) /\ (2 * n) \div 2 = n
    OBVIOUS
  <1> QED BY <1>1, PowerBelowOf

LEMMA PowerDoubled ==
  ASSUME NEW p \in Powers
  PROVE  p \in Nat /\ p > 0 /\ 2 * p \in Powers /\ PowerBelow[p] = p
  <1>1. p \in Nat /\ p > 0 /\ PowerBelow[p] = p
    BY DEF Powers, IsPower
  <1>2. PowerBelow[2 * p] = 2 * p
    BY <1>1, Doubled
  <1> QED BY <1>1, <1>2 DEF Powers, IsPower

LEMMA PowerHalved ==
  ASSUME NEW p \in Powers, p > 1
  PROVE  \E h \in Powers : p = 2 * h /\ h < p
  <1>1. p \in Nat /\ PowerBelow[p] = p
    BY PowerDoubled
  <1>2. PICK h \in Nat : h = p \div 2 /\ h < p /\ h >= 1
    BY <1>1, Halves
  <1>3. p = 2 * PowerBelow[h]
    BY <1>1, <1>2, PowerBelowOf
  <1>4. PowerBelow[h] \in Nat
    BY <1>2, PowerBelowFits
  <1>5. PowerBelow[h] = h
    <2>1. PICK b \in Nat : b = PowerBelow[h]
      BY <1>4
    <2>2. (2 * b) \div 2 = b
      OBVIOUS
    <2> QED BY <1>2, <1>3, <2>1, <2>2
  <1>6. h \in Powers
    BY <1>2, <1>5 DEF Powers, IsPower
  <1> QED BY <1>2, <1>3, <1>5, <1>6

LEMMA PowerBelowIsPower ==
  ASSUME NEW n \in Nat, n > 0
  PROVE  PowerBelow[n] \in Powers
  <1> DEFINE T == {m \in Nat : m > 0 => PowerBelow[m] \in Powers}
  <1>1. ASSUME NEW m \in Nat, \A x \in Nat : x < m => x \in T PROVE m \in T
    <2>1. CASE m < 2
      <3>1. PowerBelow[m] = 1 /\ PowerBelow[1] = 1
        BY <2>1, PowerBelowOf
      <3> QED BY <3>1 DEF Powers, IsPower
    <2>2. CASE m >= 2
      <3>1. PICK h \in Nat : h = m \div 2 /\ h < m /\ h >= 1
        BY <2>2, Halves
      <3>2. PowerBelow[h] \in Powers
        BY <1>1, <3>1
      <3>3. PowerBelow[m] = 2 * PowerBelow[h]
        BY <2>2, <3>1, PowerBelowOf
      <3> QED BY <3>2, <3>3, PowerDoubled
    <2> QED BY <2>1, <2>2
  <1>2. T = Nat
    <2> HIDE DEF T
    <2>1. T \in SUBSET Nat
      BY DEF T
    <2> QED BY <1>1, <2>1, StrongInduction
  <1> QED BY <1>2

-----------------------------------------------------------------------------
(* Divisibility.                                                             *)
Divides(d, n) == \E k \in Nat : n = k * d

LEMMA Divided ==
  ASSUME NEW n \in Nat, NEW d \in Nat, d > 0
  PROVE  n % d = 0 <=> Divides(d, n)
  <1>1. ASSUME n % d = 0 PROVE Divides(d, n)
    <2>1. n \div d \in Nat /\ n = d * (n \div d) + (n % d)
      OBVIOUS
    <2>2. PICK k \in Nat : n = d * k
      BY <1>1, <2>1
    <2> QED BY <2>2 DEF Divides
  <1>2. ASSUME Divides(d, n) PROVE n % d = 0
    <2>1. PICK k \in Nat : n = k * d
      BY <1>2 DEF Divides
    <2>2. PICK r \in 0..d - 1 : r = n % d
      OBVIOUS
    <2>3. PICK q \in Nat : n = d * q + r
      <3>1. n \div d \in Nat /\ n = d * (n \div d) + (n % d)
        OBVIOUS
      <3> QED BY <2>2, <3>1
    <2>4. k * d = d * q + r
      BY <2>1, <2>3
    <2>5. CASE k = q
      BY <2>2, <2>4, <2>5
    <2>6. CASE k >= q + 1
      <3>1. PICK j \in Nat : k = q + 1 + j
        <4>1. k - q - 1 \in Nat
          BY <2>6
        <4> QED BY <4>1
      <3>2. k * d = q * d + d + j * d
        BY <3>1
      <3>3. j * d >= 0 /\ j * d \in Nat /\ q * d \in Nat /\ q * d = d * q
        OBVIOUS
      <3> QED BY <2>2, <2>4, <3>2, <3>3
    <2>7. CASE q >= k + 1
      <3>1. PICK j \in Nat : q = k + 1 + j
        <4>1. q - k - 1 \in Nat
          BY <2>7
        <4> QED BY <4>1
      <3>2. d * q = k * d + d + j * d
        BY <3>1
      <3>3. j * d >= 0 /\ j * d \in Nat /\ k * d \in Nat
        OBVIOUS
      <3> QED BY <2>2, <2>4, <3>2, <3>3
    <2> QED BY <2>5, <2>6, <2>7
  <1> QED BY <1>1, <1>2

LEMMA DividesTransitive ==
  ASSUME NEW a \in Nat, NEW b \in Nat, NEW c \in Nat, Divides(a, b), Divides(b, c)
  PROVE  Divides(a, c)
  <1>1. PICK j \in Nat : b = j * a
    BY DEF Divides
  <1>2. PICK k \in Nat : c = k * b
    BY DEF Divides
  <1>3. c = (k * j) * a /\ k * j \in Nat
    BY <1>1, <1>2
  <1> QED BY <1>3 DEF Divides

LEMMA DividesSum ==
  ASSUME NEW a \in Nat, NEW b \in Nat, NEW c \in Nat, Divides(a, b), Divides(a, c)
  PROVE  Divides(a, b + c)
  <1>1. PICK j \in Nat : b = j * a
    BY DEF Divides
  <1>2. PICK k \in Nat : c = k * a
    BY DEF Divides
  <1>3. b + c = (j + k) * a /\ j + k \in Nat
    BY <1>1, <1>2
  <1> QED BY <1>3 DEF Divides

LEMMA DividesRest ==
  ASSUME NEW a \in Nat, NEW b \in Nat, NEW c \in Nat, Divides(a, b), Divides(a, b + c), a > 0
  PROVE  Divides(a, c)
  <1>1. PICK j \in Nat : b = j * a
    BY DEF Divides
  <1>2. PICK k \in Nat : b + c = k * a
    BY DEF Divides
  <1>3. c = (k - j) * a
    BY <1>1, <1>2
  <1>4. k >= j
    <2> SUFFICES ASSUME j >= k + 1 PROVE FALSE
      OBVIOUS
    <2>1. PICK i \in Nat : j = k + 1 + i
      <3>1. j - k - 1 \in Nat
        OBVIOUS
      <3> QED BY <3>1
    <2>2. j * a = k * a + a + i * a /\ i * a \in Nat /\ k * a \in Nat
      BY <2>1
    <2> QED BY <1>1, <1>2, <2>2
  <1>5. PICK i \in Nat : i = k - j
    BY <1>4
  <1> QED BY <1>3, <1>5 DEF Divides

LEMMA DividesBounds ==
  ASSUME NEW a \in Nat, NEW b \in Nat, b > 0, Divides(a, b)
  PROVE  a <= b
  <1>1. PICK k \in Nat : b = k * a
    BY DEF Divides
  <1>2. k # 0
    BY <1>1
  <1>3. PICK j \in Nat : k = j + 1
    <2>1. k - 1 \in Nat
      BY <1>2
    <2> QED BY <2>1
  <1>4. b = j * a + a /\ j * a \in Nat
    BY <1>1, <1>3
  <1> QED BY <1>4

LEMMA DividesItself ==
  ASSUME NEW a \in Nat
  PROVE  Divides(a, a) /\ Divides(a, 2 * a) /\ Divides(a, 0)
  <1>1. a = 1 * a /\ 2 * a = 2 * a /\ 0 = 0 * a
    OBVIOUS
  <1> QED BY <1>1 DEF Divides

\* A smaller power divides a larger one, twice over.
LEMMA PowersDivide ==
  ASSUME NEW p \in Powers, NEW q \in Powers, p < q
  PROVE  Divides(2 * p, q) /\ 2 * p <= q
  <1> DEFINE T == {n \in Nat : \A x, y \in Powers : x < y /\ y <= n => Divides(2 * x, y)}
  <1>0. \A x \in Powers : x \in Nat /\ x > 0
    BY PowerDoubled
  <1>1. ASSUME NEW n \in Nat, \A m \in Nat : m < n => m \in T PROVE n \in T
    <2> SUFFICES ASSUME NEW x \in Powers, NEW y \in Powers, x < y, y <= n
                 PROVE  Divides(2 * x, y)
      OBVIOUS
    <2>1. y > 1
      BY <1>0
    <2>2. PICK h \in Powers : y = 2 * h /\ h < y
      BY <2>1, PowerHalved
    <2>3. CASE x = h
      BY <1>0, <2>2, <2>3, DividesItself
    <2>4. CASE x < h
      <3>1. h \in T
        BY <1>0, <1>1, <2>2
      <3>2. Divides(2 * x, h)
        BY <2>4, <3>1, <1>0
      <3>3. Divides(h, y)
        BY <1>0, <2>2, DividesItself
      <3> QED BY <1>0, <3>2, <3>3, DividesTransitive
    <2>5. CASE x > h
      <3>1. PICK g \in Powers : x = 2 * g /\ g < x
        BY <1>0, <2>5, PowerHalved
      <3>2. g < h
        BY <1>0, <2>2, <3>1
      <3>3. h \in T
        BY <1>0, <1>1, <2>2
      <3>4. Divides(2 * g, h)
        BY <3>2, <3>3, <1>0
      <3>5. 2 * g <= h
        BY <1>0, <3>4, DividesBounds
      <3> QED BY <1>0, <2>5, <3>1, <3>5
    <2> QED BY <1>0, <2>3, <2>4, <2>5
  <1>2. T = Nat
    <2> HIDE DEF T
    <2>1. T \in SUBSET Nat
      BY DEF T
    <2> QED BY <1>1, <2>1, StrongInduction
  <1>3. Divides(2 * p, q)
    BY <1>0, <1>2
  <1> QED BY <1>0, <1>3, DividesBounds

LEMMA PowerBelowUnique ==
  ASSUME NEW n \in Nat, NEW p \in Powers, p <= n, n < 2 * p
  PROVE  PowerBelow[n] = p
  <1>1. p \in Nat /\ p > 0
    BY PowerDoubled
  <1>2. PICK b \in Powers : b = PowerBelow[n] /\ b \in Nat /\ b <= n /\ n < 2 * b
    BY <1>1, PowerBelowIsPower, PowerBelowFits
  <1>3. CASE p < b
    BY <1>1, <1>2, <1>3, PowersDivide
  <1>4. CASE b < p
    BY <1>1, <1>2, <1>4, PowersDivide
  <1> QED BY <1>1, <1>2, <1>3, <1>4

-----------------------------------------------------------------------------
(* The tree.                                                                 *)
Logs == Seq(EventHashes)

LEMMA Segment ==
  ASSUME NEW s \in Logs, NEW a \in Nat, NEW b \in Nat, a <= b, b <= Len(s)
  PROVE  /\ SubSeq(s, a + 1, b) \in Logs /\ Len(SubSeq(s, a + 1, b)) = b - a
         /\ \A i \in 1..b - a : SubSeq(s, a + 1, b)[i] = s[a + i]
  <1>1. Len(s) \in Nat /\ \A i \in 1..Len(s) : s[i] \in EventHashes
    BY DEF Logs
  <1>2. SubSeq(s, a + 1, b) = [i \in 1..b - a |-> s[a + i]]
    <2>1. (a + 1)..b \subseteq 1..Len(s) /\ (1 + b) - (a + 1) = b - a
      BY <1>1
    <2>2. SubSeq(s, a + 1, b) = [i \in 1..(1 + b) - (a + 1) |-> s[(a + 1) + i - 1]]
      BY <1>1, <2>1 DEF Logs
    <2>3. \A i \in 1..b - a : (a + 1) + i - 1 = a + i
      OBVIOUS
    <2> QED BY <2>1, <2>2, <2>3
  <1>3. \A i \in 1..b - a : s[a + i] \in EventHashes
    BY <1>1
  <1>4. [i \in 1..b - a |-> s[a + i]] \in Logs
    BY <1>3 DEF Logs
  <1> QED BY <1>2, <1>4 DEF Logs

\* Sequences are what their elements are.
LEMMA SameLog ==
  ASSUME NEW s \in Logs, NEW t \in Logs, Len(s) = Len(t), \A i \in 1..Len(s) : s[i] = t[i]
  PROVE  s = t
  BY DEF Logs

\* A segment of a segment.
LEMMA SegmentOfSegment ==
  ASSUME NEW s \in Logs, NEW a \in Nat, NEW b \in Nat, a <= b, b <= Len(s),
         NEW c \in Nat, NEW d \in Nat, c <= d, d <= b - a
  PROVE  SubSeq(SubSeq(s, a + 1, b), c + 1, d) = SubSeq(s, (a + c) + 1, a + d)
  <1>1. PICK t \in Logs : /\ t = SubSeq(s, a + 1, b) /\ Len(t) = b - a
                          /\ \A i \in 1..b - a : t[i] = s[a + i]
    BY Segment
  <1>2. PICK u \in Logs : /\ u = SubSeq(t, c + 1, d) /\ Len(u) = d - c
                          /\ \A i \in 1..d - c : u[i] = t[c + i]
    <2>1. d <= Len(t)
      BY <1>1
    <2>2. /\ SubSeq(t, c + 1, d) \in Logs /\ Len(SubSeq(t, c + 1, d)) = d - c
          /\ \A i \in 1..d - c : SubSeq(t, c + 1, d)[i] = t[c + i]
      BY <2>1, Segment
    <2> QED BY <2>2, Zenon
  <1>0. Len(s) \in Nat
    BY DEF Logs
  <1>3. PICK v \in Logs : /\ v = SubSeq(s, (a + c) + 1, a + d) /\ Len(v) = d - c
                          /\ \A i \in 1..d - c : v[i] = s[(a + c) + i]
    <2>1. PICK l \in Nat, h \in Nat : /\ l = a + c /\ h = a + d /\ l <= h /\ h <= Len(s)
                                       /\ h - l = d - c
      BY <1>0
    <2>2. /\ SubSeq(s, l + 1, h) \in Logs /\ Len(SubSeq(s, l + 1, h)) = h - l
          /\ \A i \in 1..h - l : SubSeq(s, l + 1, h)[i] = s[l + i]
      <3>1. l <= h /\ h <= Len(s)
        BY <2>1
      <3> QED BY <3>1, Segment
    <2> QED BY <2>1, <2>2
  <1>4. \A i \in 1..d - c : u[i] = v[i]
    <2> SUFFICES ASSUME NEW i \in 1..d - c PROVE u[i] = v[i]
      OBVIOUS
    <2>1. c + i \in 1..b - a /\ a + (c + i) = (a + c) + i
      OBVIOUS
    <2> QED BY <1>1, <1>2, <1>3, <2>1
  <1>5. u = v
    BY <1>2, <1>3, <1>4, SameLog
  <1> QED BY <1>1, <1>2, <1>3, <1>5

\* A whole sequence is a segment of itself.
LEMMA SegmentWhole ==
  ASSUME NEW s \in Logs
  PROVE  Len(s) \in Nat /\ SubSeq(s, 1, Len(s)) = s
  BY DEF Logs

LEMMA SplitPointSplits ==
  ASSUME NEW n \in Nat, n > 1
  PROVE  SplitPoint(n) \in Nat /\ 1 <= SplitPoint(n) /\ SplitPoint(n) < n
  BY PowerBelowFits DEF SplitPoint

\* A definition that splits a sequence at its split point.
Left(s) == SubSeq(s, 1, SplitPoint(Len(s)))
Right(s) == SubSeq(s, SplitPoint(Len(s)) + 1, Len(s))

LEMMA Halved ==
  ASSUME NEW s \in Logs, Len(s) > 1
  PROVE  /\ Left(s) \in Logs /\ Len(Left(s)) = SplitPoint(Len(s)) /\ Len(Left(s)) < Len(s)
         /\ Right(s) \in Logs /\ Len(Right(s)) = Len(s) - SplitPoint(Len(s))
         /\ Len(Right(s)) < Len(s) /\ Len(Left(s)) >= 1 /\ Len(Right(s)) >= 1
         /\ \A i \in 1..SplitPoint(Len(s)) : Left(s)[i] = s[i]
         /\ \A i \in 1..Len(s) - SplitPoint(Len(s)) : Right(s)[i] = s[SplitPoint(Len(s)) + i]
  <1>1. PICK n \in Nat : n = Len(s) /\ n > 1
    BY DEF Logs
  <1>2. PICK k \in Nat : k = SplitPoint(n) /\ 1 <= k /\ k < n
    BY <1>1, SplitPointSplits
  <1>3. SubSeq(s, 1, k) \in Logs /\ Len(SubSeq(s, 1, k)) = k
        /\ \A i \in 1..k : SubSeq(s, 1, k)[i] = s[i]
    <2>1. /\ SubSeq(s, 0 + 1, k) \in Logs /\ Len(SubSeq(s, 0 + 1, k)) = k - 0
          /\ \A i \in 1..k - 0 : SubSeq(s, 0 + 1, k)[i] = s[0 + i]
      <3>1. 0 \in Nat /\ 0 <= k /\ k <= Len(s)
        BY <1>1, <1>2
      <3> QED BY <3>1, Segment
    <2> QED BY <2>1
  <1>4. SubSeq(s, k + 1, n) \in Logs /\ Len(SubSeq(s, k + 1, n)) = n - k
        /\ \A i \in 1..n - k : SubSeq(s, k + 1, n)[i] = s[k + i]
    BY <1>1, <1>2, Segment
  <1>5. Left(s) = SubSeq(s, 1, k) /\ Right(s) = SubSeq(s, k + 1, n)
    BY <1>1, <1>2 DEF Left, Right
  <1> QED BY <1>1, <1>2, <1>3, <1>4, <1>5

\* SubtreeRoot's definition defines it.
LEMMA SubtreeRootIs ==
  SubtreeRoot = [s \in Logs |->
    IF s = <<>> THEN EmptyRoot
    ELSE IF Len(s) = 1 THEN HashLeaf(s[1])
    ELSE HashChildren(SubtreeRoot[Left(s)], SubtreeRoot[Right(s)])]
  <1> DEFINE Step(g, s) == IF s = <<>> THEN EmptyRoot
                           ELSE IF Len(s) = 1 THEN HashLeaf(s[1])
                           ELSE HashChildren(g[Left(s)], g[Right(s)])
             Upto(n) == {s \in Logs : Len(s) <= n}
             Is(g, n) == g = [s \in Upto(n) |-> Step(g, s)]
             T == {n \in Nat : \E g : Is(g, n)}
  <1>a. \A s \in Logs : Len(s) \in Nat /\ (s = <<>> <=> Len(s) = 0)
    BY DEF Logs
  <1>b. ASSUME NEW s \in Logs, NEW g, NEW h,
               Len(s) > 1 => g[Left(s)] = h[Left(s)] /\ g[Right(s)] = h[Right(s)]
        PROVE  Step(g, s) = Step(h, s)
    <2>1. CASE s = <<>> \/ Len(s) = 1
      BY <2>1, Zenon
    <2>2. CASE Len(s) > 1
      BY <1>b, <2>2, Zenon
    <2>3. PICK n \in Nat : n = Len(s) /\ (s = <<>> <=> n = 0)
      BY <1>a, Zenon
    <2>4. n = 0 \/ n = 1 \/ n > 1
      OBVIOUS
    <2> QED BY <2>1, <2>2, <2>3, <2>4, Zenon
  <1>c. \A s \in Logs : Len(s) > 1 => /\ Left(s) \in Logs /\ Len(Left(s)) < Len(s)
                                      /\ Right(s) \in Logs /\ Len(Right(s)) < Len(s)
    BY Halved
  <1> HIDE DEF Step
  <1>1. 0 \in T
    <2>1. PICK g : g = [s \in Upto(0) |-> Step(<<>>, s)]
      OBVIOUS
    <2>2. \A s \in Upto(0) : Step(<<>>, s) = Step(g, s)
      BY <1>a, <1>b
    <2>3. Is(g, 0)
      BY <2>1, <2>2
    <2> QED BY <2>3
  <1>2. ASSUME NEW n \in T PROVE n + 1 \in T
    <2>1. PICK g : Is(g, n)
      OBVIOUS
    <2>2. PICK h : h = [s \in Upto(n + 1) |-> Step(g, s)]
      OBVIOUS
    <2>3. \A s \in Upto(n) : h[s] = g[s]
      <3>1. \A s \in Upto(n) : s \in Upto(n + 1)
        BY <1>a
      <3>2. \A s \in Upto(n) : h[s] = Step(g, s)
        BY <2>2, <3>1
      <3>3. \A s \in Upto(n) : g[s] = Step(g, s)
        BY <2>1
      <3> QED BY <3>2, <3>3
    <2>4. ASSUME NEW s \in Upto(n + 1) PROVE Step(g, s) = Step(h, s)
      <3>1. s \in Logs /\ Len(s) \in Nat /\ Len(s) <= n + 1
        BY <1>a
      <3>2. Len(s) > 1 => Left(s) \in Upto(n) /\ Right(s) \in Upto(n)
        BY <1>a, <1>c, <3>1
      <3>3. Len(s) > 1 => g[Left(s)] = h[Left(s)] /\ g[Right(s)] = h[Right(s)]
        BY <2>3, <3>2
      <3> QED BY <1>b, <3>1, <3>3
    <2>5. Is(h, n + 1) /\ n + 1 \in Nat
      BY <2>2, <2>4
    <2> QED BY <2>5
  <1>3. T = Nat
    <2> HIDE DEF T
    <2>1. T \in SUBSET Nat
      BY DEF T
    <2> QED BY <1>1, <1>2, <2>1, Induction
  <1>4. ASSUME NEW n \in Nat, NEW m \in Nat, NEW g, NEW h, Is(g, n), Is(h, m)
        PROVE  \A s \in Logs : Len(s) <= n /\ Len(s) <= m => g[s] = h[s]
    <2> DEFINE D == {Len(s) : s \in {t \in Logs : Len(t) <= n /\ Len(t) <= m /\ g[t] # h[t]}}
    <2> SUFFICES ASSUME D # {} PROVE FALSE
      OBVIOUS
    <2>1. D \in SUBSET Nat
      BY <1>a
    <2>2. PICK y \in D : \A z \in D : y <= z
      <3> HIDE DEF D
      <3> QED BY <2>1, LeastNumber
    <2>3. PICK s \in Logs : Len(s) = y /\ Len(s) <= n /\ Len(s) <= m /\ g[s] # h[s]
      BY <2>2
    <2>4. \A t \in Logs : Len(t) < Len(s) => g[t] = h[t]
      <3> SUFFICES ASSUME NEW t \in Logs, Len(t) < Len(s), g[t] # h[t] PROVE FALSE
        OBVIOUS
      <3>1. Len(t) \in D
        BY <1>a, <2>3
      <3> QED BY <1>a, <2>2, <2>3, <3>1
    <2>5. Len(s) > 1 => g[Left(s)] = h[Left(s)] /\ g[Right(s)] = h[Right(s)]
      BY <1>c, <2>4
    <2>6. g[s] = Step(g, s) /\ h[s] = Step(h, s)
      BY <1>4, <2>3
    <2> QED BY <1>b, <2>3, <2>5, <2>6
  <1> DEFINE At(n) == CHOOSE g : Is(g, n)
  <1>5. \A n \in Nat : Is(At(n), n)
    BY <1>3
  <1>6. PICK f : f = [s \in Logs |-> At(Len(s))[s]]
    OBVIOUS
  <1> HIDE DEF At
  <1>7. ASSUME NEW s \in Logs PROVE f[s] = Step(f, s)
    <2>1. PICK n \in Nat : n = Len(s)
      BY <1>a
    <2>2. f[s] = Step(At(n), s)
      <3>1. f[s] = At(n)[s] /\ s \in Upto(n)
        BY <1>6, <2>1
      <3>2. At(n) = [t \in Upto(n) |-> Step(At(n), t)]
        BY <1>5
      <3> HIDE DEF Upto
      <3> QED BY <3>1, <3>2, Zenon
    <2>3. ASSUME NEW t \in Logs, Len(t) <= n PROVE f[t] = At(n)[t]
      <3>1. PICK k \in Nat : k = Len(t) /\ k <= n
        BY <1>a, <2>3
      <3>2. Is(At(n), n) /\ Is(At(k), k)
        BY <1>5
      <3>3. At(n)[t] = At(k)[t]
        <4> HIDE DEF Is
        <4> QED BY <1>4, <3>1, <3>2
      <3> QED BY <1>6, <3>1, <3>3
    <2>4. Len(s) > 1 => /\ At(n)[Left(s)] = f[Left(s)] /\ At(n)[Right(s)] = f[Right(s)]
      <3>1. Len(s) > 1 => Len(Left(s)) <= n /\ Len(Right(s)) <= n
        BY <1>a, <1>c, <2>1
      <3> QED BY <1>c, <2>3, <3>1
    <2>5. Step(At(n), s) = Step(f, s)
      BY <1>b, <2>4
    <2> QED BY <2>2, <2>5
  <1>8. f = [s \in Logs |-> Step(f, s)]
    BY <1>6, <1>7
  <1> QED
    BY <1>8, Zenon DEF SubtreeRoot, Step, Logs, Left, Right

LEMMA RootOf ==
  ASSUME NEW s \in Logs
  PROVE  SubtreeRoot[s] = IF s = <<>> THEN EmptyRoot
                          ELSE IF Len(s) = 1 THEN HashLeaf(s[1])
                          ELSE HashChildren(SubtreeRoot[Left(s)], SubtreeRoot[Right(s)])
  BY SubtreeRootIs, Zenon

LEMMA HashesDiffer ==
  /\ \A a, b : HashLeaf(a) = HashLeaf(b) => a = b
  /\ \A a, b, c, d : HashChildren(a, b) = HashChildren(c, d) => a = c /\ b = d
  /\ \A a, b : HashLeaf(a) # NoHash /\ HashChildren(a, b) # NoHash
  BY DEF HashLeaf, HashChildren, NoHash

\* Hashes do not collide, so neither do the roots of logs of one length.
LEMMA RootsDiffer ==
  ASSUME NEW s \in Logs, NEW t \in Logs, Len(s) = Len(t), SubtreeRoot[s] = SubtreeRoot[t]
  PROVE  s = t
  <1> DEFINE T == {n \in Nat : \A x, y \in Logs :
                     Len(x) = n /\ Len(y) = n /\ SubtreeRoot[x] = SubtreeRoot[y] => x = y}
  <1>a. \A x \in Logs : Len(x) \in Nat /\ (x = <<>> <=> Len(x) = 0)
    BY DEF Logs
  <1>1. ASSUME NEW n \in Nat, \A m \in Nat : m < n => m \in T PROVE n \in T
    <2> SUFFICES ASSUME NEW x \in Logs, NEW y \in Logs, Len(x) = n, Len(y) = n,
                        SubtreeRoot[x] = SubtreeRoot[y]
                 PROVE  x = y
      OBVIOUS
    <2>1. CASE n = 0
      BY <1>a, <2>1
    <2>2. CASE n = 1
      <3>1. SubtreeRoot[x] = HashLeaf(x[1]) /\ SubtreeRoot[y] = HashLeaf(y[1])
        BY <1>a, <2>2, RootOf
      <3>2. x[1] = y[1]
        BY <3>1, HashesDiffer, Zenon
      <3> QED BY <2>2, <3>2, SameLog
    <2>3. CASE n > 1
      <3>1. SubtreeRoot[x] = HashChildren(SubtreeRoot[Left(x)], SubtreeRoot[Right(x)])
            /\ SubtreeRoot[y] = HashChildren(SubtreeRoot[Left(y)], SubtreeRoot[Right(y)])
        <4>1. x # <<>> /\ y # <<>> /\ Len(x) # 1 /\ Len(y) # 1
          BY <1>a, <2>3
        <4> QED BY <4>1, RootOf, Zenon
      <3>2. SubtreeRoot[Left(x)] = SubtreeRoot[Left(y)]
            /\ SubtreeRoot[Right(x)] = SubtreeRoot[Right(y)]
        <4>1. HashChildren(SubtreeRoot[Left(x)], SubtreeRoot[Right(x)])
              = HashChildren(SubtreeRoot[Left(y)], SubtreeRoot[Right(y)])
          BY <3>1, Zenon
        <4> HIDE <3>1
        <4> QED BY <4>1, HashesDiffer
      <3>3. PICK k \in Nat : k = SplitPoint(n) /\ 1 <= k /\ k < n
        BY <2>3, SplitPointSplits
      <3>4. Left(x) = Left(y)
        <4>1. Left(x) \in Logs /\ Left(y) \in Logs /\ Len(Left(x)) = k /\ Len(Left(y)) = k
          BY <2>3, <3>3, Halved
        <4>2. k \in T
          BY <1>1, <3>3
        <4> QED BY <3>2, <4>1, <4>2
      <3>5. Right(x) = Right(y)
        <4>1. /\ Right(x) \in Logs /\ Right(y) \in Logs
              /\ Len(Right(x)) = n - k /\ Len(Right(y)) = n - k
          BY <2>3, <3>3, Halved
        <4>2. n - k \in Nat /\ n - k < n
          BY <3>3
        <4>3. n - k \in T
          BY <1>1, <4>2
        <4> QED BY <3>2, <4>1, <4>3
      <3>6. \A i \in 1..n : x[i] = y[i]
        <4> SUFFICES ASSUME NEW i \in 1..n PROVE x[i] = y[i]
          OBVIOUS
        <4>1. CASE i <= k
          <5>1. x[i] = Left(x)[i] /\ y[i] = Left(y)[i]
            BY <2>3, <3>3, <4>1, Halved
          <5> QED BY <3>4, <5>1
        <4>2. CASE i > k
          <5>1. PICK j \in 1..n - k : i = k + j
            <6>1. i - k \in 1..n - k /\ i = k + (i - k)
              BY <3>3, <4>2
            <6> QED BY <6>1
          <5>2. x[i] = Right(x)[j] /\ y[i] = Right(y)[j]
            BY <2>3, <3>3, <5>1, Halved
          <5> QED BY <3>5, <5>2
        <4> QED BY <3>3, <4>1, <4>2
      <3> QED BY <3>6, SameLog
    <2> QED BY <2>1, <2>2, <2>3
  <1>2. T = Nat
    <2> HIDE DEF T
    <2>1. T \in SUBSET Nat
      BY DEF T
    <2> QED BY <1>1, <2>1, StrongInduction
  <1> QED BY <1>a, <1>2

-----------------------------------------------------------------------------
(* Blocks: subtrees of a power of two of leaves, aligned to their size.      *)
LEMMA SplitPointIs ==
  ASSUME NEW n \in Nat, NEW k \in Powers, k < n, n <= 2 * k
  PROVE  SplitPoint(n) = k
  <1>1. PICK m \in Nat : m = n - 1
    <2>1. k \in Nat /\ k > 0
      BY PowerDoubled
    <2> QED BY <2>1
  <1>2. k <= m /\ m < 2 * k
    BY <1>1, PowerDoubled
  <1>3. PowerBelow[m] = k
    BY <1>2, PowerBelowUnique
  <1> QED BY <1>1, <1>3 DEF SplitPoint

SegmentRoot(s, a, b) == SubtreeRoot[SubSeq(s, a + 1, b)]

\* The root of a segment from the roots of its parts.
LEMMA SegmentSplit ==
  ASSUME NEW s \in Logs, NEW a \in Nat, NEW b \in Nat, NEW k \in Powers, b <= Len(s),
         a + k < b, b <= a + 2 * k
  PROVE  SegmentRoot(s, a, b) = HashChildren(SegmentRoot(s, a, a + k), SegmentRoot(s, a + k, b))
  <1>1. k \in Nat /\ k > 0
    BY PowerDoubled
  <1>2. PICK n \in Nat : n = b - a /\ n > 1 /\ k < n /\ n <= 2 * k
    BY <1>1
  <1>3. a <= b
    BY <1>1
  <1>4. PICK t \in Logs : t = SubSeq(s, a + 1, b) /\ Len(t) = n
    BY <1>2, <1>3, Segment
  <1>5. SplitPoint(Len(t)) = k
    BY <1>2, <1>4, SplitPointIs
  <1>6. Left(t) = SubSeq(s, a + 1, a + k)
    <2>1. SubSeq(SubSeq(s, a + 1, b), 0 + 1, k) = SubSeq(s, (a + 0) + 1, a + k)
      <3>1. 0 \in Nat /\ 0 <= k /\ k <= b - a
        BY <1>1, <1>2
      <3> QED BY <1>1, <1>3, <3>1, SegmentOfSegment
    <2>2. 0 + 1 = 1 /\ a + 0 = a
      OBVIOUS
    <2> QED BY <1>4, <1>5, <2>1, <2>2 DEF Left
  <1>7. Right(t) = SubSeq(s, (a + k) + 1, b)
    <2>1. SubSeq(SubSeq(s, a + 1, b), k + 1, n) = SubSeq(s, (a + k) + 1, a + n)
      <3>1. k <= n /\ n <= b - a
        BY <1>1, <1>2
      <3> QED BY <1>1, <1>3, <3>1, SegmentOfSegment
    <2>2. a + n = b
      BY <1>2
    <2> QED BY <1>4, <1>5, <2>1, <2>2 DEF Right
  <1>8. SubtreeRoot[t] = HashChildren(SubtreeRoot[Left(t)], SubtreeRoot[Right(t)])
    <2>1. t # <<>> /\ Len(t) # 1
      BY <1>2, <1>4
    <2> QED BY <2>1, RootOf, Zenon
  <1> QED
    BY <1>4, <1>6, <1>7, <1>8, Zenon DEF SegmentRoot

Blocks(s) ==
  {Block(s, x[1], x[2]) :
     x \in {y \in Nat \X Powers : Divides(y[2], y[1]) /\ y[1] + y[2] <= Len(s)}}

LEMMA BlockIn ==
  ASSUME NEW s \in Logs, NEW c \in Nat, NEW z \in Powers, Divides(z, c), c + z <= Len(s)
  PROVE  Block(s, c, z) \in Blocks(s)
  <1>1. PICK x \in Nat \X Powers : x = <<c, z>> /\ x[1] = c /\ x[2] = z
    <2>1. <<c, z>> \in Nat \X Powers /\ <<c, z>>[1] = c /\ <<c, z>>[2] = z
      OBVIOUS
    <2> QED BY <2>1
  <1>2. Block(s, x[1], x[2]) \in Blocks(s)
    BY <1>1 DEF Blocks
  <1> QED BY <1>1, <1>2

LEMMA BlockHas ==
  ASSUME NEW s, NEW c, NEW z
  PROVE  Block(s, c, z).start = c /\ Block(s, c, z).size = z
         /\ Block(s, c, z).hash = SegmentRoot(s, c, c + z)
  BY DEF Block, SegmentRoot

LEMMA BlockIs ==
  ASSUME NEW s \in Logs, NEW b \in Blocks(s)
  PROVE  /\ b.start \in Nat /\ b.size \in Powers /\ b.size \in Nat /\ b.size > 0
         /\ Divides(b.size, b.start) /\ b.start + b.size <= Len(s)
         /\ b.hash = SegmentRoot(s, b.start, b.start + b.size)
  <1>1. PICK x \in Nat \X Powers : /\ Divides(x[2], x[1]) /\ x[1] + x[2] <= Len(s)
                                   /\ b = Block(s, x[1], x[2])
    BY DEF Blocks
  <1>2. PICK c \in Nat, z \in Powers : c = x[1] /\ z = x[2]
    OBVIOUS
  <1>3. Divides(z, c) /\ c + z <= Len(s) /\ b = Block(s, c, z)
    BY <1>1, <1>2
  <1>4. b.start = c /\ b.size = z /\ b.hash = SegmentRoot(s, c, c + z)
    BY <1>3, BlockHas
  <1>5. z \in Nat /\ z > 0
    BY PowerDoubled
  <1> QED
    BY <1>3, <1>4, <1>5, Zenon

\* Two halves of an aligned block.
LEMMA BlocksMerge ==
  ASSUME NEW s \in Logs, NEW l \in Blocks(s), NEW r \in Blocks(s), l.size = r.size,
         r.start = l.start + l.size, Divides(2 * l.size, l.start)
  PROVE  [start |-> l.start, size |-> l.size * 2, hash |-> HashChildren(l.hash, r.hash)]
           = Block(s, l.start, 2 * l.size)
         /\ Block(s, l.start, 2 * l.size) \in Blocks(s)
  <1>1. PICK c \in Nat, z \in Powers : c = l.start /\ z = l.size
    BY BlockIs
  <1>2. /\ z \in Nat /\ z > 0 /\ 2 * z \in Powers /\ z * 2 = 2 * z
    BY PowerDoubled
  <1>3. r.start = c + z /\ r.size = z /\ r.start + r.size <= Len(s)
    BY <1>1, BlockIs
  <1>4. (c + z) + z = c + 2 * z /\ c + 2 * z <= Len(s) /\ c + 2 * z \in Nat /\ c + z < c + 2 * z
    BY <1>2, <1>3
  <1>5. l.hash = SegmentRoot(s, c, c + z) /\ r.hash = SegmentRoot(s, c + z, c + 2 * z)
    <2>1. r.hash = SegmentRoot(s, c + z, (c + z) + z)
      BY <1>3, BlockIs, Zenon
    <2>2. l.hash = SegmentRoot(s, c, c + z)
      BY <1>1, BlockIs, Zenon
    <2> QED BY <1>4, <2>1, <2>2, Zenon
  <1>6. SegmentRoot(s, c, c + 2 * z) = HashChildren(l.hash, r.hash)
    <2>1. PICK e \in Nat : e = c + 2 * z /\ e <= Len(s) /\ c + z < e /\ e <= c + 2 * z
      BY <1>4
    <2>2. SegmentRoot(s, c, e) = HashChildren(SegmentRoot(s, c, c + z), SegmentRoot(s, c + z, e))
      BY <2>1, SegmentSplit
    <2> QED BY <1>5, <2>1, <2>2, Zenon
  <1>7. Block(s, c, 2 * z) = [start |-> c, size |-> 2 * z, hash |-> HashChildren(l.hash, r.hash)]
    BY <1>6, Zenon DEF Block, SegmentRoot
  <1>8. Divides(2 * z, c)
    BY <1>1
  <1>9. Block(s, c, 2 * z) \in Blocks(s)
    BY <1>2, <1>4, <1>8, BlockIn
  <1> QED BY <1>1, <1>2, <1>7, <1>9, Zenon

-----------------------------------------------------------------------------
(* Blocks that follow each other from a to b.                                *)
End(b) == b.start + b.size

Tiles(nodes, s, a, b) ==
  /\ nodes \in Seq(Blocks(s))
  /\ nodes = <<>> => a = b
  /\ nodes # <<>> => nodes[1].start = a /\ End(nodes[Len(nodes)]) = b
  /\ \A i \in 1..Len(nodes) - 1 : nodes[i + 1].start = End(nodes[i])

LEMMA TilesJoin ==
  ASSUME NEW s \in Logs, NEW a, NEW b, NEW c, NEW x, NEW y, Tiles(x, s, a, b), Tiles(y, s, b, c)
  PROVE  Tiles(x \o y, s, a, c)
  <1>1. x \in Seq(Blocks(s)) /\ y \in Seq(Blocks(s))
    BY DEF Tiles
  <1>2. PICK z \in Seq(Blocks(s)) :
          /\ z = x \o y /\ Len(z) = Len(x) + Len(y)
          /\ \A i \in 1..Len(x) : z[i] = x[i]
          /\ \A i \in 1..Len(y) : z[Len(x) + i] = y[i]
    <2> DEFINE S == Blocks(s)
    <2>1. x \in Seq(S) /\ y \in Seq(S)
      BY <1>1
    <2> HIDE DEF S
    <2>2. x \o y \in Seq(S) /\ Len(x \o y) = Len(x) + Len(y)
      BY <2>1
    <2>3. /\ \A i \in 1..Len(x) : (x \o y)[i] = x[i]
          /\ \A i \in 1..Len(y) : (x \o y)[Len(x) + i] = y[i]
      BY <2>1
    <2> QED BY <2>2, <2>3 DEF S
  <1>3. PICK m \in Nat, n \in Nat : m = Len(x) /\ n = Len(y)
    BY <1>1
  <1>4. CASE m = 0
    <2>0. x = <<>>
      BY <1>1, <1>3, <1>4, EmptySeq
    <2>1. x = <<>> /\ a = b
      BY <2>0, Zenon DEF Tiles
    <2>2. x \o y = y
      BY <1>1, <2>1
    <2> QED BY <2>1, <2>2
  <1>5. CASE n = 0
    <2>0. y = <<>>
      BY <1>1, <1>3, <1>5, EmptySeq
    <2>1. y = <<>> /\ b = c
      BY <2>0, Zenon DEF Tiles
    <2>2. x \o y = x
      BY <1>1, <2>1
    <2> QED BY <2>1, <2>2
  <1>6. CASE m > 0 /\ n > 0
    <2>1. x # <<>> /\ y # <<>>
      BY <1>1, <1>3, <1>6
    <2>2. z[1].start = a /\ End(z[m + n]) = c /\ z # <<>>
      <3>1. z[1] = x[1] /\ z[m + n] = y[n]
        BY <1>2, <1>3, <1>6
      <3>2. x[1].start = a /\ End(y[n]) = c
        BY <2>1, <1>3 DEF Tiles
      <3>3. z # <<>>
        BY <1>2, <1>3, <1>6
      <3> QED BY <3>1, <3>2, <3>3
    <2>3. ASSUME NEW i \in 1..(m + n) - 1 PROVE z[i + 1].start = End(z[i])
      <3>1. CASE i < m
        <4>1. z[i] = x[i] /\ z[i + 1] = x[i + 1]
          BY <1>2, <1>3, <3>1
        <4>2. i \in 1..Len(x) - 1
          BY <1>3, <3>1
        <4>3. x[i + 1].start = End(x[i])
          BY <4>2 DEF Tiles
        <4> QED BY <4>1, <4>3
      <3>2. CASE i = m
        <4>1. z[i] = x[m] /\ z[i + 1] = y[1]
          BY <1>2, <1>3, <1>6, <3>2
        <4>2. End(x[m]) = b /\ y[1].start = b
          BY <1>3, <2>1 DEF Tiles
        <4> QED BY <4>1, <4>2
      <3>3. CASE i > m
        <4>1. PICK j \in 1..n - 1 : i = m + j
          <5>1. i - m \in 1..n - 1 /\ i = m + (i - m)
            BY <3>3
          <5> QED BY <5>1
        <4>2. z[i] = y[j] /\ z[i + 1] = y[j + 1]
          <5>1. j \in 1..Len(y) /\ j + 1 \in 1..Len(y) /\ i + 1 = m + (j + 1)
            BY <1>3, <4>1
          <5> QED BY <1>2, <1>3, <4>1, <5>1
        <4>3. j \in 1..Len(y) - 1
          BY <1>3
        <4>4. y[j + 1].start = End(y[j])
          BY <4>3 DEF Tiles
        <4> QED BY <4>2, <4>4
      <3> QED BY <3>1, <3>2, <3>3
    <2>4. Len(z) = m + n
      BY <1>2, <1>3
    <2>5. Tiles(z, s, a, c)
      BY <2>2, <2>3, <2>4 DEF Tiles
    <2> QED BY <1>2, <2>5
  <1> QED BY <1>4, <1>5, <1>6

LEMMA TilesOne ==
  ASSUME NEW s \in Logs, NEW b \in Blocks(s)
  PROVE  Tiles(<<b>>, s, b.start, End(b))
  <1>1. PICK z \in Seq(Blocks(s)) : z = <<b>> /\ Len(z) = 1 /\ z[1] = b /\ z # <<>>
    <2> DEFINE S == Blocks(s)
    <2>1. b \in S
      OBVIOUS
    <2> HIDE DEF S
    <2>2. <<b>> \in Seq(S) /\ Len(<<b>>) = 1 /\ <<b>>[1] = b /\ <<b>> # <<>>
      BY <2>1
    <2> QED BY <2>2 DEF S
  <1>2. Tiles(z, s, b.start, End(b))
    BY <1>1 DEF Tiles
  <1> QED BY <1>1, <1>2

LEMMA TilesNone ==
  ASSUME NEW s, NEW a
  PROVE  Tiles(<<>>, s, a, a)
  <1>1. <<>> \in Seq(Blocks(s)) /\ Len(<<>>) = 0
    BY EmptySeq
  <1> QED BY <1>1 DEF Tiles

-----------------------------------------------------------------------------
(* compact_range.                                                            *)
LEMMA AlignmentIs ==
  ASSUME NEW n \in Nat, n > 0
  PROVE  Alignment(n) \in Powers /\ Divides(Alignment(n), n)
  <1> DEFINE aligned == {p \in 1..n : IsPower(p) /\ n % p = 0}
             D == {n - p : p \in aligned}
  <1>1. 1 \in aligned
    <2>1. PowerBelow[1] = 1
      BY PowerBelowOf
    <2>2. n % 1 = 0
      OBVIOUS
    <2> QED BY <2>1, <2>2 DEF IsPower
  <1>2. D \in SUBSET Nat /\ D # {}
    BY <1>1
  <1>3. PICK d \in D : \A e \in D : d <= e
    <2> HIDE DEF D
    <2> QED BY <1>2, LeastNumber
  <1>4. PICK p \in aligned : d = n - p
    BY <1>3
  <1>5. \A q \in aligned : q <= p
    <2> SUFFICES ASSUME NEW q \in aligned PROVE q <= p
      OBVIOUS
    <2>1. n - q \in D
      OBVIOUS
    <2>2. d <= n - q
      BY <1>3, <2>1
    <2>3. p \in Nat /\ q \in Nat
      OBVIOUS
    <2> HIDE DEF D, aligned
    <2> QED BY <1>4, <2>2, <2>3
  <1>6. Alignment(n) \in aligned
    <2> HIDE DEF aligned
    <2>1. (CHOOSE x \in aligned : \A q \in aligned : q <= x) \in aligned
      BY <1>4, <1>5, Zenon
    <2> QED BY <2>1, Zenon DEF Alignment, aligned
  <1>7. PICK x \in 1..n : x = Alignment(n) /\ IsPower(x) /\ n % x = 0
    BY <1>6
  <1>8. Divides(x, n)
    BY <1>7, Divided
  <1> QED BY <1>7, <1>8 DEF Powers

LEMMA BlockSizeIs ==
  ASSUME NEW c \in Nat, NEW e \in Nat, c < e
  PROVE  /\ BlockSize(c, e) \in Powers /\ BlockSize(c, e) \in Nat /\ BlockSize(c, e) > 0
         /\ Divides(BlockSize(c, e), c) /\ c + BlockSize(c, e) <= e
  <1>1. PICK n \in Nat : n = e - c /\ n > 0
    OBVIOUS
  <1>2. PICK f \in Powers : f = PowerBelow[n] /\ f \in Nat /\ f > 0 /\ f <= n
    BY <1>1, PowerBelowFits, PowerBelowIsPower
  <1>3. CASE c = 0
    <2>1. BlockSize(c, e) = f
      BY <1>1, <1>2, <1>3 DEF BlockSize
    <2> QED BY <1>1, <1>2, <1>3, <2>1, DividesItself
  <1>4. CASE c > 0
    <2>1. PICK a \in Powers : a = Alignment(c) /\ Divides(a, c) /\ a \in Nat /\ a > 0
      BY <1>4, AlignmentIs, PowerDoubled
    <2>2. BlockSize(c, e) = IF a < f THEN a ELSE f
      BY <1>1, <1>2, <1>4, <2>1 DEF BlockSize
    <2>3. CASE a < f
      BY <1>1, <1>2, <2>1, <2>2, <2>3
    <2>4. CASE f <= a
      <3>1. Divides(f, a)
        <4>1. CASE f = a
          BY <1>2, <4>1, DividesItself
        <4>2. CASE f < a
          <5>1. Divides(2 * f, a) /\ Divides(f, 2 * f)
            BY <1>2, <4>2, PowersDivide, DividesItself
          <5> QED BY <1>2, <2>1, <5>1, DividesTransitive
        <4> QED BY <1>2, <2>1, <2>4, <4>1, <4>2
      <3>2. Divides(f, c)
        BY <1>2, <2>1, <3>1, DividesTransitive
      <3> QED BY <1>1, <1>2, <2>1, <2>2, <2>4, <3>2
    <2> QED BY <1>2, <2>1, <2>3, <2>4
  <1> QED BY <1>3, <1>4

\* compact_range covers its range with aligned blocks that follow each other.
LEMMA CompactRangeTiles ==
  ASSUME NEW s \in Logs, NEW a \in Nat, NEW b \in Nat, a <= b, b <= Len(s)
  PROVE  Tiles(CompactRange(s, a, b), s, a, b)
  <1> DEFINE Size(n) == BlockSize(b - n, b)
             Step(g, n) == <<Block(s, b - n, Size(n))>> \o g[n - Size(n)]
             Is(g, n) == g = [k \in 0..n |-> IF k = 0 THEN <<>> ELSE Step(g, k)]
             T == {n \in Nat : n <= b - a => \E g : Is(g, n)}
  <1>0. Len(s) \in Nat
    BY DEF Logs
  <1>a. ASSUME NEW n \in Nat, 0 < n, n <= b - a
        PROVE  /\ Size(n) \in Powers /\ Divides(Size(n), b - n) /\ b - n \in Nat
               /\ (b - n) + Size(n) <= b /\ n - Size(n) \in Nat /\ n - Size(n) < n
    <2>1. PICK c \in Nat : c = b - n /\ c < b
      BY <1>a
    <2>2. /\ BlockSize(c, b) \in Powers /\ BlockSize(c, b) \in Nat /\ BlockSize(c, b) > 0
          /\ Divides(BlockSize(c, b), c) /\ c + BlockSize(c, b) <= b
      BY <2>1, BlockSizeIs
    <2> QED BY <1>a, <2>1, <2>2
  <1>b. ASSUME NEW n \in Nat, NEW g, NEW h, g[n - Size(n)] = h[n - Size(n)]
        PROVE  Step(g, n) = Step(h, n)
    BY <1>b, Zenon
  <1> HIDE DEF Step, Size
  <1>1. 0 \in T
    <2>1. PICK g : g = [k \in 0..0 |-> <<>>]
      OBVIOUS
    <2>2. Is(g, 0)
      BY <2>1
    <2> QED BY <2>2
  <1>2. ASSUME NEW n \in T PROVE n + 1 \in T
    <2> SUFFICES ASSUME n + 1 <= b - a PROVE \E g : Is(g, n + 1)
      OBVIOUS
    <2>1. PICK g : Is(g, n)
      OBVIOUS
    <2>2. PICK h : h = [k \in 0..n + 1 |-> IF k = n + 1 THEN Step(g, n + 1) ELSE g[k]]
      OBVIOUS
    <2>3. \A k \in 0..n : h[k] = g[k] /\ g[k] = IF k = 0 THEN <<>> ELSE Step(g, k)
      BY <2>1, <2>2
    <2>4. ASSUME NEW k \in 1..n + 1 PROVE Step(g, k) = Step(h, k)
      <3>1. PICK j \in 0..n : j = k - Size(k)
        <4>1. k \in Nat /\ 0 < k /\ k <= b - a
          OBVIOUS
        <4>2. k - Size(k) \in Nat /\ k - Size(k) < k
          BY <1>a, <4>1
        <4> QED BY <4>2
      <3>2. g[j] = h[j]
        BY <2>3
      <3> QED BY <1>b, <3>1, <3>2
    <2>5. \A k \in 0..n + 1 : h[k] = IF k = 0 THEN <<>> ELSE Step(h, k)
      <3> SUFFICES ASSUME NEW k \in 0..n + 1
                   PROVE  h[k] = IF k = 0 THEN <<>> ELSE Step(h, k)
        OBVIOUS
      <3>1. CASE k = n + 1
        <4>1. h[k] = Step(g, k) /\ k \in 1..n + 1
          BY <2>2, <3>1
        <4> QED BY <2>4, <4>1
      <3>2. CASE k = 0
        BY <2>3, <3>2
      <3>3. CASE k \in 1..n
        <4>1. h[k] = Step(g, k)
          BY <2>3, <3>3
        <4> QED BY <2>4, <3>3, <4>1
      <3> QED BY <3>1, <3>2, <3>3
    <2>6. Is(h, n + 1)
      BY <2>2, <2>5
    <2> QED BY <2>6
  <1>3. T = Nat
    <2> HIDE DEF T
    <2>1. T \in SUBSET Nat
      BY DEF T
    <2> QED BY <1>1, <1>2, <2>1, Induction
  <1>4. PICK w \in Nat : w = b - a
    OBVIOUS
  <1>5. \E g : Is(g, w)
    <2> HIDE DEF T, Is
    <2>1. w \in T /\ w <= b - a
      BY <1>3, <1>4
    <2> USE DEF T
    <2> QED BY <2>1, Zenon
  <1>6. PICK g : Is(g, w) /\ CompactRange(s, a, b) = g[w]
    <2>1. CompactRange(s, a, b) = (CHOOSE g : Is(g, w))[w]
      BY <1>4, Zenon DEF CompactRange, Step, Size
    <2>2. Is((CHOOSE g : Is(g, w)), w)
      BY <1>5
    <2> QED BY <2>1, <2>2
  <1> DEFINE U == {n \in Nat : n <= w => Tiles(g[n], s, b - n, b)}
  <1>7. ASSUME NEW n \in Nat, \A m \in Nat : m < n => m \in U PROVE n \in U
    <2> SUFFICES ASSUME n <= w PROVE Tiles(g[n], s, b - n, b)
      OBVIOUS
    <2>1. CASE n = 0
      <3>1. g[n] = <<>> /\ b - n = b
        BY <1>6, <2>1
      <3> QED BY <3>1, TilesNone
    <2>2. CASE n > 0
      <3>1. PICK c \in Nat, z \in Powers, m \in Nat :
              /\ c = b - n /\ z = Size(n) /\ Divides(z, c) /\ c + z <= b /\ m = n - z /\ m < n
        BY <1>4, <1>a, <2>2
      <3>2. g[n] = <<Block(s, c, z)>> \o g[m]
        <4>1. g[n] = Step(g, n)
          BY <1>6, <2>2
        <4> QED BY <3>1, <4>1, Zenon DEF Step
      <3>3. z \in Nat
        BY PowerDoubled
      <3>4. Tiles(g[m], s, c + z, b)
        <4>1. m \in U /\ m <= w /\ b - m = c + z
          BY <1>7, <3>1, <3>3
        <4> QED BY <4>1
      <3>5. Block(s, c, z) \in Blocks(s)
        <4>1. c + z <= Len(s)
          BY <1>0, <3>1, <3>3
        <4> QED BY <3>1, <4>1, BlockIn
      <3>6. Tiles(<<Block(s, c, z)>>, s, c, c + z)
        <4>1. PICK k \in Blocks(s) : k = Block(s, c, z) /\ k.start = c /\ End(k) = c + z
          BY <3>5, BlockHas DEF End
        <4>2. Tiles(<<k>>, s, k.start, End(k))
          BY TilesOne
        <4> QED BY <4>1, <4>2
      <3>7. Tiles(g[n], s, c, b)
        BY <3>2, <3>4, <3>6, TilesJoin
      <3> QED BY <3>1, <3>7
    <2> QED BY <2>1, <2>2
  <1>8. U = Nat
    <2> HIDE DEF U
    <2>1. U \in SUBSET Nat
      BY DEF U
    <2> QED BY <1>7, <2>1, StrongInduction
  <1>9. w \in U /\ b - w = a
    BY <1>4, <1>8
  <1> QED BY <1>6, <1>9

-----------------------------------------------------------------------------
(* root_from_frontier's stack: blocks from 0 on, each aligned to twice its   *)
(* size and smaller than the one before it, the last perhaps excepted.       *)
Aligned(stack, n) == \A i \in 1..n : Divides(2 * stack[i].size, stack[i].start)
Falling(stack, n) == \A i \in 1..n - 1 : stack[i + 1].size < stack[i].size

Settled(stack, s, e) ==
  Tiles(stack, s, 0, e) /\ Aligned(stack, Len(stack)) /\ Falling(stack, Len(stack))

Pushed(stack, s, e) ==
  /\ Tiles(stack, s, 0, e) /\ stack # <<>>
  /\ Aligned(stack, Len(stack) - 1) /\ Falling(stack, Len(stack) - 1)
  /\ Len(stack) > 1 => stack[Len(stack)].size <= stack[Len(stack) - 1].size

LEMMA StackHas ==
  ASSUME NEW s \in Logs, NEW e, NEW x, Tiles(x, s, 0, e)
  PROVE  /\ Len(x) \in Nat /\ x \in Seq(Blocks(s)) /\ (x = <<>> <=> Len(x) = 0)
         /\ \A i \in 1..Len(x) : x[i] \in Blocks(s)
  <1> DEFINE S == Blocks(s)
  <1>1. x \in Seq(S)
    BY DEF Tiles
  <1> HIDE DEF S
  <1>2. Len(x) \in Nat /\ (x = <<>> <=> Len(x) = 0) /\ \A i \in 1..Len(x) : x[i] \in S
    BY <1>1, EmptySeq
  <1> QED BY <1>1, <1>2 DEF S

LEMMA AppendHas ==
  ASSUME NEW S, NEW x \in Seq(S), NEW b \in S
  PROVE  /\ Append(x, b) \in Seq(S) /\ Len(Append(x, b)) = Len(x) + 1 /\ Append(x, b) # <<>>
         /\ \A i \in 1..Len(x) : Append(x, b)[i] = x[i]
         /\ Append(x, b)[Len(x) + 1] = b
  OBVIOUS

\* A block that follows a settled stack is no larger than its last block.
LEMMA BlockPushed ==
  ASSUME NEW s \in Logs, NEW e \in Nat, NEW x, Settled(x, s, e), NEW b \in Blocks(s), b.start = e
  PROVE  Pushed(Append(x, b), s, End(b))
  <1>1. Tiles(x, s, 0, e)
    BY DEF Settled
  <1>2. PICK n \in Nat : n = Len(x) /\ x \in Seq(Blocks(s)) /\ (x = <<>> <=> n = 0)
    BY <1>1, StackHas
  <1>3. PICK y \in Seq(Blocks(s)) :
          /\ y = Append(x, b) /\ Len(y) = n + 1 /\ y # <<>>
          /\ \A i \in 1..n : y[i] = x[i]
          /\ y[n + 1] = b
    <2> DEFINE S == Blocks(s)
    <2>1. x \in Seq(S) /\ b \in S
      BY <1>2
    <2> HIDE DEF S
    <2>2. /\ Append(x, b) \in Seq(S) /\ Len(Append(x, b)) = Len(x) + 1 /\ Append(x, b) # <<>>
          /\ \A i \in 1..Len(x) : Append(x, b)[i] = x[i]
          /\ Append(x, b)[Len(x) + 1] = b
      BY <2>1, AppendHas
    <2> QED BY <1>2, <2>2, Zenon DEF S
  <1>4. Tiles(y, s, 0, End(b))
    <2>1. Tiles(<<b>>, s, e, End(b))
      BY TilesOne
    <2>2. Tiles(x \o <<b>>, s, 0, End(b))
      BY <1>1, <2>1, TilesJoin
    <2>3. x \o <<b>> = Append(x, b)
      BY <1>2
    <2> QED BY <1>3, <2>2, <2>3
  <1>5. Aligned(y, n)
    BY <1>2, <1>3 DEF Settled, Aligned
  <1>6. Falling(y, n)
    <2> SUFFICES ASSUME NEW i \in 1..n - 1 PROVE y[i + 1].size < y[i].size
      BY DEF Falling
    <2>1. y[i + 1] = x[i + 1] /\ y[i] = x[i] /\ i \in 1..Len(x) - 1
      BY <1>2, <1>3
    <2> QED BY <2>1 DEF Settled, Falling
  <1>7. ASSUME n > 0 PROVE b.size <= x[n].size
    <2>1. x[n] \in Blocks(s) /\ x # <<>>
      BY <1>1, <1>2, <1>7, StackHas
    <2>2. PICK q \in Powers, c \in Nat : q = x[n].size /\ c = x[n].start /\ q \in Nat /\ q > 0
      BY <2>1, BlockIs
    <2>3. PICK z \in Powers : z = b.size /\ z \in Nat /\ z > 0 /\ Divides(z, e)
      BY BlockIs
    <2>4. e = c + q
      BY <1>1, <1>2, <2>1, <2>2 DEF Tiles, End
    <2>5. Divides(2 * q, c)
      BY <1>2, <1>7, <2>2 DEF Settled, Aligned
    <2> SUFFICES ASSUME q < z PROVE FALSE
      BY <2>2, <2>3
    <2>6. Divides(2 * q, z)
      BY PowersDivide
    <2>7. Divides(2 * q, c + q)
      <3>1. 2 * q \in Nat
        BY <2>2
      <3>2. Divides(2 * q, e)
        BY <2>3, <2>6, <3>1, DividesTransitive
      <3> QED BY <2>4, <3>2
    <2>8. Divides(2 * q, q)
      <3>1. 2 * q \in Nat /\ 2 * q > 0
        BY <2>2
      <3> QED BY <2>2, <2>5, <2>7, <3>1, DividesRest
    <2>9. 2 * q <= q
      BY <2>2, <2>8, DividesBounds
    <2> QED BY <2>2, <2>9
  <1>8. Len(y) > 1 => y[Len(y)].size <= y[Len(y) - 1].size
    <2>1. n > 0 => y[n + 1] = b /\ y[n] = x[n] /\ Len(y) = n + 1 /\ Len(y) - 1 = n
      BY <1>3
    <2> QED BY <1>3, <1>7, <2>1
  <1>9. Len(y) - 1 = n
    BY <1>3
  <1> QED BY <1>3, <1>4, <1>5, <1>6, <1>8, <1>9 DEF Pushed

\* If the last block is smaller as well, nothing is left to merge.
LEMMA PushedSettles ==
  ASSUME NEW s \in Logs, NEW e \in Nat, NEW x, Pushed(x, s, e),
         Len(x) > 1 => x[Len(x)].size < x[Len(x) - 1].size
  PROVE  Settled(x, s, e)
  <1>1. Tiles(x, s, 0, e)
    BY DEF Pushed
  <1>2. PICK n \in Nat : n = Len(x) /\ n > 0 /\ \A i \in 1..n : x[i] \in Blocks(s)
    BY <1>1, StackHas DEF Pushed
  <1>3. Falling(x, n)
    <2> SUFFICES ASSUME NEW i \in 1..n - 1 PROVE x[i + 1].size < x[i].size
      BY DEF Falling
    <2>1. CASE i = n - 1
      BY <1>2, <2>1
    <2>2. CASE i \in 1..(Len(x) - 1) - 1
      BY <2>2 DEF Pushed, Falling
    <2> QED BY <1>2, <2>1, <2>2
  <1>4. Divides(2 * x[n].size, x[n].start)
    <2>1. x[n] \in Blocks(s)
      BY <1>2
    <2>2. PICK q \in Powers, c \in Nat : q = x[n].size /\ c = x[n].start /\ q \in Nat /\ q > 0
      BY <2>1, BlockIs
    <2>3. CASE n = 1
      <3>1. c = 0
        BY <1>1, <1>2, <2>2, <2>3 DEF Pushed, Tiles
      <3>2. 2 * q \in Nat
        BY <2>2
      <3> QED BY <2>2, <3>1, <3>2, DividesItself
    <2>4. CASE n > 1
      <3>1. PICK m \in 1..n - 1 : m = n - 1 /\ m + 1 = n
        BY <2>4
      <3>2. x[m] \in Blocks(s)
        BY <1>2
      <3>3. PICK p \in Powers, d \in Nat : p = x[m].size /\ d = x[m].start /\ p \in Nat /\ p > 0
        BY <3>2, BlockIs
      <3>4. q < p
        BY <1>2, <2>2, <2>4, <3>1, <3>3
      <3>5. c = d + p
        <4>1. x[m + 1].start = End(x[m])
          BY <1>1, <1>2 DEF Tiles
        <4> QED BY <2>2, <3>1, <3>3, <4>1 DEF End
      <3>6. Divides(2 * p, d)
        BY <1>2, <3>1, <3>3 DEF Pushed, Aligned
      <3>7. Divides(2 * q, p) /\ Divides(p, 2 * p)
        BY <3>3, <3>4, PowersDivide, DividesItself
      <3>8. 2 * q \in Nat /\ 2 * p \in Nat
        <4>1. 2 * q \in Nat
          BY <2>2
        <4>2. 2 * p \in Nat
          BY <3>3
        <4> QED BY <4>1, <4>2
      <3>9. Divides(2 * q, d)
        <4>1. Divides(2 * q, 2 * p)
          BY <3>3, <3>7, <3>8, DividesTransitive
        <4> QED BY <3>6, <3>8, <4>1, DividesTransitive
      <3>10. Divides(2 * q, d + p)
        BY <3>3, <3>7, <3>8, <3>9, DividesSum
      <3> QED BY <2>2, <3>5, <3>10
    <2> QED BY <1>2, <2>3, <2>4
  <1>5. Aligned(x, n)
    <2> SUFFICES ASSUME NEW i \in 1..n PROVE Divides(2 * x[i].size, x[i].start)
      BY DEF Aligned
    <2>1. CASE i = n
      BY <1>4, <2>1
    <2>2. CASE i \in 1..Len(x) - 1
      BY <2>2 DEF Pushed, Aligned
    <2> QED BY <1>2, <2>1, <2>2
  <1> QED BY <1>1, <1>2, <1>3, <1>5 DEF Settled

LEMMA MergeTopMerges ==
  ASSUME NEW s \in Logs, NEW e \in Nat, NEW x, Pushed(x, s, e)
  PROVE  \/ Settled(x, s, e) /\ MergeTop(x) = x
         \/ Pushed(MergeTop(x), s, e) /\ Len(MergeTop(x)) = Len(x) - 1
  <1>1. Tiles(x, s, 0, e)
    BY DEF Pushed
  <1>2. PICK n \in Nat : /\ n = Len(x) /\ n > 0 /\ \A i \in 1..n : x[i] \in Blocks(s)
                         /\ x \in Seq(Blocks(s))
    BY <1>1, StackHas DEF Pushed
  <1>3. CASE n = 1
    <2>1. Settled(x, s, e)
      <3>1. ~ (Len(x) > 1)
        BY <1>2, <1>3
      <3> QED BY <3>1, PushedSettles, Zenon
    <2>2. MergeTop(x) = x
      BY <1>2, <1>3 DEF MergeTop
    <2> QED BY <2>1, <2>2
  <1>4. CASE n > 1
    <2>1. PICK m \in 1..n - 1 : m = n - 1 /\ m + 1 = n /\ m \in 1..n
      BY <1>4
    <2>2. PICK l \in Blocks(s), r \in Blocks(s) : l = x[m] /\ r = x[n]
      BY <1>2, <2>1
    <2>3. /\ l.size \in Nat /\ l.size > 0 /\ l.size \in Powers /\ l.start \in Nat
          /\ r.size \in Nat /\ r.size > 0 /\ r.size \in Powers /\ r.start \in Nat
      BY BlockIs
    <2>4. r.start = l.start + l.size /\ Divides(2 * l.size, l.start)
      <3>1. x[m + 1].start = End(x[m])
        BY <1>1, <1>2 DEF Tiles
      <3>2. Divides(2 * x[m].size, x[m].start)
        BY <1>2, <2>1 DEF Pushed, Aligned
      <3> QED BY <2>1, <2>2, <3>1, <3>2 DEF End
    <2>5. r.size <= l.size
      BY <1>2, <1>4, <2>1, <2>2 DEF Pushed
    <2>6. CASE r.size # l.size
      <3>1. r.size < l.size
        BY <2>3, <2>5, <2>6
      <3>2. Settled(x, s, e)
        BY <1>2, <2>1, <2>2, <3>1, PushedSettles
      <3>3. MergeTop(x) = x
        BY <1>2, <2>1, <2>2, <2>6 DEF MergeTop
      <3> QED BY <3>2, <3>3
    <2>7. CASE r.size = l.size
      <3> DEFINE b == Block(s, l.start, 2 * l.size)
      <3>1. b \in Blocks(s)
            /\ b = [start |-> l.start, size |-> l.size * 2, hash |-> HashChildren(l.hash, r.hash)]
        BY <2>4, <2>7, BlocksMerge
      <3>2. b.start = l.start /\ b.size = 2 * l.size
        BY BlockHas
      <3> HIDE DEF b
      <3>3. l.start % (l.size * 2) = 0
        <4>1. PICK d \in Nat : d = 2 * l.size /\ d > 0 /\ l.size * 2 = d
          BY <2>3
        <4>2. l.start % d = 0
          BY <2>3, <2>4, <4>1, Divided
        <4> QED BY <4>1, <4>2
      <3>4. MergeTop(x) = Append(SubSeq(x, 1, n - 2), b)
        <4>1. /\ x[Len(x) - 1] = l /\ x[Len(x)] = r /\ ~ (Len(x) < 2) /\ Len(x) - 2 = n - 2
              /\ l.start + l.size = r.start
          BY <1>2, <1>4, <2>1, <2>2, <2>4
        <4> QED BY <2>7, <3>1, <3>3, <4>1, Zenon DEF MergeTop
      <3>5. PICK k \in Nat : k = n - 2
        BY <1>4
      <3>6. PICK y \in Seq(Blocks(s)) :
              y = SubSeq(x, 1, n - 2) /\ Len(y) = k /\ \A i \in 1..k : y[i] = x[i]
        <4> DEFINE S == Blocks(s)
        <4>1. x \in Seq(S) /\ Len(x) = n
          BY <1>2
        <4> HIDE DEF S
        <4>2. k <= Len(x) /\ SubSeq(x, 1, k) = [i \in 1..k |-> x[i]]
          BY <3>5, <4>1
        <4>3. \A i \in 1..k : x[i] \in S
          BY <3>5, <4>1
        <4>4. [i \in 1..k |-> x[i]] \in Seq(S) /\ Len([i \in 1..k |-> x[i]]) = k
          BY <4>3
        <4> QED BY <3>5, <4>2, <4>4 DEF S
      <3>7. PICK z \in Seq(Blocks(s)) :
              /\ z = MergeTop(x) /\ Len(z) = k + 1 /\ z # <<>> /\ z[k + 1] = b
              /\ \A i \in 1..k : z[i] = x[i]
        <4> DEFINE S == Blocks(s)
        <4>1. y \in Seq(S) /\ b \in S
          BY <3>1, <3>6
        <4> HIDE DEF S
        <4>2. /\ Append(y, b) \in Seq(S) /\ Len(Append(y, b)) = k + 1 /\ Append(y, b) # <<>>
              /\ \A i \in 1..k : Append(y, b)[i] = y[i]
              /\ Append(y, b)[k + 1] = b
          BY <3>6, <4>1, AppendHas
        <4>3. \A i \in 1..k : Append(y, b)[i] = x[i]
          BY <3>6, <4>2
        <4> QED BY <3>4, <3>6, <4>2, <4>3 DEF S
      <3>8. m = k + 1
        BY <2>1, <3>5
      <3>9. Tiles(z, s, 0, e)
        <4>1. z[1].start = 0
          <5>1. x[1].start = 0
            BY <1>1, <1>2 DEF Pushed, Tiles
          <5>2. CASE k = 0
            BY <2>2, <3>2, <3>7, <3>8, <5>1, <5>2
          <5>3. CASE k > 0
            BY <3>7, <5>1, <5>3
          <5> QED BY <5>2, <5>3
        <4>2. End(z[k + 1]) = e
          <5>1. End(x[n]) = e
            BY <1>1, <1>2 DEF Pushed, Tiles
          <5>2. r.start + r.size = e
            BY <2>2, <5>1 DEF End
          <5>3. b.start + b.size = r.start + r.size
            BY <2>3, <2>4, <2>7, <3>2
          <5> QED BY <3>7, <5>2, <5>3 DEF End
        <4>3. ASSUME NEW i \in 1..k PROVE z[i + 1].start = End(z[i])
          <5>1. i \in 1..Len(x) - 1
            BY <1>2, <3>5
          <5>2. x[i + 1].start = End(x[i])
            BY <1>1, <5>1 DEF Tiles
          <5>3. z[i] = x[i]
            BY <3>7
          <5>4. z[i + 1].start = x[i + 1].start
            <6>1. CASE i = k
              BY <2>2, <3>2, <3>7, <3>8, <6>1
            <6>2. CASE i < k
              <7>1. i + 1 \in 1..k
                BY <6>2
              <7> QED BY <3>7, <7>1
            <6> QED BY <6>1, <6>2
          <5> QED BY <5>2, <5>3, <5>4
        <4>4. Len(z) - 1 = k
          BY <3>7
        <4> QED BY <3>7, <4>1, <4>2, <4>3, <4>4 DEF Tiles
      <3>10. Aligned(z, k)
        <4> SUFFICES ASSUME NEW i \in 1..k PROVE Divides(2 * z[i].size, z[i].start)
          BY DEF Aligned
        <4>1. z[i] = x[i] /\ i \in 1..Len(x) - 1
          BY <1>2, <3>5, <3>7
        <4> QED BY <4>1 DEF Pushed, Aligned
      <3>11. Falling(z, k)
        <4> SUFFICES ASSUME NEW i \in 1..k - 1 PROVE z[i + 1].size < z[i].size
          BY DEF Falling
        <4>1. i \in 1..k /\ i + 1 \in 1..k /\ i \in 1..(Len(x) - 1) - 1
          BY <1>2, <3>5
        <4>2. z[i] = x[i] /\ z[i + 1] = x[i + 1]
          BY <3>7, <4>1
        <4> QED BY <4>1, <4>2 DEF Pushed, Falling
      <3>12. k > 0 => z[k + 1].size <= z[k].size
        <4> SUFFICES ASSUME k > 0 PROVE b.size <= x[k].size
          BY <3>7
        <4>1. x[k] \in Blocks(s) /\ k \in 1..(Len(x) - 1) - 1
          BY <1>2, <3>5
        <4>2. x[k + 1].size < x[k].size
          BY <4>1 DEF Pushed, Falling
        <4>3. l.size < x[k].size /\ x[k].size \in Powers
          BY <2>2, <3>8, <4>1, <4>2, BlockIs
        <4>4. 2 * l.size <= x[k].size
          BY <2>3, <4>3, PowersDivide
        <4> QED BY <3>2, <4>4
      <3>13. Len(z) - 1 = k /\ Len(z) = k + 1 /\ k + 1 = n - 1
        BY <3>5, <3>7
      <3>14. Pushed(z, s, e)
        <4>1. Len(z) > 1 => z[Len(z)].size <= z[Len(z) - 1].size
          BY <3>12, <3>13
        <4> QED BY <3>7, <3>9, <3>10, <3>11, <3>13, <4>1 DEF Pushed
      <3> QED BY <1>2, <3>7, <3>13, <3>14
    <2> QED BY <2>6, <2>7
  <1> QED BY <1>2, <1>3, <1>4

\* The inner loop settles the stack.
LEMMA MergedSettles ==
  ASSUME NEW s \in Logs, NEW e \in Nat, NEW x, Pushed(x, s, e)
  PROVE  Settled(Merged(x), s, e) /\ Merged(x) # <<>>
  <1> DEFINE Is(g, n) == g = [k \in 0..n |-> IF k = 0 THEN x ELSE MergeTop(g[k - 1])]
             T == {n \in Nat : \E g : Is(g, n)}
  <1>1. 0 \in T
    <2>1. PICK g : g = [k \in 0..0 |-> x]
      OBVIOUS
    <2>2. Is(g, 0)
      BY <2>1
    <2> QED BY <2>2
  <1>2. ASSUME NEW n \in T PROVE n + 1 \in T
    <2>1. PICK g : Is(g, n)
      OBVIOUS
    <2>2. PICK h : h = [k \in 0..n + 1 |-> IF k = n + 1 THEN MergeTop(g[n]) ELSE g[k]]
      OBVIOUS
    <2>3. Is(h, n + 1) /\ n + 1 \in Nat
      BY <2>1, <2>2
    <2> QED BY <2>3
  <1>3. T = Nat
    <2> HIDE DEF T
    <2>1. T \in SUBSET Nat
      BY DEF T
    <2> QED BY <1>1, <1>2, <2>1, Induction
  <1>4. PICK m \in Nat : m = Len(x)
    BY StackHas DEF Pushed
  <1>5. PICK g : Is(g, m) /\ Merged(x) = g[m]
    <2>1. Merged(x) = (CHOOSE g : Is(g, m))[m]
      BY <1>4, Zenon DEF Merged
    <2>2. Is((CHOOSE g : Is(g, m)), m)
      BY <1>3
    <2> QED BY <2>1, <2>2
  <1> DEFINE Good(n) == /\ Pushed(g[n], s, e)
                        /\ Settled(g[n], s, e) \/ Len(g[n]) + n <= m
             U == {n \in Nat : n <= m => Good(n)}
  <1>6. 0 \in U
    BY <1>4, <1>5
  <1>7. ASSUME NEW n \in U PROVE n + 1 \in U
    <2>0. n \in Nat /\ n + 1 \in Nat
      OBVIOUS
    <2> SUFFICES ASSUME n + 1 <= m PROVE Good(n + 1)
      BY <2>0, Zenon
    <2>1. Good(n)
      OBVIOUS
    <2>2. g[n + 1] = MergeTop(g[n])
      <3>1. PICK k \in 0..m : k = n + 1 /\ k # 0 /\ k - 1 = n
        BY <2>0
      <3>2. g[k] = MergeTop(g[k - 1])
        BY <1>5, <3>1
      <3> QED BY <3>1, <3>2
    <2>3. PICK y : y = g[n]
      OBVIOUS
    <2>4. PICK z : z = g[n + 1] /\ z = MergeTop(y)
      BY <2>2, <2>3
    <2>5. Pushed(y, s, e) /\ (Settled(y, s, e) \/ Len(y) + n <= m)
      BY <2>1, <2>3
    <2>6. \/ Settled(y, s, e) /\ z = y
          \/ Pushed(z, s, e) /\ Len(z) = Len(y) - 1
      BY <2>4, <2>5, MergeTopMerges, Zenon
    <2>7. CASE Settled(y, s, e)
      <3>1. Settled(y, s, e) /\ z = y
        <4>1. CASE Len(y) < 2
          BY <2>4, <2>7, <4>1 DEF MergeTop
        <4>2. CASE ~ (Len(y) < 2)
          <5>1. Tiles(y, s, 0, e)
            BY <2>7 DEF Settled
          <5>2. PICK j \in Nat : j = Len(y) /\ \A i \in 1..j : y[i] \in Blocks(s)
            BY <5>1, StackHas
          <5>3. y[j] \in Blocks(s) /\ y[j - 1] \in Blocks(s) /\ j - 1 \in 1..j - 1
            BY <4>2, <5>2
          <5>4. y[(j - 1) + 1].size < y[j - 1].size
            BY <2>7, <5>2, <5>3 DEF Settled, Falling
          <5>5. y[j].size # y[j - 1].size
            <6>1. (j - 1) + 1 = j
              OBVIOUS
            <6>2. y[j].size \in Nat /\ y[j - 1].size \in Nat
              BY <5>3, BlockIs
            <6> QED BY <5>4, <6>1, <6>2
          <5> QED BY <2>4, <2>7, <5>2, <5>5 DEF MergeTop
        <4> QED BY <4>1, <4>2
      <3> QED BY <2>4, <2>5, <3>1
    <2>8. CASE ~ Settled(y, s, e)
      <3>1. Pushed(z, s, e) /\ Len(z) = Len(y) - 1 /\ Len(y) + n <= m
        BY <2>5, <2>6, <2>8
      <3>2. Len(y) \in Nat
        BY <2>5, StackHas DEF Pushed
      <3>3. Len(z) + (n + 1) <= m
        BY <3>1, <3>2
      <3> QED BY <2>4, <3>1, <3>3
    <2> QED BY <2>7, <2>8
  <1>8. U = Nat
    <2> HIDE DEF U
    <2>1. U \in SUBSET Nat
      BY DEF U
    <2> QED BY <1>6, <1>7, <2>1, Induction
  <1>9. Good(m)
    BY <1>8
  <1>10. PICK y : y = Merged(x) /\ Pushed(y, s, e) /\ (Settled(y, s, e) \/ Len(y) + m <= m)
    BY <1>5, <1>9
  <1>11. Len(y) \in Nat /\ Len(y) # 0
    BY <1>10, StackHas DEF Pushed
  <1> QED BY <1>10, <1>11 DEF Pushed

\* The outer loop does so for everything pushed so far.
LEMMA StackedSettles ==
  ASSUME NEW s \in Logs, NEW e \in Nat, NEW nodes, Tiles(nodes, s, 0, e), nodes # <<>>
  PROVE  Settled(Stacked(nodes), s, e) /\ Stacked(nodes) # <<>>
  <1> DEFINE Push(y, n) == Merged(Append(y, nodes[n]))
             Is(g, n) == g = [k \in 0..n |-> IF k = 0 THEN <<>> ELSE Push(g[k - 1], k)]
             T == {n \in Nat : \E g : Is(g, n)}
  <1>1. 0 \in T
    <2>1. PICK g : g = [k \in 0..0 |-> <<>>]
      OBVIOUS
    <2>2. Is(g, 0)
      BY <2>1
    <2> QED BY <2>2
  <1>2. ASSUME NEW n \in T PROVE n + 1 \in T
    <2> HIDE DEF Push
    <2>1. PICK g : Is(g, n)
      OBVIOUS
    <2>2. PICK h : h = [k \in 0..n + 1 |-> IF k = n + 1 THEN Push(g[n], n + 1) ELSE g[k]]
      OBVIOUS
    <2>3. Is(h, n + 1) /\ n + 1 \in Nat
      BY <2>1, <2>2
    <2> QED BY <2>3
  <1>3. T = Nat
    <2> HIDE DEF T
    <2>1. T \in SUBSET Nat
      BY DEF T
    <2> QED BY <1>1, <1>2, <2>1, Induction
  <1>4. PICK m \in Nat : m = Len(nodes) /\ m > 0 /\ \A i \in 1..m : nodes[i] \in Blocks(s)
    BY StackHas
  <1>5. PICK g : Is(g, m) /\ Stacked(nodes) = g[m]
    <2>1. Stacked(nodes) = (CHOOSE g : Is(g, m))[m]
      BY <1>4, Zenon DEF Stacked
    <2>2. Is((CHOOSE g : Is(g, m)), m)
      BY <1>3
    <2> QED BY <2>1, <2>2
  <1> HIDE DEF Push
  <1> DEFINE End_(n) == IF n = 0 THEN 0 ELSE End(nodes[n])
             Good(n) == Settled(g[n], s, End_(n)) /\ (n > 0 => g[n] # <<>>)
             U == {n \in Nat : n <= m => Good(n)}
  <1>6. \A n \in 0..m : End_(n) \in Nat
    <2>1. \A n \in 1..m : End(nodes[n]) \in Nat
      BY <1>4, BlockIs DEF End
    <2> QED BY <2>1
  <1>7. 0 \in U
    <2>1. g[0] = <<>>
      BY <1>5
    <2>2. Tiles(<<>>, s, 0, 0)
      BY TilesNone
    <2>3. Aligned(<<>>, Len(<<>>)) /\ Falling(<<>>, Len(<<>>))
      <3>1. Len(<<>>) = 0
        BY EmptySeq
      <3> QED BY <3>1 DEF Aligned, Falling
    <2> QED BY <2>1, <2>2, <2>3 DEF Settled
  <1>8. ASSUME NEW n \in U PROVE n + 1 \in U
    <2>0. n \in Nat /\ n + 1 \in Nat
      OBVIOUS
    <2> SUFFICES ASSUME n + 1 <= m PROVE Good(n + 1)
      BY <2>0, Zenon
    <2>1. PICK x : x = g[n]
      OBVIOUS
    <2>2. PICK c \in Nat : c = End_(n) /\ Settled(x, s, c)
      BY <1>6, <2>1
    <2>3. PICK b \in Blocks(s) : b = nodes[n + 1]
      BY <1>4
    <2>4. b.start = c
      <3>1. CASE n = 0
        BY <2>2, <2>3, <3>1 DEF Tiles
      <3>2. CASE n > 0
        <4>1. n \in 1..Len(nodes) - 1
          BY <1>4, <3>2
        <4>2. nodes[n + 1].start = End(nodes[n])
          BY <4>1 DEF Tiles
        <4> QED BY <2>2, <2>3, <3>2, <4>2
      <3> QED BY <3>1, <3>2
    <2>5. PICK y : y = Append(x, b) /\ Pushed(y, s, End(b))
      BY <2>2, <2>4, BlockPushed
    <2>6. End(b) \in Nat
      BY BlockIs DEF End
    <2>7. Settled(Merged(y), s, End(b)) /\ Merged(y) # <<>>
      BY <2>5, <2>6, MergedSettles
    <2>8. g[n + 1] = Merged(y)
      <3>1. g[n + 1] = Push(g[n], n + 1)
        BY <1>5
      <3> QED BY <2>1, <2>3, <2>5, <3>1, Zenon DEF Push
    <2>9. End_(n + 1) = End(b)
      BY <2>3
    <2> QED BY <2>7, <2>8, <2>9, Zenon
  <1>9. U = Nat
    <2> HIDE DEF U
    <2>1. U \in SUBSET Nat
      BY DEF U
    <2> QED BY <1>7, <1>8, <2>1, Induction
  <1>10. Good(m)
    BY <1>9
  <1>11. End_(m) = e
    BY <1>4 DEF Tiles
  <1> QED BY <1>4, <1>5, <1>10, <1>11, Zenon

\* What a settled stack is folded to is the root of all it covers.
LEMMA FoldedRoot ==
  ASSUME NEW s \in Logs, NEW e \in Nat, NEW x, Settled(x, s, e), x # <<>>
  PROVE  Folded(x) = SegmentRoot(s, 0, e)
  <1> DEFINE Join(n, r) == HashChildren(x[Len(x) - n + 1].hash, r)
             Is(g, n) == g = [k \in 1..n |-> IF k = 1 THEN x[Len(x)].hash ELSE Join(k, g[k - 1])]
             T == {n \in Nat : \E g : Is(g, n)}
  <1>1. 0 \in T
    <2>1. PICK g : g = [k \in 1..0 |-> <<>>]
      OBVIOUS
    <2>2. Is(g, 0)
      BY <2>1
    <2> QED BY <2>2
  <1>2. ASSUME NEW n \in T PROVE n + 1 \in T
    <2> HIDE DEF Join
    <2>1. PICK g : Is(g, n)
      OBVIOUS
    <2>2. PICK h : h = [k \in 1..n + 1 |->
                          IF k = n + 1 THEN IF k = 1 THEN x[Len(x)].hash ELSE Join(k, g[n])
                          ELSE g[k]]
      OBVIOUS
    <2>3. Is(h, n + 1) /\ n + 1 \in Nat
      BY <2>1, <2>2
    <2> QED BY <2>3
  <1>3. T = Nat
    <2> HIDE DEF T
    <2>1. T \in SUBSET Nat
      BY DEF T
    <2> QED BY <1>1, <1>2, <2>1, Induction
  <1>t. Tiles(x, s, 0, e)
    BY DEF Settled
  <1>4. PICK m \in Nat : m = Len(x) /\ m > 0 /\ \A i \in 1..m : x[i] \in Blocks(s)
    BY <1>t, StackHas
  <1>5. PICK g : Is(g, m) /\ Folded(x) = g[m]
    <2>1. Folded(x) = (CHOOSE g : Is(g, m))[m]
      BY <1>4, Zenon DEF Folded
    <2>2. Is((CHOOSE g : Is(g, m)), m)
      BY <1>3
    <2> QED BY <2>1, <2>2
  <1> HIDE DEF Join
  <1>6. End(x[m]) = e /\ x[1].start = 0
    BY <1>t, <1>4 DEF Tiles
  <1>l. e <= Len(s)
    <2>1. x[m] \in Blocks(s)
      BY <1>4
    <2> QED BY <1>6, <2>1, BlockIs DEF End
  <1> DEFINE Good(n) == LET b == x[(m - n) + 1] IN
                        /\ g[n] = SegmentRoot(s, b.start, e)
                        /\ b.start < e /\ e - b.start < 2 * b.size
             U == {n \in Nat : n < m => Good(n + 1)}
  <1>7. 0 \in U
    <2>1. PICK b \in Blocks(s) : b = x[m]
      BY <1>4
    <2>2. (m - (0 + 1)) + 1 = m /\ 0 + 1 = 1
      OBVIOUS
    <2>3. g[1] = b.hash
      BY <1>4, <1>5, <2>1
    <2>4. b.start + b.size = e
      BY <1>6, <2>1 DEF End
    <2>5. b.hash = SegmentRoot(s, b.start, e)
      BY <2>4, BlockIs
    <2>6. b.start < e /\ e - b.start < 2 * b.size
      BY <2>4, BlockIs
    <2>7. Good(0 + 1)
      BY <2>1, <2>2, <2>3, <2>5, <2>6
    <2> QED BY <2>7
  <1>8. ASSUME NEW n \in U PROVE n + 1 \in U
    <2>0. n \in Nat /\ n + 1 \in Nat
      OBVIOUS
    <2> SUFFICES ASSUME n + 1 < m PROVE Good((n + 1) + 1)
      BY <2>0, Zenon
    <2>1. PICK i \in 1..m - 1 : /\ i = (m - ((n + 1) + 1)) + 1 /\ i + 1 = (m - (n + 1)) + 1
                                /\ i = (m - ((n + 1) + 1)) + 1
      BY <2>0
    <2>2. PICK b \in Blocks(s), c \in Blocks(s) : b = x[i] /\ c = x[i + 1]
      BY <1>4
    <2>3. g[n + 1] = SegmentRoot(s, c.start, e) /\ c.start < e /\ e - c.start < 2 * c.size
      BY <2>1, <2>2
    <2>4. PICK q \in Powers, d \in Nat : q = b.size /\ d = b.start /\ q \in Nat /\ q > 0
      BY BlockIs
    <2>5. PICK p \in Powers : p = c.size /\ p \in Nat /\ p > 0
      BY BlockIs
    <2>6. c.start = d + q
      <3>1. x[i + 1].start = End(x[i])
        BY <1>t, <1>4 DEF Tiles
      <3> QED BY <2>2, <2>4, <3>1 DEF End
    <2>7. 2 * p <= q
      <3>1. x[i + 1].size < x[i].size
        BY <1>4 DEF Settled, Falling
      <3> QED BY <2>2, <2>4, <2>5, <3>1, PowersDivide
    <2>8. d + q < e /\ e <= d + 2 * q /\ d < e /\ e - d < 2 * q
      <3>1. d + q < e /\ e - (d + q) < 2 * p
        BY <2>3, <2>5, <2>6
      <3>2. q \in Nat /\ q > 0 /\ p \in Nat
        BY <2>4, <2>5
      <3>3. e - (d + q) < q
        BY <2>7, <3>1, <3>2
      <3> QED BY <3>1, <3>2, <3>3
    <2>9. SegmentRoot(s, d, e) = HashChildren(SegmentRoot(s, d, d + q), SegmentRoot(s, d + q, e))
      BY <1>l, <2>8, SegmentSplit
    <2>10. b.hash = SegmentRoot(s, d, d + q)
      BY <2>4, BlockIs, Zenon
    <2>11. g[(n + 1) + 1] = HashChildren(b.hash, g[n + 1])
      <3>1. g[(n + 1) + 1] = Join((n + 1) + 1, g[((n + 1) + 1) - 1])
        <4>1. PICK k \in 1..m : k = (n + 1) + 1 /\ k # 1
          BY <2>0
        <4>2. g[k] = Join(k, g[k - 1])
          BY <1>5, <4>1
        <4> QED BY <4>1, <4>2
      <3>2. ((n + 1) + 1) - 1 = n + 1 /\ Len(x) - ((n + 1) + 1) + 1 = i
        BY <1>4, <2>0, <2>1
      <3> QED BY <2>2, <3>1, <3>2, Zenon DEF Join
    <2>12. g[(n + 1) + 1] = SegmentRoot(s, d, e)
      BY <2>3, <2>6, <2>9, <2>10, <2>11, Zenon
    <2>13. b.start < e /\ e - b.start < 2 * b.size /\ g[(n + 1) + 1] = SegmentRoot(s, b.start, e)
      BY <2>4, <2>8, <2>12
    <2> QED BY <2>1, <2>2, <2>13, Zenon
  <1>9. U = Nat
    <2> HIDE DEF U
    <2>1. U \in SUBSET Nat
      BY DEF U
    <2> QED BY <1>7, <1>8, <2>1, Induction
  <1>10. PICK k \in Nat : k < m /\ k + 1 = m
    <2>1. m - 1 \in Nat /\ m - 1 < m /\ (m - 1) + 1 = m
      BY <1>4
    <2> QED BY <2>1
  <1>11. Good(k + 1)
    BY <1>9, <1>10
  <1>12. (m - (k + 1)) + 1 = 1
    BY <1>10
  <1>13. g[m] = SegmentRoot(s, x[1].start, e)
    BY <1>10, <1>11, <1>12, Zenon
  <1> QED BY <1>5, <1>6, <1>13, Zenon

\* root_from_frontier: blocks that cover a log's first e events have its root.
LEMMA FrontierRoot ==
  ASSUME NEW s \in Logs, NEW e \in Nat, NEW nodes, Tiles(nodes, s, 0, e)
  PROVE  RootFromFrontier(nodes, e) = SegmentRoot(s, 0, e)
  <1> DEFINE ends == [i \in 0..Len(nodes) |->
                        IF i = 0 THEN 0 ELSE nodes[i].start + nodes[i].size]
  <1>1. PICK m \in Nat : m = Len(nodes) /\ (nodes = <<>> <=> m = 0)
                         /\ \A i \in 1..m : nodes[i] \in Blocks(s)
    BY StackHas
  <1>2. ends[0] = 0 /\ \A i \in 1..m : ends[i] = End(nodes[i])
    BY <1>1 DEF End
  <1>3. ends[m] = e
    <2>1. CASE m = 0
      BY <1>1, <1>2, <2>1 DEF Tiles
    <2>2. CASE m > 0
      <3>1. nodes # <<>> /\ m \in 1..m
        BY <1>1, <2>2
      <3>2. End(nodes[m]) = e
        BY <1>1, <3>1, Zenon DEF Tiles
      <3>3. ends[m] = End(nodes[m])
        BY <1>2, <3>1, Zenon
      <3> QED BY <3>2, <3>3, Zenon
    <2> QED BY <2>1, <2>2
  <1>4. ASSUME NEW i \in 1..m PROVE nodes[i].start = ends[i - 1] /\ IsPower(nodes[i].size)
    <2>1. IsPower(nodes[i].size)
      BY <1>1, BlockIs DEF Powers
    <2>2. CASE i = 1
      BY <1>1, <1>2, <2>1, <2>2 DEF Tiles
    <2>3. CASE i > 1
      <3>1. PICK j \in 1..m - 1 : j = i - 1 /\ j + 1 = i
        BY <2>3
      <3>2. nodes[j + 1].start = End(nodes[j])
        BY <1>1 DEF Tiles
      <3>3. ends[i - 1] = End(nodes[j])
        BY <1>2, <3>1
      <3> QED BY <2>1, <3>1, <3>2, <3>3
    <2> QED BY <2>2, <2>3
  <1>5. RootFromFrontier(nodes, e) = IF nodes = <<>> THEN EmptyRoot ELSE Folded(Stacked(nodes))
    <2> HIDE DEF ends
    <2>1. ~ (\/ \E i \in 1..Len(nodes) : nodes[i].start # ends[i - 1] \/ ~ IsPower(nodes[i].size)
             \/ ends[Len(nodes)] # e)
      BY <1>1, <1>3, <1>4
    <2> QED BY <2>1, Zenon DEF RootFromFrontier, ends
  <1>6. CASE nodes = <<>>
    <2>1. e = 0
      BY <1>6 DEF Tiles
    <2>2. PICK t \in Logs : t = SubSeq(s, 0 + 1, 0) /\ Len(t) = 0
      <3>1. PICK z \in Nat : z = 0 /\ z <= z /\ z <= Len(s) /\ z - z = 0
        BY DEF Logs
      <3>2. SubSeq(s, z + 1, z) \in Logs /\ Len(SubSeq(s, z + 1, z)) = z - z
        BY <3>1, Segment, Zenon
      <3> QED BY <3>1, <3>2
    <2>3. t = <<>>
      BY <2>2 DEF Logs
    <2>4. SubtreeRoot[t] = EmptyRoot
      BY <2>3, RootOf, Zenon
    <2> QED BY <1>5, <1>6, <2>1, <2>2, <2>4, Zenon DEF SegmentRoot
  <1>7. CASE nodes # <<>>
    <2>1. Settled(Stacked(nodes), s, e) /\ Stacked(nodes) # <<>>
      BY <1>7, StackedSettles
    <2>2. Folded(Stacked(nodes)) = SegmentRoot(s, 0, e)
      BY <2>1, FoldedRoot
    <2> QED BY <1>5, <1>7, <2>2, Zenon
  <1> QED BY <1>6, <1>7

\* A log's proof for a size verifies against exactly the root of that size.
LEMMA ConsistencyVerifies ==
  ASSUME NEW s \in Logs, NEW n \in 0..Len(s), NEW root
  PROVE  VerifiesConsistency(ConsistencyProof(s, n), root, SubtreeRoot[s])
           <=> root = SubtreeRoot[SubSeq(s, 1, n)]
  <1> DEFINE proof == ConsistencyProof(s, n)
  <1>1. PICK m \in Nat : m = Len(s) /\ n \in Nat /\ n <= m /\ SubSeq(s, 1, m) = s
    BY SegmentWhole
  <1>2. Tiles(CompactRange(s, 0, n), s, 0, n) /\ Tiles(CompactRange(s, n, m), s, n, m)
    <2>1. 0 \in Nat /\ 0 <= n
      BY <1>1
    <2>2. n <= Len(s) /\ m <= Len(s)
      BY <1>1
    <2> QED BY <1>1, <2>1, <2>2, CompactRangeTiles
  <1>3. /\ proof.from_size = n /\ proof.to_size = m /\ proof.prefix = CompactRange(s, 0, n)
        /\ proof.suffix = CompactRange(s, n, m)
    BY <1>1 DEF ConsistencyProof
  <1> HIDE DEF proof
  <1>4. RootFromFrontier(proof.prefix, n) = SegmentRoot(s, 0, n)
    BY <1>1, <1>2, <1>3, FrontierRoot
  <1>5. Tiles(proof.prefix \o proof.suffix, s, 0, m)
    BY <1>2, <1>3, TilesJoin
  <1>6. RootFromFrontier(proof.prefix \o proof.suffix, m) = SegmentRoot(s, 0, m)
    BY <1>5, FrontierRoot
  <1>7. SegmentRoot(s, 0, n) = SubtreeRoot[SubSeq(s, 1, n)] /\ SegmentRoot(s, 0, m) = SubtreeRoot[s]
    <2>1. 0 + 1 = 1
      OBVIOUS
    <2> QED BY <1>1, <2>1, Zenon DEF SegmentRoot
  <1>8. VerifiesConsistency(proof, root, SubtreeRoot[s]) <=> root = SubtreeRoot[SubSeq(s, 1, n)]
    BY <1>1, <1>3, <1>4, <1>6, <1>7 DEF VerifiesConsistency
  <1> QED BY <1>8 DEF proof

-----------------------------------------------------------------------------
(* inclusion_path and verify_merkle_inclusion.                               *)
\* InclusionPath's definition defines it.
LEMMA InclusionPathIs ==
  InclusionPath = [s \in Logs |-> [index \in 0..Len(s) - 1 |->
    IF Len(s) <= 1 THEN <<>>
    ELSE IF index < SplitPoint(Len(s))
         THEN Append(InclusionPath[Left(s)][index], SubtreeRoot[Right(s)])
         ELSE Append(InclusionPath[Right(s)][index - SplitPoint(Len(s))], SubtreeRoot[Left(s)])]]
  <1> DEFINE Step(g, s) == [index \in 0..Len(s) - 1 |->
                IF Len(s) <= 1 THEN <<>>
                ELSE IF index < SplitPoint(Len(s))
                     THEN Append(g[Left(s)][index], SubtreeRoot[Right(s)])
                     ELSE Append(g[Right(s)][index - SplitPoint(Len(s))], SubtreeRoot[Left(s)])]
             Upto(n) == {s \in Logs : Len(s) <= n}
             Is(g, n) == g = [s \in Upto(n) |-> Step(g, s)]
             T == {n \in Nat : \E g : Is(g, n)}
  <1>a. \A s \in Logs : Len(s) \in Nat
    BY DEF Logs
  <1>b. ASSUME NEW s \in Logs, NEW g, NEW h,
               Len(s) > 1 => g[Left(s)] = h[Left(s)] /\ g[Right(s)] = h[Right(s)]
        PROVE  Step(g, s) = Step(h, s)
    <2>1. CASE Len(s) <= 1
      BY <2>1, Zenon
    <2>2. CASE Len(s) > 1
      BY <1>b, <2>2, Zenon
    <2>3. PICK n \in Nat : n = Len(s)
      BY <1>a, Zenon
    <2>4. n <= 1 \/ n > 1
      OBVIOUS
    <2> QED BY <2>1, <2>2, <2>3, <2>4, Zenon
  <1>c. \A s \in Logs : Len(s) > 1 => /\ Left(s) \in Logs /\ Len(Left(s)) < Len(s)
                                      /\ Right(s) \in Logs /\ Len(Right(s)) < Len(s)
    BY Halved
  <1> HIDE DEF Step
  <1>1. 0 \in T
    <2>1. PICK g : g = [s \in Upto(0) |-> Step(<<>>, s)]
      OBVIOUS
    <2>2. \A s \in Upto(0) : Step(<<>>, s) = Step(g, s)
      BY <1>a, <1>b
    <2>3. Is(g, 0)
      BY <2>1, <2>2
    <2> QED BY <2>3
  <1>2. ASSUME NEW n \in T PROVE n + 1 \in T
    <2>1. PICK g : Is(g, n)
      OBVIOUS
    <2>2. PICK h : h = [s \in Upto(n + 1) |-> Step(g, s)]
      OBVIOUS
    <2>3. \A s \in Upto(n) : h[s] = g[s]
      <3>1. \A s \in Upto(n) : s \in Upto(n + 1)
        BY <1>a
      <3>2. \A s \in Upto(n) : h[s] = Step(g, s)
        BY <2>2, <3>1
      <3>3. \A s \in Upto(n) : g[s] = Step(g, s)
        BY <2>1
      <3> QED BY <3>2, <3>3
    <2>4. ASSUME NEW s \in Upto(n + 1) PROVE Step(g, s) = Step(h, s)
      <3>1. s \in Logs /\ Len(s) \in Nat /\ Len(s) <= n + 1
        BY <1>a
      <3>2. Len(s) > 1 => Left(s) \in Upto(n) /\ Right(s) \in Upto(n)
        BY <1>a, <1>c, <3>1
      <3>3. Len(s) > 1 => g[Left(s)] = h[Left(s)] /\ g[Right(s)] = h[Right(s)]
        BY <2>3, <3>2
      <3> QED BY <1>b, <3>1, <3>3
    <2>5. Is(h, n + 1) /\ n + 1 \in Nat
      BY <2>2, <2>4
    <2> QED BY <2>5
  <1>3. T = Nat
    <2> HIDE DEF T
    <2>1. T \in SUBSET Nat
      BY DEF T
    <2> QED BY <1>1, <1>2, <2>1, Induction
  <1>4. ASSUME NEW n \in Nat, NEW m \in Nat, NEW g, NEW h, Is(g, n), Is(h, m)
        PROVE  \A s \in Logs : Len(s) <= n /\ Len(s) <= m => g[s] = h[s]
    <2> DEFINE D == {Len(s) : s \in {t \in Logs : Len(t) <= n /\ Len(t) <= m /\ g[t] # h[t]}}
    <2> SUFFICES ASSUME D # {} PROVE FALSE
      OBVIOUS
    <2>1. D \in SUBSET Nat
      BY <1>a
    <2>2. PICK y \in D : \A z \in D : y <= z
      <3> HIDE DEF D
      <3> QED BY <2>1, LeastNumber
    <2>3. PICK s \in Logs : Len(s) = y /\ Len(s) <= n /\ Len(s) <= m /\ g[s] # h[s]
      BY <2>2
    <2>4. \A t \in Logs : Len(t) < Len(s) => g[t] = h[t]
      <3> SUFFICES ASSUME NEW t \in Logs, Len(t) < Len(s), g[t] # h[t] PROVE FALSE
        OBVIOUS
      <3>1. Len(t) \in D
        BY <1>a, <2>3
      <3> QED BY <1>a, <2>2, <2>3, <3>1
    <2>5. Len(s) > 1 => g[Left(s)] = h[Left(s)] /\ g[Right(s)] = h[Right(s)]
      BY <1>c, <2>4
    <2>6. g[s] = Step(g, s) /\ h[s] = Step(h, s)
      BY <1>4, <2>3
    <2> QED BY <1>b, <2>3, <2>5, <2>6
  <1> DEFINE At(n) == CHOOSE g : Is(g, n)
  <1>5. \A n \in Nat : Is(At(n), n)
    BY <1>3
  <1>6. PICK f : f = [s \in Logs |-> At(Len(s))[s]]
    OBVIOUS
  <1> HIDE DEF At
  <1>7. ASSUME NEW s \in Logs PROVE f[s] = Step(f, s)
    <2>1. PICK n \in Nat : n = Len(s)
      BY <1>a
    <2>2. f[s] = Step(At(n), s)
      <3>1. f[s] = At(n)[s] /\ s \in Upto(n)
        BY <1>6, <2>1
      <3>2. At(n) = [t \in Upto(n) |-> Step(At(n), t)]
        BY <1>5
      <3> HIDE DEF Upto
      <3> QED BY <3>1, <3>2, Zenon
    <2>3. ASSUME NEW t \in Logs, Len(t) <= n PROVE f[t] = At(n)[t]
      <3>1. PICK k \in Nat : k = Len(t) /\ k <= n
        BY <1>a, <2>3
      <3>2. Is(At(n), n) /\ Is(At(k), k)
        BY <1>5
      <3>3. At(n)[t] = At(k)[t]
        <4> HIDE DEF Is
        <4> QED BY <1>4, <3>1, <3>2
      <3> QED BY <1>6, <3>1, <3>3
    <2>4. Len(s) > 1 => At(n)[Left(s)] = f[Left(s)] /\ At(n)[Right(s)] = f[Right(s)]
      <3>1. Len(s) > 1 => Len(Left(s)) <= n /\ Len(Right(s)) <= n
        BY <1>a, <1>c, <2>1
      <3> QED BY <1>c, <2>3, <3>1
    <2>5. Step(At(n), s) = Step(f, s)
      BY <1>b, <2>4
    <2> QED BY <2>2, <2>5
  <1>8. f = [s \in Logs |-> Step(f, s)]
    BY <1>6, <1>7
  <1> QED
    BY <1>8, Zenon DEF InclusionPath, Step, Logs, Left, Right

Roots == {SubtreeRoot[s] : s \in Logs}

LEMMA PathOf ==
  ASSUME NEW s \in Logs, NEW index \in 0..Len(s) - 1
  PROVE  InclusionPath[s][index] =
           IF Len(s) <= 1 THEN <<>>
           ELSE IF index < SplitPoint(Len(s))
                THEN Append(InclusionPath[Left(s)][index], SubtreeRoot[Right(s)])
                ELSE Append(InclusionPath[Right(s)][index - SplitPoint(Len(s))],
                            SubtreeRoot[Left(s)])
  <1> DEFINE At(t, i) ==
        IF Len(t) <= 1 THEN <<>>
        ELSE IF i < SplitPoint(Len(t))
             THEN Append(InclusionPath[Left(t)][i], SubtreeRoot[Right(t)])
             ELSE Append(InclusionPath[Right(t)][i - SplitPoint(Len(t))], SubtreeRoot[Left(t)])
  <1>1. InclusionPath = [t \in Logs |-> [i \in 0..Len(t) - 1 |-> At(t, i)]]
    BY InclusionPathIs, Zenon
  <1> SUFFICES InclusionPath[s][index] = At(s, index)
    BY Zenon
  <1> HIDE DEF At
  <1>2. InclusionPath[s] = [i \in 0..Len(s) - 1 |-> At(s, i)]
    BY <1>1, Zenon
  <1> QED BY <1>2

\* verify_merkle_inclusion's reconstruct, one step.
Rebuilt(leaf, path, tree, n, index) ==
  IF n = 1 THEN [hash |-> HashLeaf(leaf), cursor |-> 0]
  ELSE LET k == SplitPoint(n)
           child == IF index < k THEN tree[k][index] ELSE tree[n - k][index - k]
       IN IF child.hash = NoHash \/ child.cursor >= Len(path)
          THEN [hash |-> NoHash, cursor |-> child.cursor]
          ELSE LET sibling == path[child.cursor + 1]
               IN [hash |-> IF index < k THEN HashChildren(child.hash, sibling)
                            ELSE HashChildren(sibling, child.hash),
                   cursor |-> child.cursor + 1]

\* Reconstruct's definition defines it.
LEMMA ReconstructIs ==
  ASSUME NEW leaf, NEW path, NEW size \in Nat
  PROVE  Reconstruct(leaf, size, path) =
           [n \in 1..size |-> [index \in 0..n - 1 |->
              Rebuilt(leaf, path, Reconstruct(leaf, size, path), n, index)]]
  <1> DEFINE Step(g, n) == [index \in 0..n - 1 |-> Rebuilt(leaf, path, g, n, index)]
             Is(g, n) == g = [k \in 1..n |-> Step(g, k)]
             T == {n \in Nat : \E g : Is(g, n)}
  <1>b. ASSUME NEW n \in Nat, NEW g, NEW h,
               n > 1 => /\ g[SplitPoint(n)] = h[SplitPoint(n)]
                        /\ g[n - SplitPoint(n)] = h[n - SplitPoint(n)], n > 0
        PROVE  Step(g, n) = Step(h, n)
    <2>1. CASE n = 1
      BY <2>1, Zenon DEF Rebuilt
    <2>2. CASE n > 1
      BY <1>b, <2>2, Zenon DEF Rebuilt
    <2>3. n = 1 \/ n > 1
      BY <1>b
    <2> QED BY <2>1, <2>2, <2>3, Zenon
  <1> HIDE DEF Step
  <1>1. 0 \in T
    <2>1. PICK g : g = [k \in 1..0 |-> <<>>]
      OBVIOUS
    <2>2. Is(g, 0)
      BY <2>1
    <2> QED BY <2>2
  <1>2. ASSUME NEW n \in T PROVE n + 1 \in T
    <2>1. PICK g : Is(g, n)
      OBVIOUS
    <2>2. PICK h : h = [k \in 1..n + 1 |-> Step(g, k)]
      OBVIOUS
    <2>3. \A k \in 1..n : h[k] = g[k]
      BY <2>1, <2>2
    <2>4. ASSUME NEW k \in 1..n + 1 PROVE Step(g, k) = Step(h, k)
      <3>1. k \in Nat /\ k > 0
        OBVIOUS
      <3>2. k > 1 => SplitPoint(k) \in 1..n /\ k - SplitPoint(k) \in 1..n
        BY <3>1, SplitPointSplits
      <3>3. k > 1 => /\ g[SplitPoint(k)] = h[SplitPoint(k)]
                     /\ g[k - SplitPoint(k)] = h[k - SplitPoint(k)]
        BY <2>3, <3>2
      <3> QED BY <1>b, <3>1, <3>3
    <2>5. Is(h, n + 1) /\ n + 1 \in Nat
      BY <2>2, <2>4
    <2> QED BY <2>5
  <1>3. T = Nat
    <2> HIDE DEF T
    <2>1. T \in SUBSET Nat
      BY DEF T
    <2> QED BY <1>1, <1>2, <2>1, Induction
  <1>4. PICK g : Is(g, size) /\ Reconstruct(leaf, size, path) = g
    <2>1. Reconstruct(leaf, size, path) = (CHOOSE g : Is(g, size))
      BY Zenon DEF Reconstruct, Step, Rebuilt
    <2>2. Is((CHOOSE g : Is(g, size)), size)
      BY <1>3
    <2> QED BY <2>1, <2>2
  <1> QED BY <1>4, Zenon DEF Step

\* The two cases of a path: the leaf is in the left part, or in the right one.
LEMMA PathSplits ==
  ASSUME NEW s \in Logs, Len(s) > 1, NEW index \in 0..Len(s) - 1, NEW k, k = SplitPoint(Len(s))
  PROVE  /\ k \in Nat /\ 1 <= k /\ k < Len(s)
         /\ index < k => /\ index \in 0..Len(Left(s)) - 1
                         /\ InclusionPath[s][index]
                              = Append(InclusionPath[Left(s)][index], SubtreeRoot[Right(s)])
         /\ ~ (index < k) => /\ index - k \in 0..Len(Right(s)) - 1
                             /\ InclusionPath[s][index]
                                  = Append(InclusionPath[Right(s)][index - k], SubtreeRoot[Left(s)])
  <1>1. PICK n \in Nat : n = Len(s)
    BY DEF Logs
  <1>2. k \in Nat /\ 1 <= k /\ k < n
    BY <1>1, SplitPointSplits
  <1>3. Len(Left(s)) = k /\ Len(Right(s)) = n - k
    BY <1>1, Halved
  <1>4. ~ (Len(s) <= 1)
    BY <1>1
  <1>5. InclusionPath[s][index] =
          IF index < k THEN Append(InclusionPath[Left(s)][index], SubtreeRoot[Right(s)])
          ELSE Append(InclusionPath[Right(s)][index - k], SubtreeRoot[Left(s)])
    BY <1>4, PathOf, Zenon
  <1>6. index < k => index \in 0..k - 1
    BY <1>1, <1>2
  <1>7. ~ (index < k) => index - k \in 0..(n - k) - 1
    BY <1>1, <1>2
  <1> QED BY <1>1, <1>2, <1>3, <1>5, <1>6, <1>7, Zenon

LEMMA PathIsHashes ==
  ASSUME NEW s \in Logs, NEW index \in 0..Len(s) - 1
  PROVE  InclusionPath[s][index] \in Seq(Roots)
  <1> DEFINE T == {n \in Nat : \A t \in Logs : Len(t) = n =>
                     \A i \in 0..n - 1 : InclusionPath[t][i] \in Seq(Roots)}
  <1>1. ASSUME NEW n \in Nat, \A m \in Nat : m < n => m \in T PROVE n \in T
    <2> SUFFICES ASSUME NEW t \in Logs, Len(t) = n, NEW i \in 0..n - 1
                 PROVE  InclusionPath[t][i] \in Seq(Roots)
      OBVIOUS
    <2>1. CASE n <= 1
      <3>1. InclusionPath[t][i] = <<>>
        BY <2>1, PathOf, Zenon
      <3> QED BY <3>1, EmptySeq
    <2>2. CASE n > 1
      <3>1. PICK k \in Nat : /\ k = SplitPoint(n) /\ 1 <= k /\ k < n
        BY <2>2, SplitPointSplits
      <3>2. /\ Left(t) \in Logs /\ Len(Left(t)) = k /\ Right(t) \in Logs /\ Len(Right(t)) = n - k
        BY <2>2, <3>1, Halved
      <3>3. SubtreeRoot[Left(t)] \in Roots /\ SubtreeRoot[Right(t)] \in Roots
        BY <3>2 DEF Roots
      <3>4. k \in T /\ n - k \in T
        <4>1. n - k \in Nat /\ n - k < n
          BY <3>1
        <4> QED BY <1>1, <3>1, <4>1
      <3>5. CASE i < k
        <4>1. /\ i \in 0..k - 1
              /\ InclusionPath[t][i] = Append(InclusionPath[Left(t)][i], SubtreeRoot[Right(t)])
          BY <2>2, <3>1, <3>2, <3>5, PathSplits
        <4>2. InclusionPath[Left(t)][i] \in Seq(Roots)
          BY <3>2, <3>4, <4>1
        <4> QED BY <3>3, <4>1, <4>2, AppendHas
      <3>6. CASE ~ (i < k)
        <4>1. /\ i - k \in 0..(n - k) - 1
              /\ InclusionPath[t][i] = Append(InclusionPath[Right(t)][i - k], SubtreeRoot[Left(t)])
          BY <2>2, <3>1, <3>2, <3>6, PathSplits
        <4>2. InclusionPath[Right(t)][i - k] \in Seq(Roots)
          BY <3>2, <3>4, <4>1
        <4> QED BY <3>3, <4>1, <4>2, AppendHas
      <3> QED BY <3>5, <3>6
    <2> QED BY <2>1, <2>2
  <1>2. T = Nat
    <2> HIDE DEF T
    <2>1. T \in SUBSET Nat
      BY DEF T
    <2> QED BY <1>1, <2>1, StrongInduction
  <1>3. Len(s) \in Nat
    BY DEF Logs
  <1> QED BY <1>2, <1>3

Begins(p, path) == Len(p) <= Len(path) /\ \A i \in 1..Len(p) : path[i] = p[i]

\* A tree of n leaves rebuilt from a path that begins with that of leaf index of
\* the log s of that length: the path is used up, and the hash is the log's root
\* exactly if the leaf is the one there.
Rebuilds(leaf, path, tree, s, index) ==
  \E h : /\ tree[Len(s)][index] = [hash |-> h, cursor |-> Len(InclusionPath[s][index])]
         /\ h # NoHash
         /\ h = SubtreeRoot[s] <=> leaf = s[index + 1]

LEMMA PathRebuilds ==
  ASSUME NEW leaf, NEW hashes, NEW path \in Seq(hashes), NEW size \in Nat,
         NEW s \in Logs, 1 <= Len(s), Len(s) <= size, NEW index \in 0..Len(s) - 1,
         Begins(InclusionPath[s][index], path)
  PROVE  Rebuilds(leaf, path, Reconstruct(leaf, size, path), s, index)
  <1> DEFINE tree == Reconstruct(leaf, size, path)
             P(t, i) == Begins(InclusionPath[t][i], path) => Rebuilds(leaf, path, tree, t, i)
             T == {n \in Nat : 1 <= n /\ n <= size =>
                     \A t \in Logs : Len(t) = n => \A i \in 0..n - 1 : P(t, i)}
  <1>a. ASSUME NEW n \in 1..size, NEW i \in 0..n - 1
        PROVE  tree[n][i] = Rebuilt(leaf, path, tree, n, i)
    <2>1. tree = [m \in 1..size |-> [j \in 0..m - 1 |-> Rebuilt(leaf, path, tree, m, j)]]
      BY ReconstructIs
    <2> HIDE DEF tree
    <2>2. tree[n] = [j \in 0..n - 1 |-> Rebuilt(leaf, path, tree, n, j)]
      BY <2>1, Zenon
    <2> QED BY <2>2
  <1> HIDE DEF tree
  <1>b. Len(path) \in Nat
    OBVIOUS
  <1>1. ASSUME NEW n \in Nat, \A m \in Nat : m < n => m \in T PROVE n \in T
    <2> SUFFICES ASSUME 1 <= n, n <= size, NEW t \in Logs, Len(t) = n, NEW i \in 0..n - 1,
                        Begins(InclusionPath[t][i], path)
                 PROVE  Rebuilds(leaf, path, tree, t, i)
      OBVIOUS
    <2>0. n \in 1..size
      OBVIOUS
    <2>1. CASE n = 1
      <3>1. i = 0 /\ i + 1 = 1
        BY <2>1
      <3>2. InclusionPath[t][i] = <<>>
        <4>1. Len(t) <= 1
          BY <2>1
        <4> QED BY <4>1, PathOf, Zenon
      <3>3. tree[n][i] = [hash |-> HashLeaf(leaf), cursor |-> 0]
        BY <1>a, <2>0, <2>1 DEF Rebuilt
      <3>4. SubtreeRoot[t] = HashLeaf(t[1])
        <4>1. t # <<>> /\ Len(t) = 1
          <5>1. Len(t) = 1 /\ Len(<<>>) # 1
            BY <2>1, EmptySeq
          <5> QED BY <5>1, Zenon
        <4> QED BY <4>1, RootOf, Zenon
      <3>5. HashLeaf(leaf) = HashLeaf(t[1]) <=> leaf = t[1]
        BY HashesDiffer, Zenon
      <3>6. Len(<<>>) = 0 /\ HashLeaf(leaf) # NoHash
        BY EmptySeq, HashesDiffer
      <3> QED BY <3>1, <3>2, <3>3, <3>4, <3>5, <3>6, Zenon DEF Rebuilds
    <2>2. CASE n > 1
      <3>1. PICK k \in Nat : k = SplitPoint(n) /\ 1 <= k /\ k < n
        BY <2>2, SplitPointSplits
      <3>2. /\ Left(t) \in Logs /\ Len(Left(t)) = k /\ Right(t) \in Logs /\ Len(Right(t)) = n - k
            /\ \A j \in 1..k : Left(t)[j] = t[j]
            /\ \A j \in 1..n - k : Right(t)[j] = t[k + j]
        BY <2>2, <3>1, Halved
      <3>3. SubtreeRoot[t] = HashChildren(SubtreeRoot[Left(t)], SubtreeRoot[Right(t)])
        <4>1. t # <<>> /\ Len(t) # 1
          BY <2>2
        <4> QED BY <4>1, RootOf, Zenon
      <3>4. SubtreeRoot[Left(t)] \in Roots /\ SubtreeRoot[Right(t)] \in Roots
        BY <3>2 DEF Roots
      <3>5. ASSUME NEW q \in Seq(Roots), NEW r \in Roots, InclusionPath[t][i] = Append(q, r)
            PROVE  /\ Begins(q, path) /\ Len(q) \in Nat /\ ~ (Len(q) >= Len(path))
                   /\ path[Len(q) + 1] = r /\ Len(InclusionPath[t][i]) = Len(q) + 1
        <4>1. /\ Len(Append(q, r)) = Len(q) + 1 /\ Len(q) \in Nat
              /\ \A j \in 1..Len(q) : Append(q, r)[j] = q[j]
              /\ Append(q, r)[Len(q) + 1] = r
          BY AppendHas
        <4>2. Len(q) + 1 <= Len(path) /\ \A j \in 1..Len(q) + 1 : path[j] = Append(q, r)[j]
          BY <3>5, <4>1 DEF Begins
        <4>3. Begins(q, path)
          BY <1>b, <4>1, <4>2 DEF Begins
        <4>4. path[Len(q) + 1] = r
          <5>1. Len(q) + 1 \in 1..Len(q) + 1
            BY <4>1
          <5> QED BY <4>1, <4>2, <5>1
        <4> QED BY <1>b, <3>5, <4>1, <4>2, <4>3, <4>4
      <3>6. CASE i < k
        <4>1. /\ i \in 0..k - 1
              /\ InclusionPath[t][i] = Append(InclusionPath[Left(t)][i], SubtreeRoot[Right(t)])
          BY <2>2, <3>1, <3>2, <3>6, PathSplits
        <4>2. PICK q \in Seq(Roots) : q = InclusionPath[Left(t)][i]
          BY <3>2, <4>1, PathIsHashes
        <4>3. PICK r \in Roots : r = SubtreeRoot[Right(t)]
          BY <3>4
        <4>4. /\ Begins(q, path) /\ ~ (Len(q) >= Len(path)) /\ path[Len(q) + 1] = r
              /\ Len(InclusionPath[t][i]) = Len(q) + 1
          <5>1. InclusionPath[t][i] = Append(q, r)
            BY <4>1, <4>2, <4>3
          <5> QED BY <3>5, <5>1
        <4>5. Rebuilds(leaf, path, tree, Left(t), i)
          <5>1. k \in T /\ 1 <= k /\ k <= size
            BY <1>1, <3>1
          <5> QED BY <3>2, <4>1, <4>2, <4>4, <5>1
        <4>6. PICK h : /\ tree[k][i] = [hash |-> h, cursor |-> Len(q)] /\ h # NoHash
                       /\ h = SubtreeRoot[Left(t)] <=> leaf = t[i + 1]
          <5>1. i + 1 \in 1..k
            BY <4>1
          <5>2. Left(t)[i + 1] = t[i + 1]
            BY <3>2, <5>1
          <5> QED BY <3>2, <4>2, <4>5, <5>2, Zenon DEF Rebuilds
        <4>7. tree[n][i] = [hash |-> HashChildren(h, r), cursor |-> Len(q) + 1]
          <5>1. tree[k][i].hash = h /\ tree[k][i].cursor = Len(q)
            BY <4>6
          <5>2. n # 1
            BY <2>2
          <5>3. tree[n][i] = Rebuilt(leaf, path, tree, n, i)
            BY <1>a, <2>0
          <5> QED BY <3>1, <3>6, <4>4, <4>6, <5>1, <5>2, <5>3, Zenon DEF Rebuilt
        <4>8. HashChildren(h, r) # NoHash
              /\ (HashChildren(h, r) = SubtreeRoot[t] <=> leaf = t[i + 1])
          <5>1. HashChildren(h, r) = SubtreeRoot[t] <=> h = SubtreeRoot[Left(t)]
            <6>1. PICK u, v : u = SubtreeRoot[Left(t)] /\ v = SubtreeRoot[t]
              OBVIOUS
            <6>2. v = HashChildren(u, r)
              BY <3>3, <4>3, <6>1, Zenon
            <6>3. HashChildren(h, r) = v <=> h = u
              BY <6>2, HashesDiffer
            <6> QED BY <6>1, <6>3, Zenon
          <5> QED BY <4>6, <5>1, HashesDiffer, Zenon
        <4> QED BY <4>4, <4>7, <4>8, Zenon DEF Rebuilds
      <3>7. CASE ~ (i < k)
        <4>0. PICK j \in 0..(n - k) - 1 : j = i - k /\ k + (j + 1) = i + 1 /\ j + 1 \in 1..n - k
          <5>1. /\ i - k \in 0..(n - k) - 1 /\ k + ((i - k) + 1) = i + 1
                /\ (i - k) + 1 \in 1..n - k
            <6>1. i \in Nat /\ i <= n - 1 /\ i >= k
              BY <3>1, <3>7
            <6>2. PICK j \in Nat : i = k + j
              <7>1. i - k \in Nat /\ i = k + (i - k)
                BY <6>1
              <7> QED BY <7>1
            <6>3. i - k = j /\ j <= (n - k) - 1
              BY <6>1, <6>2
            <6>4. j \in 0..(n - k) - 1 /\ k + (j + 1) = i + 1 /\ j + 1 \in 1..n - k
              BY <6>2, <6>3
            <6> QED BY <6>3, <6>4, Zenon
          <5> QED BY <5>1
        <4>1. InclusionPath[t][i] = Append(InclusionPath[Right(t)][j], SubtreeRoot[Left(t)])
          BY <2>2, <3>1, <3>7, <4>0, PathSplits, Zenon
        <4>2. PICK q \in Seq(Roots) : q = InclusionPath[Right(t)][j]
          BY <3>2, <4>0, PathIsHashes
        <4>3. PICK r \in Roots : r = SubtreeRoot[Left(t)]
          BY <3>4
        <4>4. /\ Begins(q, path) /\ ~ (Len(q) >= Len(path)) /\ path[Len(q) + 1] = r
              /\ Len(InclusionPath[t][i]) = Len(q) + 1
          <5>1. InclusionPath[t][i] = Append(q, r)
            BY <4>1, <4>2, <4>3
          <5> QED BY <3>5, <5>1
        <4>5. Rebuilds(leaf, path, tree, Right(t), j)
          <5>1. PICK m \in Nat : m = n - k /\ m < n /\ 1 <= m /\ m <= size
            BY <3>1
          <5>2. m \in T
            BY <1>1, <5>1
          <5> QED BY <3>2, <4>0, <4>2, <4>4, <5>1, <5>2
        <4>6. PICK h : /\ tree[n - k][j] = [hash |-> h, cursor |-> Len(q)] /\ h # NoHash
                       /\ h = SubtreeRoot[Right(t)] <=> leaf = t[i + 1]
          <5>1. Right(t)[j + 1] = t[k + (j + 1)]
            BY <3>2, <4>0
          <5>2. Right(t)[j + 1] = t[i + 1]
            BY <4>0, <5>1, Zenon
          <5> QED BY <3>2, <4>2, <4>5, <5>2, Zenon DEF Rebuilds
        <4>7. tree[n][i] = [hash |-> HashChildren(r, h), cursor |-> Len(q) + 1]
          <5>1. tree[n - k][j].hash = h /\ tree[n - k][j].cursor = Len(q)
            BY <4>6
          <5>2. n # 1
            BY <2>2
          <5>3. tree[n][i] = Rebuilt(leaf, path, tree, n, i)
            BY <1>a, <2>0
          <5> QED BY <3>1, <3>7, <4>0, <4>4, <4>6, <5>1, <5>2, <5>3, Zenon DEF Rebuilt
        <4>8. HashChildren(r, h) # NoHash
              /\ (HashChildren(r, h) = SubtreeRoot[t] <=> leaf = t[i + 1])
          <5>1. HashChildren(r, h) = SubtreeRoot[t] <=> h = SubtreeRoot[Right(t)]
            <6>1. PICK u, v : u = SubtreeRoot[Right(t)] /\ v = SubtreeRoot[t]
              OBVIOUS
            <6>2. v = HashChildren(r, u)
              BY <3>3, <4>3, <6>1, Zenon
            <6>3. HashChildren(r, h) = v <=> h = u
              BY <6>2, HashesDiffer
            <6> QED BY <6>1, <6>3, Zenon
          <5> QED BY <4>6, <5>1, HashesDiffer, Zenon
        <4> QED BY <4>4, <4>7, <4>8, Zenon DEF Rebuilds
      <3> QED BY <3>6, <3>7
    <2> QED BY <2>1, <2>2
  <1>2. T = Nat
    <2> HIDE DEF T
    <2>1. T \in SUBSET Nat
      BY DEF T
    <2> QED BY <1>1, <2>1, StrongInduction
  <1>3. Len(s) \in T
    BY <1>2 DEF Logs
  <1>4. P(s, index)
    BY <1>3
  <1> QED BY <1>4 DEF tree

-----------------------------------------------------------------------------
(* The checkpoints a witness remembers.                                      *)
Remembered ==
  /\ seen.size \in 0..Len(log)
  /\ seen.root = SubtreeRoot[SubSeq(log, 1, seen.size)]

LEMMA SubSeqAppended ==
  ASSUME NEW s \in Logs, NEW e \in EventHashes, NEW n \in 0..Len(s)
  PROVE  SubSeq(Append(s, e), 1, n) = SubSeq(s, 1, n) /\ n \in 0..Len(Append(s, e))
         /\ Append(s, e) \in Logs
  <1>1. /\ Append(s, e) \in Logs /\ Len(Append(s, e)) = Len(s) + 1 /\ Len(s) \in Nat
        /\ \A i \in 1..Len(s) : Append(s, e)[i] = s[i]
    BY AppendHas DEF Logs
  <1>2. PICK t \in Logs : t = Append(s, e) /\ Len(t) = Len(s) + 1 /\ \A i \in 1..Len(s) : t[i] = s[i]
    BY <1>1
  <1>3. SubSeq(t, 1, n) = [i \in 1..n |-> t[i]] /\ SubSeq(s, 1, n) = [i \in 1..n |-> s[i]]
    BY <1>1, <1>2 DEF Logs
  <1>4. \A i \in 1..n : t[i] = s[i]
    BY <1>1, <1>2
  <1> QED BY <1>1, <1>2, <1>3, <1>4

LEMMA RememberedKept ==
  ASSUME KeyInv, Remembered, [CheckpointNext]_cpVars
  PROVE  Remembered'
  <1>0. log \in Logs
    BY DEF KeyInv, KeyTyped, Logs
  <1>1. CASE UNCHANGED <<log, seen>>
    BY <1>1 DEF Remembered
  <1>2. ASSUME NEW p \in Servers, NEW e \in EventHashes, AppendHash(p, e) PROVE Remembered'
    <2>1. log' = Append(log, e) /\ seen' = seen
      BY <1>2 DEF AppendHash
    <2>2. PICK n \in 0..Len(log) : n = seen.size
      BY DEF Remembered
    <2>3. SubSeq(log', 1, n) = SubSeq(log, 1, n) /\ n \in 0..Len(log')
      BY <1>0, <2>1, SubSeqAppended
    <2> QED BY <2>1, <2>2, <2>3 DEF Remembered
  <1>3. ASSUME NEW p \in Servers, WitnessCheckpoint(p) PROVE Remembered'
    <2>1. log' = log /\ seen'.size = Len(log) /\ seen'.root = SubtreeRoot[log]
      BY <1>3 DEF WitnessCheckpoint, Checkpoint
    <2>2. SubSeq(log, 1, Len(log)) = log /\ Len(log) \in 0..Len(log)
      BY <1>0, SegmentWhole
    <2> QED BY <2>1, <2>2 DEF Remembered
  <1> QED
    BY <1>1, <1>2, <1>3 DEF CheckpointNext, FindKey, LinkKey, cpVars

LEMMA InclusionVerifies ==
  ASSUME NEW s \in Logs, NEW i \in 1..Len(s), NEW e
  PROVE  VerifiesInclusion(e, i - 1, Len(s), InclusionPath[s][i - 1], SubtreeRoot[s]) <=> e = s[i]
  <1>1. PICK n \in Nat : n = Len(s) /\ 1 <= n
    BY DEF Logs
  <1>2. PICK j \in 0..n - 1 : j = i - 1 /\ j + 1 = i /\ j < n
    <2>1. i - 1 \in 0..n - 1 /\ (i - 1) + 1 = i /\ i - 1 < n
      BY <1>1
    <2> QED BY <2>1
  <1>3. PICK path \in Seq(Roots) : path = InclusionPath[s][j]
    BY <1>1, <1>2, PathIsHashes
  <1>4. Begins(InclusionPath[s][j], path)
    BY <1>3 DEF Begins
  <1>5. Rebuilds(e, path, Reconstruct(e, n, path), s, j)
    <2>1. n <= n /\ 1 <= Len(s) /\ Len(s) <= n
      BY <1>1
    <2> QED BY <1>1, <1>2, <1>4, <2>1, PathRebuilds
  <1>6. PICK h : /\ Reconstruct(e, n, path)[n][j] = [hash |-> h, cursor |-> Len(path)]
                 /\ h = SubtreeRoot[s] <=> e = s[i]
    BY <1>1, <1>2, <1>3, <1>5, Zenon DEF Rebuilds
  <1>7. ASSUME NEW r PROVE [hash |-> h, cursor |-> Len(path)] = [hash |-> r, cursor |-> Len(path)]
                           <=> h = r
    OBVIOUS
  <1>8. VerifiesInclusion(e, j, n, path, SubtreeRoot[s]) <=> h = SubtreeRoot[s]
    BY <1>2, <1>6, <1>7, Zenon DEF VerifiesInclusion
  <1> QED BY <1>1, <1>2, <1>3, <1>6, <1>8, Zenon

(* For a log of any length and any history of appends: the proofs the      *)
(* registry serves verify for every checkpoint of its own history and for  *)
(* no other log of that size, and an event's path verifies for that event  *)
(* alone (merkle_consistency_proof, merkle_inclusion_proof).               *)
THEOREM ProofsExactHolds ==
  CheckpointSpec => []ProofsExact
<1>1. CheckpointInit => Remembered
  <2> SUFFICES ASSUME CheckpointInit PROVE Remembered
    OBVIOUS
  <2>1. log = <<>> /\ seen.size = 0 /\ seen.root = EmptyRoot
    BY DEF CheckpointInit
  <2>2. <<>> \in Logs /\ Len(<<>>) = 0
    BY EmptySeq DEF Logs
  <2>3. SubSeq(log, 1, 0) = <<>>
    BY <2>1, <2>2, SegmentWhole
  <2>4. SubtreeRoot[<<>>] = EmptyRoot
    BY <2>2, RootOf, Zenon
  <2>5. seen.size \in 0..Len(log)
    BY <2>1, <2>2
  <2>6. seen.root = SubtreeRoot[SubSeq(log, 1, seen.size)]
    BY <2>1, <2>3, <2>4, Zenon
  <2> QED BY <2>5, <2>6 DEF Remembered
<1>2. ASSUME KeyInv, Remembered PROVE ProofsExact
  <2>1. log \in Logs
    BY <1>2 DEF KeyInv, KeyTyped, Logs
  <2>2. CheckpointsExtend
    <3>1. PICK n \in 0..Len(log) : n = seen.size /\ seen.root = SubtreeRoot[SubSeq(log, 1, n)]
      BY <1>2 DEF Remembered
    <3>2. VerifiesConsistency(ConsistencyProof(log, n), seen.root, SubtreeRoot[log])
      BY <2>1, <3>1, ConsistencyVerifies
    <3>3. \A k \in 0..Len(log) :
            VerifiesConsistency(ConsistencyProof(log, k), SubtreeRoot[SubSeq(log, 1, k)],
                                SubtreeRoot[log])
      BY <2>1, ConsistencyVerifies
    <3> QED BY <3>1, <3>2, <3>3 DEF CheckpointsExtend
  <2>3. ForksRefuted
    <3> SUFFICES ASSUME NEW n \in 1..Len(log), NEW u \in [1..n -> EventHashes],
                        u # SubSeq(log, 1, n)
                 PROVE  ~ VerifiesConsistency(ConsistencyProof(log, n), SubtreeRoot[u],
                                              SubtreeRoot[log])
      BY DEF ForksRefuted
    <3>1. PICK t \in Logs : t = SubSeq(log, 1, n) /\ Len(t) = n /\ n \in 0..Len(log)
      <4>1. PICK z \in Nat : z = 0 /\ z + 1 = 1 /\ z <= n /\ n - z = n
        BY <2>1 DEF Logs
      <4>2. n \in Nat /\ n <= Len(log) /\ n \in 0..Len(log)
        BY <2>1 DEF Logs
      <4>3. SubSeq(log, z + 1, n) \in Logs /\ Len(SubSeq(log, z + 1, n)) = n - z
        BY <2>1, <4>1, <4>2, Segment
      <4> QED BY <4>1, <4>2, <4>3
    <3>2. u \in Logs /\ Len(u) = n
      <4>1. n \in Nat
        BY <2>1 DEF Logs
      <4> QED BY <4>1 DEF Logs
    <3>3. SubtreeRoot[u] # SubtreeRoot[t]
      BY <3>1, <3>2, RootsDiffer
    <3> QED BY <2>1, <3>1, <3>2, <3>3, ConsistencyVerifies
  <2>4. InclusionExact
    BY <2>1, InclusionVerifies DEF InclusionExact
  <2> QED BY <2>2, <2>3, <2>4 DEF ProofsExact
<1> QED
  BY <1>1, <1>2, KeyAlways, RememberedKept, PTL DEF CheckpointSpec
===============================================================================

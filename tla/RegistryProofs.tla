--------------------------- MODULE RegistryProofs ---------------------------
(***************************************************************************)
(* Proofs about Registry and its read side, for any sets of requests,      *)
(* readers, organizations, names, versions, tags and archives.             *)
(***************************************************************************)
EXTENDS RegistryReads, FiniteSetTheorems, TLAPS

-----------------------------------------------------------------------------
\* A request's pc tells which record the handler holds.
LEMMA HeldByPc ==
    ASSUME TypeOK, NEW r \in Requests
    PROVE  /\ request[r].pc \in {"stage.put", "stage.begin", "stage.commit"}
                  => request[r] \in StageRequest
           /\ request[r].pc = "decide" => request[r] \in DecideRequest
           /\ request[r].pc \in {"revoke.begin", "revoke.commit"}
                  => request[r] \in RevokeRequest
           /\ request[r].pc = "grant" => request[r] \in GrantRequest
           /\ request[r].pc = "download" => request[r] \in DownloadRequest
  BY DEF TypeOK, Idle, StageRequest, DecideRequest, RevokeRequest,
         GrantRequest, DownloadRequest

\* The highest of some versions is one of them; of none there is no highest.
LEMMA HighestIsOne ==
    ASSUME NEW S \in SUBSET Versions
    PROVE  HighestOf(S) \in S \cup {None} /\ (HighestOf(S) = None <=> S = {})
  <1>1. CASE S = {}
    BY <1>1 DEF HighestOf
  <1>2. CASE S # {}
    <2>1. \E m \in S : \A v \in S : m >= v
      BY <1>2, VersionOrderAssumption
    <2>2. Max(S) \in S
      BY <2>1 DEF Max
    <2> QED
      BY <1>2, <2>2, NoneAssumption DEF HighestOf
  <1> QED
    BY <1>1, <1>2

\* The rollback target of a revocation is an active version of the package.
LEMMA RollbackIsActive ==
    ASSUME TypeOK, NEW k \in Keys
    PROVE  /\ RollbackTarget(k) \in Versions \cup {None}
           /\ RollbackTarget(k) # None
                  => RollbackTarget(k) \in ActiveVersions(k[1])
  <1>1. ActiveVersions(k[1]) \ {k[2]} \in SUBSET Versions
    BY DEF ActiveVersions
  <1> QED
    BY <1>1, HighestIsOne DEF RollbackTarget

-----------------------------------------------------------------------------
\* A revocation's transaction holds the lock of a row that exists.
LockedRowExists ==
    \A r \in Requests : request[r].pc = "revoke.commit" =>
        versions[request[r].key] # None

\* Each action keeps every table and every request in its type.
LEMMA TypeStep == TypeOK /\ LockedRowExists /\ [Next]_vars => TypeOK'
  <1> SUFFICES ASSUME TypeOK, LockedRowExists, [Next]_vars PROVE TypeOK'
    OBVIOUS
  <1>1. CASE UNCHANGED vars
    BY <1>1 DEF TypeOK, vars, tables
  <1>2. ASSUME NEW r \in Requests, NEW p \in Principals, NEW a \in Artifacts,
               NEW t \in Tags, NEW b \in Visibilities,
               AuthorizeStage(r, p, a, t, b)
        PROVE  TypeOK'
    <2>1. OwnerFor(p, a.key[1]) \in Orgs
      BY ConstantsAssumption
      DEF OwnerFor, TypeOK, Artifacts, Keys, PackageRow
    <2>2. [pc |-> "stage.put", owner |-> OwnerFor(p, a.key[1]), artifact |-> a,
           tag |-> t, private |-> b] \in StageRequest
      BY <2>1, ConstantsAssumption DEF StageRequest
    <2> QED
      BY <1>2, <2>2 DEF AuthorizeStage, Begin, TypeOK, tables
  <1>3. ASSUME NEW r \in Requests, PutObject(r) PROVE TypeOK'
    <2>1. request[r] \in StageRequest
      BY <1>3, HeldByPc DEF PutObject
    <2>2. [request[r] EXCEPT !.pc = "stage.begin"] \in StageRequest
      BY <2>1 DEF StageRequest
    <2> QED
      BY <1>3, <2>1, <2>2 DEF PutObject, ObjectsWith, TypeOK, StageRequest
  <1>4. ASSUME NEW r \in Requests, BeginStage(r) PROVE TypeOK'
    <2>1. request[r] \in StageRequest
      BY <1>4, HeldByPc DEF BeginStage
    <2>2. [request[r] EXCEPT !.pc = "stage.commit"] \in StageRequest
      BY <2>1 DEF StageRequest
    <2> QED
      BY <1>4, <2>2 DEF BeginStage, TypeOK, tables
  <1>5. ASSUME NEW r \in Requests, CommitStage(r) PROVE TypeOK'
    <2> DEFINE q == request[r]
               k == q.artifact.key
               row == [organization |-> q.owner, artifact |-> q.artifact,
                       tag |-> q.tag, private |-> q.private,
                       status |-> "staged"]
    <2>1. q \in StageRequest
      BY <1>5, HeldByPc DEF CommitStage
    <2>2. k \in Keys /\ k[1] \in Names
      BY <2>1 DEF StageRequest, Artifacts, Keys
    <2>3. row \in StageRow
      BY <2>1 DEF StageRequest, StageRow
    <2>4. PackageAfterInsert(k[1], q) \in PackageRow
      BY <2>1, <2>2 DEF StageRequest, PackageRow, PackageAfterInsert, TypeOK
    <2>5. <<"stage.created", k>> \in EventKeys
      BY <2>2 DEF EventKeys
    <2> QED
      BY <1>5, <2>2, <2>3, <2>4, <2>5 DEF CommitStage, Finish, TypeOK
  <1>6. ASSUME NEW r \in Requests, NEW p \in Principals, NEW k \in Keys,
               NEW decision \in Decisions, ReadStage(r, p, k, decision)
        PROVE  TypeOK'
    <2>1. [pc |-> "decide", decision |-> decision, key |-> k,
           stage |-> stages[k]] \in DecideRequest
      BY <1>6 DEF ReadStage, DecideRequest, TypeOK
    <2> QED
      BY <1>6, <2>1 DEF ReadStage, Begin, TypeOK, tables
  <1>7. ASSUME NEW r \in Requests, CommitDecision(r) PROVE TypeOK'
    <2> DEFINE q == request[r]
               k == q.key
               row == [organization |-> q.stage.organization,
                       artifact |-> q.stage.artifact,
                       private |-> q.stage.private, status |-> "active"]
    <2>1. q \in DecideRequest
      BY <1>7, HeldByPc DEF CommitDecision
    <2>2. k \in Keys /\ k[1] \in Names /\ k[2] \in Versions
      BY <2>1 DEF DecideRequest, Keys
    <2>3. row \in VersionRow /\ q.stage.tag \in Tags
      BY <2>1 DEF DecideRequest, StageRow, VersionRow
    <2>4. DecisionEvent(k, q.decision) \in EventKeys
      BY <2>2 DEF EventKeys, DecisionEvent
    <2>5. [stages EXCEPT ![k].status = q.decision]
              \in [Keys -> StageRow \cup {None}]
      <3>1. stages[k] \in StageRow
        BY <1>7, <2>2 DEF CommitDecision, Undecided, TypeOK
      <3>2. [stages[k] EXCEPT !.status = q.decision] \in StageRow
        BY <2>1, <3>1 DEF StageRow, DecideRequest, Decisions
      <3> QED
        BY <2>2, <3>2 DEF TypeOK
    <2>6. /\ versions' \in [Keys -> VersionRow \cup {None}]
          /\ dist_tags' \in [Names -> [Tags -> Versions \cup {None}]]
      <3>1. CASE q.decision = "approved"
        <4>1. /\ versions' = [versions EXCEPT ![k] = row]
              /\ dist_tags' = [dist_tags EXCEPT ![k[1]][q.stage.tag] = k[2]]
          BY <1>7, <3>1, Zenon DEF CommitDecision
        <4> QED
          BY <2>2, <2>3, <4>1 DEF TypeOK
      <3>2. CASE q.decision # "approved"
        <4>1. UNCHANGED <<versions, dist_tags>>
          BY <1>7, <3>2, Zenon DEF CommitDecision
        <4> QED
          BY <4>1 DEF TypeOK
      <3> QED
        BY <3>1, <3>2
    <2> QED
      BY <1>7, <2>4, <2>5, <2>6 DEF CommitDecision, Finish, TypeOK
  <1>8. ASSUME NEW r \in Requests, NEW p \in Principals, NEW k \in Keys,
               NEW s \in RevokeStatuses, AuthorizeRevoke(r, p, k, s)
        PROVE  TypeOK'
    <2>1. [pc |-> "revoke.begin", key |-> k, status |-> s,
           actor |-> p.organization, rollback |-> None] \in RevokeRequest
      BY ConstantsAssumption DEF RevokeRequest
    <2> QED
      BY <1>8, <2>1 DEF AuthorizeRevoke, Begin, TypeOK, tables
  <1>9. ASSUME NEW r \in Requests, BeginRevoke(r) PROVE TypeOK'
    <2> DEFINE q == request[r]
    <2>1. q \in RevokeRequest
      BY <1>9, HeldByPc DEF BeginRevoke
    <2>2. RollbackTarget(q.key) \in Versions \cup {None}
      BY <2>1, RollbackIsActive DEF RevokeRequest
    <2>3. [q EXCEPT !.pc = "revoke.commit",
                    !.rollback = RollbackTarget(q.key)] \in RevokeRequest
      BY <2>1, <2>2 DEF RevokeRequest
    <2> QED
      BY <1>9, <2>3 DEF BeginRevoke, TypeOK, tables
  <1>10. ASSUME NEW r \in Requests, CommitRevoke(r) PROVE TypeOK'
    <2> DEFINE q == request[r]
               k == q.key
    <2>1. q \in RevokeRequest
      BY <1>10, HeldByPc DEF CommitRevoke
    <2>2. k \in Keys /\ k[1] \in Names /\ k[2] \in Versions
      BY <2>1 DEF RevokeRequest, Keys
    <2>3. TombstoneFor(k, q) \in Tombstone
      BY <2>1 DEF RevokeRequest, Tombstone, TombstoneFor
    <2>4. RevokeEvent(k, q.status) \in EventKeys
      BY <2>2 DEF EventKeys, RevokeEvent
    <2>5. Retag(dist_tags[k[1]], k[2], q.rollback)
              \in [Tags -> Versions \cup {None}]
      BY <2>1, <2>2 DEF TypeOK, Retag, RevokeRequest
    <2>6. [versions EXCEPT ![k].status = q.status]
              \in [Keys -> VersionRow \cup {None}]
      <3>1. versions[k] \in VersionRow
        BY <1>10, <2>2 DEF CommitRevoke, LockedRowExists, TypeOK
      <3>2. [versions[k] EXCEPT !.status = q.status] \in VersionRow
        BY <2>1, <3>1 DEF VersionRow, RevokeRequest
      <3> QED
        BY <2>2, <3>2 DEF TypeOK
    <2> QED
      BY <1>10, <2>2, <2>3, <2>4, <2>5, <2>6
      DEF CommitRevoke, Finish, TypeOK
  <1>11. ASSUME NEW r \in Requests, NEW p \in Principals, NEW n \in Names,
                NEW o \in Orgs, NEW role \in GrantRoles,
                AuthorizeGrant(r, p, n, o, role)
         PROVE  TypeOK'
    <2>1. [pc |-> "grant", name |-> n, owner |-> p.organization,
           grantee |-> o, role |-> role] \in GrantRequest
      BY ConstantsAssumption DEF GrantRequest
    <2> QED
      BY <1>11, <2>1 DEF AuthorizeGrant, Begin, TypeOK, tables
  <1>12. ASSUME NEW r \in Requests, WriteGrant(r) PROVE TypeOK'
    <2>1. request[r] \in GrantRequest
      BY <1>12, HeldByPc DEF WriteGrant
    <2> QED
      BY <1>12, <2>1 DEF WriteGrant, Finish, TypeOK, GrantRequest
  <1>13. ASSUME NEW r \in Requests, NEW p \in Principals, NEW k \in Keys,
                ReadVersion(r, p, k)
         PROVE  TypeOK'
    <2>1. ASSUME NEW o \in Orgs \cup {None}
          PROVE  [pc |-> "download", reader |-> o, key |-> k,
                  row |-> versions[k]] \in DownloadRequest
      BY <1>13 DEF ReadVersion, DownloadRequest, TypeOK
    <2>2. p.organization \in Orgs
      BY ConstantsAssumption
    <2>3. \E o \in Orgs \cup {None} :
              request' = [request EXCEPT ![r] =
                  [pc |-> "download", reader |-> o, key |-> k,
                   row |-> versions[k]]]
      BY <1>13, <2>2, Zenon DEF ReadVersion, Begin
    <2> QED
      BY <1>13, <2>1, <2>3 DEF ReadVersion, TypeOK, tables
  <1>14. ASSUME NEW r \in Requests, ServeDownload(r) \/ Fail(r) PROVE TypeOK'
    BY <1>14 DEF ServeDownload, Fail, Finish, TypeOK, tables
  <1> QED
    BY <1>1, <1>2, <1>3, <1>4, <1>5, <1>6, <1>7, <1>8, <1>9, <1>10, <1>11,
       <1>12, <1>13, <1>14
    DEF Next, StageSteps, DecideSteps, RevokeSteps, GrantSteps, DownloadSteps

-----------------------------------------------------------------------------
(***************************************************************************)
(* What the tables keep: the registry only ever adds to them.              *)
(***************************************************************************)
PackagesKept == \A n \in Names : packages[n] # None => packages'[n] = packages[n]
RolesKept ==
    \A n \in Names, o \in Orgs :
        package_roles[n][o] # None => package_roles'[n][o] # None
StagesKept ==
    \A k \in Keys : stages[k] # None =>
        /\ stages'[k] # None
        /\ stages'[k].organization = stages[k].organization
        /\ stages'[k].artifact = stages[k].artifact
        /\ stages'[k].tag = stages[k].tag
        /\ stages'[k].private = stages[k].private
        /\ stages[k].status # "staged" => stages'[k] = stages[k]
VersionsKept ==
    \A k \in Keys : versions[k] # None =>
        /\ versions'[k] # None
        /\ versions'[k].artifact = versions[k].artifact
        /\ versions'[k].organization = versions[k].organization
        /\ versions'[k].private = versions[k].private
        /\ versions'[k].status = "active" => versions[k].status = "active"

TablesKept ==
    PackagesKept /\ RolesKept /\ objects \subseteq objects' /\ StagesKept
        /\ VersionsKept

\* The steps that write no table.
ReadOnlyStep ==
    \E r \in Requests :
        \/ \E p \in Principals, a \in Artifacts, t \in Tags, b \in Visibilities :
               AuthorizeStage(r, p, a, t, b)
        \/ BeginStage(r)
        \/ \E p \in Principals, k \in Keys, decision \in Decisions :
               ReadStage(r, p, k, decision)
        \/ \E p \in Principals, k \in Keys, s \in RevokeStatuses :
               AuthorizeRevoke(r, p, k, s)
        \/ BeginRevoke(r)
        \/ \E p \in Principals, n \in Names, o \in Orgs, role \in GrantRoles :
               AuthorizeGrant(r, p, n, o, role)
        \/ \E p \in Principals, k \in Keys : ReadVersion(r, p, k)
        \/ ServeDownload(r)
        \/ Fail(r)

\* A step either leaves the tables alone or is one of the five that write.
LEMMA StepKinds ==
    ASSUME [Next]_vars
    PROVE  \/ UNCHANGED vars
           \/ ReadOnlyStep /\ UNCHANGED tables
           \/ \E r \in Requests :
                  \/ PutObject(r)
                  \/ CommitStage(r)
                  \/ CommitDecision(r)
                  \/ CommitRevoke(r)
                  \/ WriteGrant(r)
  <1>1. Next => \/ ReadOnlyStep
                \/ \E r \in Requests :
                       \/ PutObject(r)
                       \/ CommitStage(r)
                       \/ CommitDecision(r)
                       \/ CommitRevoke(r)
                       \/ WriteGrant(r)
    BY Zenon DEF Next, StageSteps, DecideSteps, RevokeSteps, GrantSteps,
                 DownloadSteps, ReadOnlyStep
  <1>2. ReadOnlyStep => UNCHANGED tables
    BY Zenon DEF ReadOnlyStep, AuthorizeStage, BeginStage, ReadStage, AuthorizeRevoke,
           BeginRevoke, AuthorizeGrant, ReadVersion, ServeDownload, Fail
  <1> QED
    BY <1>1, <1>2

\* The writes of a decision, spelled out.
LEMMA DecisionWrites ==
    ASSUME TypeOK, NEW r \in Requests, CommitDecision(r)
    PROVE  LET q == request[r]
               k == q.key
           IN  /\ q \in DecideRequest
               /\ k \in Keys /\ k[1] \in Names /\ k[2] \in Versions
               /\ stages[k] \in StageRow /\ stages[k].status = "staged"
               /\ [stages[k] EXCEPT !.status = q.decision] \in StageRow
               /\ stages' = [stages EXCEPT ![k] =
                      [stages[k] EXCEPT !.status = q.decision]]
               /\ q.decision = "approved" =>
                      /\ versions[k] = None
                      /\ [organization |-> q.stage.organization,
                          artifact |-> q.stage.artifact,
                          private |-> q.stage.private,
                          status |-> "active"] \in VersionRow
                      /\ versions' = [versions EXCEPT ![k] =
                             [organization |-> q.stage.organization,
                              artifact |-> q.stage.artifact,
                              private |-> q.stage.private,
                              status |-> "active"]]
                      /\ q.stage.tag \in Tags
                      /\ dist_tags' =
                             [dist_tags EXCEPT ![k[1]][q.stage.tag] = k[2]]
               /\ q.decision # "approved" => UNCHANGED <<versions, dist_tags>>
  <1> DEFINE q == request[r]
             k == q.key
             row == [organization |-> q.stage.organization,
                     artifact |-> q.stage.artifact,
                     private |-> q.stage.private, status |-> "active"]
  <1>1. q \in DecideRequest
    BY HeldByPc DEF CommitDecision
  <1>2. k \in Keys /\ k[1] \in Names /\ k[2] \in Versions
    BY <1>1 DEF DecideRequest, Keys
  <1>3. stages[k] \in StageRow /\ stages[k].status = "staged"
    BY <1>2 DEF CommitDecision, Undecided, TypeOK
  <1>4. [stages[k] EXCEPT !.status = q.decision] \in StageRow
    BY <1>1, <1>3 DEF StageRow, DecideRequest, Decisions
  <1>5. row \in VersionRow /\ q.stage.tag \in Tags
    BY <1>1 DEF DecideRequest, StageRow, VersionRow
  <1>6. stages' = [stages EXCEPT ![k] = [stages[k] EXCEPT !.status = q.decision]]
    BY <1>2 DEF CommitDecision, TypeOK
  <1>7. ASSUME q.decision = "approved"
        PROVE  /\ versions[k] = None
               /\ versions' = [versions EXCEPT ![k] = row]
               /\ dist_tags' = [dist_tags EXCEPT ![k[1]][q.stage.tag] = k[2]]
    BY <1>7, Zenon DEF CommitDecision, Undecided
  <1>8. ASSUME q.decision # "approved" PROVE UNCHANGED <<versions, dist_tags>>
    BY <1>8, Zenon DEF CommitDecision
  <1> HIDE DEF q, k, row
  <1>9. /\ q \in DecideRequest
        /\ k \in Keys /\ k[1] \in Names /\ k[2] \in Versions
        /\ stages[k] \in StageRow /\ stages[k].status = "staged"
        /\ [stages[k] EXCEPT !.status = q.decision] \in StageRow
        /\ stages' = [stages EXCEPT ![k] = [stages[k] EXCEPT !.status = q.decision]]
        /\ q.decision = "approved" =>
               /\ versions[k] = None
               /\ row \in VersionRow
               /\ versions' = [versions EXCEPT ![k] = row]
               /\ q.stage.tag \in Tags
               /\ dist_tags' = [dist_tags EXCEPT ![k[1]][q.stage.tag] = k[2]]
        /\ q.decision # "approved" => UNCHANGED <<versions, dist_tags>>
    BY <1>1, <1>2, <1>3, <1>4, <1>5, <1>6, <1>7, <1>8, Zenon
  <1> QED
    BY <1>9, Zenon DEF q, k, row

\* No step removes a row or changes what a row was created with.
LEMMA StepKeepsTables ==
    ASSUME TypeOK, LockedRowExists, [Next]_vars
    PROVE  TablesKept
  <1> USE DEF TablesKept, PackagesKept, RolesKept, StagesKept, VersionsKept
  <1>1. CASE UNCHANGED tables
    BY <1>1 DEF tables
  <1>2. ASSUME NEW r \in Requests, PutObject(r) PROVE TablesKept
    BY <1>2 DEF PutObject, ObjectsWith
  <1>3. ASSUME NEW r \in Requests, CommitStage(r) PROVE TablesKept
    <2>1. request[r] \in StageRequest
      BY <1>3, HeldByPc DEF CommitStage
    <2>2. request[r].artifact.key \in Keys /\ request[r].artifact.key[1] \in Names
      BY <2>1 DEF StageRequest, Artifacts, Keys
    <2> QED
      BY <1>3, <2>2 DEF CommitStage, PackageAfterInsert, TypeOK
  <1>4. ASSUME NEW r \in Requests, CommitDecision(r) PROVE TablesKept
    <2>1. StagesKept
      <3> DEFINE k == request[r].key
                 decided == [stages[k] EXCEPT !.status = request[r].decision]
      <3>1. /\ k \in Keys
            /\ stages[k] \in StageRow /\ stages[k].status = "staged"
            /\ decided \in StageRow
            /\ stages' = [stages EXCEPT ![k] = decided]
        BY <1>4, DecisionWrites, Zenon
      <3>2. /\ decided # None
            /\ decided.organization = stages[k].organization
            /\ decided.artifact = stages[k].artifact
            /\ decided.tag = stages[k].tag
            /\ decided.private = stages[k].private
        BY <3>1, NoneAssumption DEF StageRow
      <3> QED
        BY <3>1, <3>2 DEF TypeOK
    <2>2. VersionsKept
      <3>1. CASE request[r].decision = "approved"
        <4>1. request[r].key \in Keys /\ versions[request[r].key] = None
          BY <1>4, <3>1, DecisionWrites
        <4>2. ASSUME NEW k \in Keys, versions[k] # None
              PROVE  versions'[k] = versions[k]
          BY <1>4, <3>1, <4>1, <4>2, DecisionWrites DEF TypeOK
        <4> QED
          BY <4>2
      <3>2. CASE request[r].decision # "approved"
        BY <1>4, <3>2, DecisionWrites
      <3> QED
        BY <3>1, <3>2
    <2> QED
      BY <1>4, <2>1, <2>2 DEF CommitDecision
  <1>5. ASSUME NEW r \in Requests, CommitRevoke(r) PROVE TablesKept
    <2>1. request[r] \in RevokeRequest
      BY <1>5, HeldByPc DEF CommitRevoke
    <2>2. request[r].key \in Keys /\ request[r].status # "active"
      BY <2>1 DEF RevokeRequest
    <2>3. versions[request[r].key] \in VersionRow
      BY <1>5, <2>2 DEF CommitRevoke, LockedRowExists, TypeOK
    <2>4. [versions[request[r].key] EXCEPT !.status = request[r].status]
              \in VersionRow
      BY <2>1, <2>3 DEF VersionRow, RevokeRequest
    <2> QED
      BY <1>5, <2>2, <2>3, <2>4, NoneAssumption
      DEF CommitRevoke, TypeOK, VersionRow
  <1>6. ASSUME NEW r \in Requests, WriteGrant(r) PROVE TablesKept
    <2>1. request[r] \in GrantRequest
      BY <1>6, HeldByPc DEF WriteGrant
    <2> QED
      BY <1>6, <2>1, NoneAssumption DEF WriteGrant, TypeOK, GrantRequest
  <1>7. UNCHANGED vars => UNCHANGED tables
    BY DEF vars
  <1> QED
    BY <1>1, <1>2, <1>3, <1>4, <1>5, <1>6, <1>7, StepKinds

\* The writes of a staging transaction.
LEMMA StageWrites ==
    ASSUME TypeOK, NEW r \in Requests, CommitStage(r),
           NEW k, k = request[r].artifact.key
    PROVE  /\ request[r] \in StageRequest /\ request[r].pc = "stage.commit"
           /\ k \in Keys /\ k[1] \in Names
           /\ stages[k] = None
           /\ packages'[k[1]] \in PackageRow
           /\ packages'[k[1]].organization = request[r].owner
           /\ packages'[k[1]].private = request[r].private
           /\ \A n \in Names : n # k[1] => packages'[n] = packages[n]
           /\ stages'[k] = [organization |-> request[r].owner,
                            artifact |-> request[r].artifact,
                            tag |-> request[r].tag,
                            private |-> request[r].private,
                            status |-> "staged"]
           /\ stages'[k] \in StageRow
           /\ \A j \in Keys : j # k => stages'[j] = stages[j]
           /\ outbox' = outbox \cup {<<"stage.created", k>>}
           /\ UNCHANGED <<package_roles, objects, versions, dist_tags, tombstones>>
  <1>1. request[r] \in StageRequest /\ request[r].pc = "stage.commit"
    BY HeldByPc DEF CommitStage
  <1>2. k \in Keys /\ k[1] \in Names
    BY <1>1 DEF StageRequest, Artifacts, Keys
  <1> DEFINE row == PackageAfterInsert(k[1], request[r])
             staged == [organization |-> request[r].owner,
                        artifact |-> request[r].artifact,
                        tag |-> request[r].tag,
                        private |-> request[r].private, status |-> "staged"]
  <1>3. /\ row.organization = request[r].owner
        /\ row.private = request[r].private
        /\ stages[k] = None
        /\ packages' = [packages EXCEPT ![k[1]] = row]
        /\ stages' = [stages EXCEPT ![k] = staged]
        /\ outbox' = outbox \cup {<<"stage.created", k>>}
        /\ UNCHANGED <<package_roles, objects, versions, dist_tags, tombstones>>
    BY Zenon DEF CommitStage, PackageAdmits
  <1>4. row \in PackageRow
    BY <1>1, <1>2 DEF StageRequest, PackageRow, PackageAfterInsert, TypeOK
  <1>5. staged \in StageRow
    BY <1>1 DEF StageRequest, StageRow
  <1> HIDE DEF row, staged
  <1>6. /\ packages'[k[1]] = row
        /\ \A n \in Names : n # k[1] => packages'[n] = packages[n]
        /\ stages'[k] = staged
        /\ \A j \in Keys : j # k => stages'[j] = stages[j]
    BY <1>2, <1>3 DEF TypeOK
  <1>7. /\ packages'[k[1]].organization = request[r].owner
        /\ packages'[k[1]].private = request[r].private
        /\ packages'[k[1]] \in PackageRow
        /\ stages'[k] \in StageRow
    BY <1>3, <1>4, <1>5, <1>6, Zenon
  <1> QED
    BY <1>1, <1>2, <1>3, <1>6, <1>7, Zenon DEF staged

\* The writes of a revocation's transaction.
LEMMA RevokeWrites ==
    ASSUME TypeOK, LockedRowExists, NEW r \in Requests, CommitRevoke(r),
           NEW k, k = request[r].key
    PROVE  /\ request[r] \in RevokeRequest /\ request[r].pc = "revoke.commit"
           /\ k \in Keys /\ k[1] \in Names /\ k[2] \in Versions
           /\ request[r].status \in {"revoked", "quarantined"}
           /\ versions[k] # None
           /\ versions'[k] # None /\ versions'[k].status = request[r].status
           /\ \A j \in Keys : j # k => versions'[j] = versions[j]
           /\ tombstones'[k] = [status |-> request[r].status,
                                actor |-> request[r].actor]
           /\ tombstones'[k] # None
           /\ \A j \in Keys : j # k => tombstones'[j] = tombstones[j]
           /\ \A n \in Names, t \in Tags :
                  \/ dist_tags'[n][t] = dist_tags[n][t]
                  \/ n = k[1] /\ dist_tags'[n][t] = request[r].rollback
           /\ outbox' = outbox \cup {RevokeEvent(k, request[r].status)}
           /\ UNCHANGED <<packages, package_roles, objects, stages>>
  <1> DEFINE q == request[r]
  <1>1. q \in RevokeRequest /\ q.pc = "revoke.commit"
    BY HeldByPc DEF CommitRevoke
  <1>2. /\ k \in Keys /\ k[1] \in Names /\ k[2] \in Versions
        /\ q.status \in {"revoked", "quarantined"}
    BY <1>1 DEF RevokeRequest, Keys
  <1>3. /\ versions' = [versions EXCEPT ![k].status = q.status]
        /\ tombstones' = [tombstones EXCEPT ![k] = TombstoneFor(k, q)]
        /\ dist_tags' = [dist_tags EXCEPT ![k[1]] = Retag(@, k[2], q.rollback)]
        /\ outbox' = outbox \cup {RevokeEvent(k, q.status)}
        /\ UNCHANGED <<packages, package_roles, objects, stages>>
    BY DEF CommitRevoke
  <1>4. versions[k] \in VersionRow /\ versions[k] # None
    BY <1>1, <1>2 DEF LockedRowExists, TypeOK
  <1>5. /\ versions'[k] = [versions[k] EXCEPT !.status = q.status]
        /\ \A j \in Keys : j # k => versions'[j] = versions[j]
    BY <1>2, <1>3 DEF TypeOK
  <1>6. versions'[k] \in VersionRow /\ versions'[k].status = q.status
    BY <1>2, <1>4, <1>5 DEF VersionRow
  <1>7. /\ tombstones'[k] = TombstoneFor(k, q)
        /\ \A j \in Keys : j # k => tombstones'[j] = tombstones[j]
    BY <1>2, <1>3 DEF TypeOK
  <1>8. TombstoneFor(k, q) \in Tombstone
    BY <1>1 DEF RevokeRequest, Tombstone, TombstoneFor
  <1>9. ASSUME NEW n \in Names, NEW t \in Tags
        PROVE  \/ dist_tags'[n][t] = dist_tags[n][t]
               \/ n = k[1] /\ dist_tags'[n][t] = q.rollback
    BY <1>2, <1>3 DEF TypeOK, Retag
  <1>10. versions'[k] # None /\ tombstones'[k] # None
    BY <1>6, <1>7, <1>8, NoneAssumption
  <1>11. tombstones'[k] = [status |-> q.status, actor |-> q.actor]
    BY <1>7 DEF TombstoneFor
  <1> HIDE DEF q
  <1>12. outbox' = outbox \cup {RevokeEvent(k, q.status)} /\ UNCHANGED <<packages, package_roles, objects, stages>>
    BY <1>3
  <1> QED
    BY <1>1, <1>2, <1>12, <1>4, <1>5, <1>6, <1>7, <1>9, <1>10, <1>11, Zenon
    DEF q

-----------------------------------------------------------------------------
(***************************************************************************)
(* What a handler may rely on between two of its steps.                    *)
(***************************************************************************)
StagePcs == {"stage.put", "stage.begin", "stage.commit"}

\* A staging handler's owner may own the name, and once past the object write
\* its archive is in the store.
StageHeld ==
    \A r \in Requests : request[r].pc \in StagePcs =>
        /\ Scope[request[r].artifact.key[1]] \in {None, request[r].owner}
        /\ request[r].pc # "stage.put" => request[r].artifact \in objects

\* The stage a deciding handler read differs from the row by its status only.
DecideHeld ==
    \A r \in Requests : request[r].pc = "decide" =>
        LET q == request[r] IN
        /\ stages[q.key] # None
        /\ q.stage.organization = stages[q.key].organization
        /\ q.stage.artifact = stages[q.key].artifact
        /\ q.stage.private = stages[q.key].private
        /\ q.decision = "approved" => q.stage.artifact.body \notin DeniedBodies

\* A revocation's rollback target is published, and the actor on a scoped name
\* is its future or present owner or has a role.
RevokeHeld ==
    \A r \in Requests : request[r].pc \in {"revoke.begin", "revoke.commit"} =>
        LET q == request[r]
            n == q.key[1]
        IN  /\ request[r].pc = "revoke.commit" /\ q.rollback # None =>
                   versions[<<n, q.rollback>>] # None
            /\ Scope[n] # None =>
                   \/ q.actor = Scope[n]
                   \/ package_roles[n][q.actor] # None

\* A staged archive is the one its key names, and it is stored.
StagedStored ==
    \A k \in Keys : stages[k] # None =>
        stages[k].artifact.key = k /\ stages[k].artifact \in objects

\* A request that changes in a step took the step itself: it began, it went on
\* to its transaction, or it ended.
LEMMA OwnStep ==
    ASSUME TypeOK, [Next]_vars, NEW x \in Requests, request'[x] # request[x]
    PROVE  \/ request'[x] = Idle
           \/ \E p \in Principals, a \in Artifacts, t \in Tags, b \in Visibilities :
                  AuthorizeStage(x, p, a, t, b)
           \/ PutObject(x)
           \/ BeginStage(x)
           \/ \E p \in Principals, k \in Keys, decision \in Decisions :
                  ReadStage(x, p, k, decision)
           \/ \E p \in Principals, k \in Keys, s \in RevokeStatuses :
                  AuthorizeRevoke(x, p, k, s)
           \/ BeginRevoke(x)
           \/ \E p \in Principals, n \in Names, o \in Orgs, role \in GrantRoles :
                  AuthorizeGrant(x, p, n, o, role)
           \/ \E p \in Principals, k \in Keys : ReadVersion(x, p, k)
  <1>1. request' # request
    OBVIOUS
  <1>2. PICK r \in Requests :
            \/ StageSteps(r) \/ DecideSteps(r) \/ RevokeSteps(r)
            \/ GrantSteps(r) \/ DownloadSteps(r) \/ Fail(r)
    BY <1>1 DEF Next, vars
  <1>3. ASSUME NEW held, request' = [request EXCEPT ![r] = held] PROVE r = x
    BY <1>3 DEF TypeOK
  <1>4. ASSUME Finish(r) PROVE request'[x] = Idle
    BY <1>4 DEF Finish, TypeOK
  <1>5. \E held : request' = [request EXCEPT ![r] = held]
    <2>1. CASE StageSteps(r)
      BY <2>1, Zenon DEF StageSteps, AuthorizeStage, PutObject, BeginStage,
                         CommitStage, Begin, Finish
    <2>2. CASE DecideSteps(r)
      BY <2>2, Zenon DEF DecideSteps, ReadStage, CommitDecision, Begin, Finish
    <2>3. CASE RevokeSteps(r)
      <3>1. CASE BeginRevoke(r)
        BY <3>1 DEF BeginRevoke
      <3>2. CASE ~ BeginRevoke(r)
        BY <2>3, <3>2, Zenon
        DEF RevokeSteps, AuthorizeRevoke, CommitRevoke, Begin, Finish
      <3> QED
        BY <3>1, <3>2
    <2>4. CASE GrantSteps(r) \/ Fail(r)
      BY <2>4, Zenon DEF GrantSteps, AuthorizeGrant, WriteGrant, Fail, Begin, Finish
    <2>5. CASE DownloadSteps(r)
      BY <2>5, Zenon DEF DownloadSteps, ReadVersion, ServeDownload, Begin, Finish
    <2> QED
      BY <1>2, <2>1, <2>2, <2>3, <2>4, <2>5
  <1>6. r = x
    BY <1>3, <1>5
  <1>7. CASE StageSteps(x)
    BY <1>4, <1>6, <1>7 DEF StageSteps, CommitStage
  <1>8. CASE DecideSteps(x)
    BY <1>4, <1>6, <1>8 DEF DecideSteps, CommitDecision
  <1>9. CASE RevokeSteps(x)
    BY <1>4, <1>6, <1>9 DEF RevokeSteps, CommitRevoke
  <1>10. CASE GrantSteps(x) \/ Fail(x)
    BY <1>4, <1>6, <1>10 DEF GrantSteps, WriteGrant, Fail
  <1>11. CASE DownloadSteps(x)
    BY <1>4, <1>6, <1>11 DEF DownloadSteps, ServeDownload
  <1> QED
    BY <1>2, <1>6, <1>7, <1>8, <1>9, <1>10, <1>11

-----------------------------------------------------------------------------
\* The inductive invariant.
IInv ==
    /\ TypeOK
    /\ LockedRowExists
    /\ OneOwner
    /\ StagedStored
    /\ PublishedAsReviewed
    /\ TombstoneAgrees
    /\ ScopedRevokedByTrusted
    /\ AuditIntentMatches
    /\ TagsPublished
    /\ DownloadsReviewed
    /\ StageHeld
    /\ DecideHeld
    /\ RevokeHeld

\* A request that begins or goes on in a step does so with the tables as they
\* are: the only write such a step makes is the object's.
LEMMA RequestsRun ==
    ASSUME TypeOK, NEW x \in Requests
    PROVE  /\ \A p \in Principals, a \in Artifacts, t \in Tags, b \in Visibilities :
                  AuthorizeStage(x, p, a, t, b) =>
                  request'[x] = [pc |-> "stage.put",
                                 owner |-> OwnerFor(p, a.key[1]),
                                 artifact |-> a, tag |-> t, private |-> b]
           /\ PutObject(x) =>
                  request'[x] = [request[x] EXCEPT !.pc = "stage.begin"]
           /\ BeginStage(x) =>
                  request'[x] = [request[x] EXCEPT !.pc = "stage.commit"]
           /\ \A p \in Principals, k \in Keys, decision \in Decisions :
                  ReadStage(x, p, k, decision) =>
                  request'[x] = [pc |-> "decide", decision |-> decision,
                                 key |-> k, stage |-> stages[k]]
           /\ \A p \in Principals, k \in Keys, s \in RevokeStatuses :
                  AuthorizeRevoke(x, p, k, s) =>
                  request'[x] = [pc |-> "revoke.begin", key |-> k, status |-> s,
                                 actor |-> p.organization, rollback |-> None]
           /\ BeginRevoke(x) =>
                  request'[x] = [request[x] EXCEPT !.pc = "revoke.commit",
                                     !.rollback = RollbackTarget(request[x].key)]
           /\ \A p \in Principals, n \in Names, o \in Orgs, role \in GrantRoles :
                  AuthorizeGrant(x, p, n, o, role) => request'[x].pc = "grant"
           /\ \A p \in Principals, k \in Keys : ReadVersion(x, p, k) =>
                  request'[x] = [pc |-> "download",
                                 reader |-> IF versions[k].private
                                            THEN p.organization ELSE None,
                                 key |-> k, row |-> versions[k]]
  <1>1. ASSUME NEW held, Begin(x, held) PROVE request'[x] = held
    BY <1>1 DEF Begin, TypeOK
  <1>2. ASSUME NEW p \in Principals, NEW k \in Keys, ReadVersion(x, p, k)
        PROVE  request'[x] = [pc |-> "download",
                              reader |-> IF versions[k].private
                                         THEN p.organization ELSE None,
                              key |-> k, row |-> versions[k]]
    <2>1. CASE versions[k].private
      <3>1. Begin(x, [pc |-> "download", reader |-> p.organization,
                      key |-> k, row |-> versions[k]])
        BY <1>2, <2>1, Zenon DEF ReadVersion
      <3> QED
        BY <1>1, <2>1, <3>1
    <2>2. CASE ~ versions[k].private
      <3>1. Begin(x, [pc |-> "download", reader |-> None,
                      key |-> k, row |-> versions[k]])
        BY <1>2, <2>2, Zenon DEF ReadVersion
      <3> QED
        BY <1>1, <2>2, <3>1
    <2> QED
      BY <2>1, <2>2
  <1>3. PutObject(x) => request'[x] = [request[x] EXCEPT !.pc = "stage.begin"]
    BY DEF PutObject, TypeOK
  <1>4. BeginStage(x) => request'[x] = [request[x] EXCEPT !.pc = "stage.commit"]
    BY DEF BeginStage, TypeOK
  <1>5. BeginRevoke(x) =>
            request'[x] = [request[x] EXCEPT !.pc = "revoke.commit",
                               !.rollback = RollbackTarget(request[x].key)]
    BY DEF BeginRevoke, TypeOK
  <1>6. ASSUME NEW p \in Principals, NEW a \in Artifacts, NEW t \in Tags,
               NEW b \in Visibilities, AuthorizeStage(x, p, a, t, b)
        PROVE  request'[x] = [pc |-> "stage.put",
                              owner |-> OwnerFor(p, a.key[1]),
                              artifact |-> a, tag |-> t, private |-> b]
    BY <1>1, <1>6, Zenon DEF AuthorizeStage
  <1>7. ASSUME NEW p \in Principals, NEW k \in Keys, NEW decision \in Decisions,
               ReadStage(x, p, k, decision)
        PROVE  request'[x] = [pc |-> "decide", decision |-> decision,
                              key |-> k, stage |-> stages[k]]
    BY <1>1, <1>7, Zenon DEF ReadStage
  <1>8. ASSUME NEW p \in Principals, NEW k \in Keys, NEW s \in RevokeStatuses,
               AuthorizeRevoke(x, p, k, s)
        PROVE  request'[x] = [pc |-> "revoke.begin", key |-> k, status |-> s,
                              actor |-> p.organization, rollback |-> None]
    BY <1>1, <1>8, Zenon DEF AuthorizeRevoke
  <1>9. ASSUME NEW p \in Principals, NEW n \in Names, NEW o \in Orgs,
               NEW role \in GrantRoles, AuthorizeGrant(x, p, n, o, role)
        PROVE  request'[x].pc = "grant"
    BY <1>9 DEF AuthorizeGrant, Begin, TypeOK
  <1> QED
    BY <1>2, <1>3, <1>4, <1>5, <1>6, <1>7, <1>8, <1>9, Zenon

\* Where a request stands after a step tells which step it took.
LEMMA StepByPc ==
    ASSUME TypeOK, [Next]_vars, NEW x \in Requests, request'[x] # request[x]
    PROVE  \/ request'[x].pc \in {"idle", "grant"}
           \/ /\ request'[x].pc = "stage.put"
              /\ \E p \in Principals, a \in Artifacts, t \in Tags,
                    b \in Visibilities : AuthorizeStage(x, p, a, t, b)
           \/ request'[x].pc = "stage.begin" /\ PutObject(x)
           \/ request'[x].pc = "stage.commit" /\ BeginStage(x)
           \/ /\ request'[x].pc = "decide"
              /\ \E p \in Principals, k \in Keys, decision \in Decisions :
                    ReadStage(x, p, k, decision)
           \/ /\ request'[x].pc = "revoke.begin"
              /\ \E p \in Principals, k \in Keys, s \in RevokeStatuses :
                    AuthorizeRevoke(x, p, k, s)
           \/ request'[x].pc = "revoke.commit" /\ BeginRevoke(x)
           \/ /\ request'[x].pc = "download"
              /\ \E p \in Principals, k \in Keys : ReadVersion(x, p, k)
  <1>1. CASE request'[x] = Idle
    BY <1>1 DEF Idle
  <1>2. ASSUME NEW p \in Principals, NEW a \in Artifacts, NEW t \in Tags,
               NEW b \in Visibilities, AuthorizeStage(x, p, a, t, b)
        PROVE  request'[x].pc = "stage.put"
    <2>1. request'[x] = [pc |-> "stage.put", owner |-> OwnerFor(p, a.key[1]),
                         artifact |-> a, tag |-> t, private |-> b]
      BY <1>2, RequestsRun, Zenon
    <2> QED
      BY <2>1
  <1>3. ASSUME PutObject(x) PROVE request'[x].pc = "stage.begin"
    <2>1. request[x] \in StageRequest
      BY <1>3, HeldByPc DEF PutObject
    <2> QED
      BY <1>3, <2>1 DEF PutObject, TypeOK, StageRequest
  <1>4. ASSUME BeginStage(x) PROVE request'[x].pc = "stage.commit"
    <2>1. request[x] \in StageRequest
      BY <1>4, HeldByPc DEF BeginStage
    <2> QED
      BY <1>4, <2>1 DEF BeginStage, TypeOK, StageRequest
  <1>5. ASSUME NEW p \in Principals, NEW k \in Keys, NEW decision \in Decisions,
               ReadStage(x, p, k, decision)
        PROVE  request'[x].pc = "decide"
    <2>1. Begin(x, [pc |-> "decide", decision |-> decision, key |-> k,
                    stage |-> stages[k]])
      BY <1>5, Zenon DEF ReadStage
    <2> QED
      BY <2>1 DEF Begin, TypeOK
  <1>6. ASSUME NEW p \in Principals, NEW k \in Keys, NEW s \in RevokeStatuses,
               AuthorizeRevoke(x, p, k, s)
        PROVE  request'[x].pc = "revoke.begin"
    <2>1. request'[x] = [pc |-> "revoke.begin", key |-> k, status |-> s,
                         actor |-> p.organization, rollback |-> None]
      BY <1>6, RequestsRun, Zenon
    <2> QED
      BY <2>1
  <1>7. ASSUME BeginRevoke(x) PROVE request'[x].pc = "revoke.commit"
    <2>1. request[x] \in RevokeRequest
      BY <1>7, HeldByPc DEF BeginRevoke
    <2> QED
      BY <1>7, <2>1 DEF BeginRevoke, TypeOK, RevokeRequest
  <1>8. ASSUME NEW p \in Principals, NEW n \in Names, NEW o \in Orgs,
               NEW role \in GrantRoles, AuthorizeGrant(x, p, n, o, role)
        PROVE  request'[x].pc = "grant"
    BY <1>8, RequestsRun, Zenon
  <1>9. ASSUME NEW p \in Principals, NEW k \in Keys, ReadVersion(x, p, k)
        PROVE  request'[x].pc = "download"
    <2>1. \E o : Begin(x, [pc |-> "download", reader |-> o, key |-> k,
                           row |-> versions[k]])
      BY <1>9, Zenon DEF ReadVersion
    <2> QED
      BY <2>1 DEF Begin, TypeOK
  <1> QED
    BY <1>1, <1>2, <1>3, <1>4, <1>5, <1>6, <1>7, <1>8, <1>9, OwnStep, Zenon

\* StageHeld is kept: authorization compares a new name's scope, and the object
\* is written before the transaction.
LEMMA StageHeldStep ==
    ASSUME IInv, [Next]_vars, TablesKept
    PROVE  StageHeld'
  <1> USE DEF StagePcs
  <1> SUFFICES ASSUME NEW x \in Requests, request'[x].pc \in StagePcs
               PROVE  /\ Scope[request'[x].artifact.key[1]]
                             \in {None, request'[x].owner}
                      /\ request'[x].pc # "stage.put" =>
                             request'[x].artifact \in objects'
    BY DEF StageHeld
  <1>0. TypeOK
    BY DEF IInv
  <1>1. CASE request'[x] = request[x]
    BY <1>1 DEF IInv, StageHeld, TablesKept
  <1>2. CASE request'[x] # request[x]
    <2>1. ASSUME NEW p \in Principals, NEW a \in Artifacts, NEW t \in Tags,
                 NEW b \in Visibilities, AuthorizeStage(x, p, a, t, b)
          PROVE  /\ Scope[request'[x].artifact.key[1]]
                        \in {None, request'[x].owner}
                 /\ request'[x].pc = "stage.put"
      <3>1. a.key[1] \in Names
        BY DEF Artifacts, Keys
      <3>2. Scope[a.key[1]] \in {None, OwnerFor(p, a.key[1])}
        BY <2>1, <3>1 DEF AuthorizeStage, Authorized, OwnerFor, IInv, OneOwner
      <3>3. request'[x] = [pc |-> "stage.put", owner |-> OwnerFor(p, a.key[1]),
                           artifact |-> a, tag |-> t, private |-> b]
        BY <1>0, <2>1, RequestsRun
      <3> QED
        BY <3>2, <3>3
    <2>2. ASSUME PutObject(x) \/ BeginStage(x)
          PROVE  /\ Scope[request'[x].artifact.key[1]]
                        \in {None, request'[x].owner}
                 /\ request'[x].artifact \in objects'
      <3>1. request[x] \in StageRequest /\ request[x].pc \in StagePcs
        BY <1>0, <2>2, HeldByPc DEF PutObject, BeginStage
      <3>2. /\ request'[x].artifact = request[x].artifact
            /\ request'[x].owner = request[x].owner
        BY <1>0, <2>2, <3>1, RequestsRun DEF StageRequest
      <3>3. request[x].artifact \in objects'
        BY <2>2, <3>1
        DEF PutObject, ObjectsWith, BeginStage, IInv, StageHeld, TablesKept
      <3> QED
        BY <3>1, <3>2, <3>3 DEF IInv, StageHeld
    <2> QED
      BY <1>0, <1>2, <2>1, <2>2, StepByPc
  <1> QED
    BY <1>1, <1>2

\* DecideHeld is kept: the columns a decision copies never change.
LEMMA DecideHeldStep ==
    ASSUME IInv, [Next]_vars, TablesKept
    PROVE  DecideHeld'
  <1> SUFFICES ASSUME NEW x \in Requests, request'[x].pc = "decide"
               PROVE  /\ stages'[request'[x].key] # None
                      /\ request'[x].stage.organization
                             = stages'[request'[x].key].organization
                      /\ request'[x].stage.artifact
                             = stages'[request'[x].key].artifact
                      /\ request'[x].stage.private
                             = stages'[request'[x].key].private
                      /\ request'[x].decision = "approved" =>
                             request'[x].stage.artifact.body \notin DeniedBodies
    BY DEF DecideHeld
  <1>0. TypeOK
    BY DEF IInv
  <1>1. CASE request'[x] = request[x]
    <2>1. request[x] \in DecideRequest
      BY <1>0, <1>1, HeldByPc
    <2>2. request[x].key \in Keys
      BY <2>1 DEF DecideRequest
    <2> QED
      BY <1>1, <2>2 DEF IInv, DecideHeld, TablesKept, StagesKept
  <1>2. CASE request'[x] # request[x]
    <2>1. ASSUME NEW p \in Principals, NEW k \in Keys, NEW decision \in Decisions,
                 ReadStage(x, p, k, decision)
          PROVE  /\ request'[x].key = k
                 /\ request'[x].stage = stages[k]
                 /\ stages[k] # None
                 /\ request'[x].decision = "approved" =>
                        stages[k].artifact.body \notin DeniedBodies
      <3>1. request'[x] = [pc |-> "decide", decision |-> decision, key |-> k,
                           stage |-> stages[k]]
        BY <1>0, <2>1, RequestsRun
      <3>2. /\ stages[k] # None
            /\ decision = "approved" => stages[k].artifact.body \notin DeniedBodies
        BY <2>1, Zenon DEF ReadStage, Approvable
      <3>3. /\ request'[x].decision = decision
            /\ request'[x].key = k
            /\ request'[x].stage = stages[k]
        BY <3>1
      <3> QED
        BY <3>2, <3>3
    <2>4. \E p \in Principals, k \in Keys, decision \in Decisions :
              ReadStage(x, p, k, decision)
      BY <1>0, <1>2, StepByPc
    <2>5. PICK k \in Keys : /\ request'[x].key = k
                            /\ request'[x].stage = stages[k]
                            /\ stages[k] # None
                            /\ request'[x].decision = "approved" =>
                                   stages[k].artifact.body \notin DeniedBodies
      BY <2>1, <2>4
    <2> QED
      BY <2>5 DEF TablesKept, StagesKept
  <1> QED
    BY <1>1, <1>2

\* LockedRowExists is kept: the transaction found the row, and rows stay.
LEMMA LockedRowStep ==
    ASSUME IInv, [Next]_vars, TablesKept
    PROVE  LockedRowExists'
  <1> SUFFICES ASSUME NEW x \in Requests, request'[x].pc = "revoke.commit"
               PROVE  versions'[request'[x].key] # None
    BY DEF LockedRowExists
  <1>0. TypeOK
    BY DEF IInv
  <1>1. CASE request'[x] = request[x]
    <2>1. request[x].key \in Keys
      BY <1>0, <1>1, HeldByPc DEF RevokeRequest
    <2> QED
      BY <1>1, <2>1 DEF IInv, LockedRowExists, TablesKept, VersionsKept
  <1>2. CASE request'[x] # request[x]
    <2>1. BeginRevoke(x)
      BY <1>0, <1>2, StepByPc
    <2>2. request[x] \in RevokeRequest
      BY <1>0, <2>1, HeldByPc DEF BeginRevoke
    <2>3. request'[x].key = request[x].key /\ request[x].key \in Keys
      BY <1>0, <2>1, <2>2, RequestsRun DEF RevokeRequest
    <2> QED
      BY <2>1, <2>3 DEF BeginRevoke, TablesKept, VersionsKept
  <1> QED
    BY <1>1, <1>2

\* RevokeHeld is kept: authorization on a scoped name admits its organization
\* and those with a role, and the rollback target is read from the table.
LEMMA RevokeHeldStep ==
    ASSUME IInv, [Next]_vars, TablesKept
    PROVE  RevokeHeld'
  <1> DEFINE Held(q) ==
                 /\ q.pc = "revoke.commit" /\ q.rollback # None =>
                        versions[<<q.key[1], q.rollback>>] # None
                 /\ Scope[q.key[1]] # None =>
                        \/ q.actor = Scope[q.key[1]]
                        \/ package_roles[q.key[1]][q.actor] # None
             HeldNext(q) ==
                 /\ q.pc = "revoke.commit" /\ q.rollback # None =>
                        versions'[<<q.key[1], q.rollback>>] # None
                 /\ Scope[q.key[1]] # None =>
                        \/ q.actor = Scope[q.key[1]]
                        \/ package_roles'[q.key[1]][q.actor] # None
  <1> SUFFICES ASSUME NEW x \in Requests,
                      request'[x].pc \in {"revoke.begin", "revoke.commit"}
               PROVE  HeldNext(request'[x])
    BY DEF RevokeHeld
  <1>0. TypeOK
    BY DEF IInv
  <1>1. ASSUME NEW q \in RevokeRequest, Held(q) PROVE HeldNext(q)
    <2>1. q.key[1] \in Names /\ q.actor \in Orgs /\ q.rollback \in Versions \cup {None}
      BY DEF RevokeRequest, Keys
    <2>2. q.rollback # None => <<q.key[1], q.rollback>> \in Keys
      BY <2>1 DEF Keys
    <2> QED
      BY <1>1, <2>1, <2>2 DEF TablesKept, VersionsKept, RolesKept
  <1>2. CASE request'[x] = request[x]
    <2>1. request[x] \in RevokeRequest
      BY <1>0, <1>2, HeldByPc
    <2>2. Held(request[x])
      BY <1>2 DEF IInv, RevokeHeld
    <2> HIDE DEF Held, HeldNext
    <2> QED
      BY <1>1, <1>2, <2>1, <2>2
  <1>3. ASSUME BeginRevoke(x) PROVE HeldNext(request'[x])
    <2>1. request[x] \in RevokeRequest /\ request[x].pc = "revoke.begin"
      BY <1>0, <1>3, HeldByPc DEF BeginRevoke
    <2>2. request[x].key \in Keys
      BY <2>1 DEF RevokeRequest
    <2>3. RollbackTarget(request[x].key) # None =>
              versions[<<request[x].key[1], RollbackTarget(request[x].key)>>] # None
      BY <1>0, <2>2, RollbackIsActive DEF ActiveVersions
    <2>4. /\ request'[x] \in RevokeRequest
          /\ request'[x].key = request[x].key
          /\ request'[x].actor = request[x].actor
          /\ request'[x].rollback = RollbackTarget(request[x].key)
      BY <1>0, <1>3, <2>1, <2>2, RequestsRun, RollbackIsActive DEF RevokeRequest
    <2>5. Held(request'[x])
      BY <2>1, <2>3, <2>4 DEF IInv, RevokeHeld
    <2> HIDE DEF Held, HeldNext
    <2> QED
      BY <1>1, <2>4, <2>5
  <1>4. ASSUME NEW p \in Principals, NEW k \in Keys, NEW s \in RevokeStatuses,
               AuthorizeRevoke(x, p, k, s)
        PROVE  HeldNext(request'[x])
    <2>1. request'[x] = [pc |-> "revoke.begin", key |-> k, status |-> s,
                         actor |-> p.organization, rollback |-> None]
      BY <1>0, <1>4, RequestsRun, Zenon
    <2>2. request'[x] \in RevokeRequest
      BY <2>1, ConstantsAssumption DEF RevokeRequest
    <2>3. k[1] \in Names /\ p.organization \in Orgs
      BY ConstantsAssumption DEF Keys
    <2>4. Scope[k[1]] # None => \/ p.organization = Scope[k[1]]
                                \/ package_roles[k[1]][p.organization] # None
      <3>1. Authorized(p, k[1], TRUE)
        BY <1>4, Zenon DEF AuthorizeRevoke
      <3> QED
        BY <2>3, <3>1, NoneAssumption
        DEF Authorized, IInv, OneOwner, WriteRoles, Roles
    <2>5. Held(request'[x])
      BY <2>1, <2>4
    <2> HIDE DEF Held, HeldNext
    <2> QED
      BY <1>1, <2>2, <2>5
  <1> HIDE DEF HeldNext
  <1> QED
    BY <1>0, <1>2, <1>3, <1>4, StepByPc

\* DownloadsReviewed is kept: what the handler read of the row never changes,
\* and neither owner nor role is taken away.
LEMMA DownloadsStep ==
    ASSUME IInv, [Next]_vars, TablesKept
    PROVE  DownloadsReviewed'
  <1> DEFINE Reviewed(q) ==
                 /\ q.row.artifact \in objects
                 /\ stages[q.key] # None /\ stages[q.key].status = "approved"
                 /\ q.row.artifact = stages[q.key].artifact
                 /\ q.row.artifact.body \notin DeniedBodies
             Readable(q) ==
                 q.row.private =>
                     /\ q.reader # None
                     /\ \/ q.reader = packages[q.key[1]].organization
                        \/ package_roles[q.key[1]][q.reader] # None
             ReviewedNext(q) ==
                 /\ q.row.artifact \in objects'
                 /\ stages'[q.key] # None /\ stages'[q.key].status = "approved"
                 /\ q.row.artifact = stages'[q.key].artifact
                 /\ q.row.artifact.body \notin DeniedBodies
             ReadableNext(q) ==
                 q.row.private =>
                     /\ q.reader # None
                     /\ \/ q.reader = packages'[q.key[1]].organization
                        \/ package_roles'[q.key[1]][q.reader] # None
  <1> SUFFICES ASSUME NEW x \in Requests, request'[x].pc = "download"
               PROVE  ReviewedNext(request'[x]) /\ ReadableNext(request'[x])
    BY Zenon DEF DownloadsReviewed
  <1>0. TypeOK
    BY DEF IInv
  <1>1. ASSUME NEW q \in DownloadRequest, Reviewed(q), Readable(q)
        PROVE  ReviewedNext(q) /\ ReadableNext(q)
    <2>1. q.key \in Keys /\ q.key[1] \in Names /\ q.reader \in Orgs \cup {None}
      BY DEF DownloadRequest, Keys
    <2>2. ReviewedNext(q)
      BY <1>1, <2>1 DEF TablesKept, StagesKept
    <2>3. packages'[q.key[1]] = packages[q.key[1]]
      BY <1>1, <2>1 DEF IInv, OneOwner, TablesKept, PackagesKept
    <2>4. q.reader # None /\ package_roles[q.key[1]][q.reader] # None =>
              package_roles'[q.key[1]][q.reader] # None
      BY <2>1 DEF TablesKept, RolesKept
    <2>5. ReadableNext(q)
      BY <1>1, <2>3, <2>4, Zenon
    <2> QED
      BY <2>2, <2>5, Zenon
  <1>2. CASE request'[x] = request[x]
    <2>1. request[x] \in DownloadRequest
      BY <1>0, <1>2, HeldByPc
    <2>2. Reviewed(request[x]) /\ Readable(request[x])
      BY <1>2, Zenon DEF IInv, DownloadsReviewed
    <2> HIDE DEF Reviewed, Readable, ReviewedNext, ReadableNext
    <2> QED
      BY <1>1, <1>2, <2>1, <2>2
  <1>3. ASSUME NEW p \in Principals, NEW k \in Keys, ReadVersion(x, p, k)
        PROVE  ReviewedNext(request'[x]) /\ ReadableNext(request'[x])
    <2> DEFINE admitted == IF versions[k].private THEN p.organization ELSE None
               q == [pc |-> "download", reader |-> admitted, key |-> k,
                     row |-> versions[k]]
    <2>1. request'[x] = q
      BY <1>0, <1>3, RequestsRun, Zenon
    <2>2. p.organization \in Orgs /\ p.organization # None /\ k[1] \in Names
      BY ConstantsAssumption, NoneAssumption DEF Keys
    <2>3. admitted \in Orgs \cup {None}
      BY <2>2, Zenon
    <2>4. versions[k] # None /\ versions[k] \in VersionRow
      BY <1>0, <1>3 DEF ReadVersion, TypeOK
    <2> HIDE DEF admitted
    <2>5. q \in DownloadRequest /\ q.row = versions[k] /\ q.key = k /\ q.reader = admitted
      BY <2>3, <2>4 DEF DownloadRequest
    <2>6. Reviewed(q)
      BY <2>4, <2>5 DEF IInv, PublishedAsReviewed
    <2>7. ASSUME versions[k].private PROVE Authorized(p, k[1], FALSE)
      BY <1>3, <2>7, Zenon DEF ReadVersion
    <2>8. Authorized(p, k[1], FALSE) =>
              \/ p.organization = packages[k[1]].organization
              \/ package_roles[k[1]][p.organization] # None
      BY <2>2, NoneAssumption DEF Authorized, Roles
    <2>9. Readable(q)
      BY <2>2, <2>5, <2>7, <2>8, Zenon DEF admitted
    <2> HIDE DEF Reviewed, Readable, ReviewedNext, ReadableNext, q
    <2> QED
      BY <1>1, <2>1, <2>5, <2>6, <2>9
  <1> HIDE DEF ReviewedNext, ReadableNext
  <1> QED
    BY <1>0, <1>2, <1>3, StepByPc

-----------------------------------------------------------------------------
(***************************************************************************)
(* The tables.  A row that was there is kept; a new one has one writer.    *)
(***************************************************************************)
\* A new package or stage row is a staging transaction's, a new version row an
\* approval's.
LEMMA NewRows ==
    ASSUME TypeOK, LockedRowExists, [Next]_vars
    PROVE  /\ \A n \in Names : packages[n] = None /\ packages'[n] # None =>
                  \E r \in Requests :
                      CommitStage(r) /\ request[r].artifact.key[1] = n
           /\ \A k \in Keys : stages[k] = None /\ stages'[k] # None =>
                  \E r \in Requests :
                      CommitStage(r) /\ request[r].artifact.key = k
           /\ \A k \in Keys : versions[k] = None /\ versions'[k] # None =>
                  \E r \in Requests : /\ CommitDecision(r)
                                      /\ request[r].key = k
                                      /\ request[r].decision = "approved"
  <1> DEFINE P == \A n \in Names : packages[n] = None /\ packages'[n] # None =>
                      \E r \in Requests :
                          CommitStage(r) /\ request[r].artifact.key[1] = n
             S == \A k \in Keys : stages[k] = None /\ stages'[k] # None =>
                      \E r \in Requests :
                          CommitStage(r) /\ request[r].artifact.key = k
             V == \A k \in Keys : versions[k] = None /\ versions'[k] # None =>
                      \E r \in Requests : /\ CommitDecision(r)
                                          /\ request[r].key = k
                                          /\ request[r].decision = "approved"
  <1> HIDE DEF P, S, V
  <1>1. ASSUME UNCHANGED <<packages, stages, versions>> PROVE P /\ S /\ V
    BY <1>1 DEF P, S, V
  <1>2. ASSUME NEW r \in Requests, CommitStage(r) PROVE P /\ S /\ V
    <2>1. PICK k : k = request[r].artifact.key
      OBVIOUS
    <2>2. \A n \in Names : n # k[1] => packages'[n] = packages[n]
      BY <1>2, <2>1, StageWrites, Zenon
    <2>4. ASSUME NEW j \in Keys, j # k PROVE stages'[j] = stages[j]
      BY <1>2, <2>1, <2>4 DEF CommitStage, TypeOK
    <2>3. UNCHANGED versions
      BY <1>2 DEF CommitStage
    <2> QED
      BY <1>2, <2>1, <2>2, <2>3, <2>4, Zenon DEF P, S, V
  <1>3. ASSUME NEW r \in Requests, CommitDecision(r) PROVE P /\ S /\ V
    <2>1. UNCHANGED packages
      BY <1>3, Zenon DEF CommitDecision
    <2>2. \A j \in Keys : stages[j] = None => stages'[j] = stages[j]
      <3>1. /\ request[r].key \in Keys
            /\ stages[request[r].key] \in StageRow
            /\ \E row : stages' = [stages EXCEPT ![request[r].key] = row]
        BY <1>3, DecisionWrites, Zenon
      <3> QED
        BY <3>1, NoneAssumption DEF TypeOK
    <2>3. CASE request[r].decision = "approved"
      <3>1. \A j \in Keys : j # request[r].key => versions'[j] = versions[j]
        BY <1>3, <2>3, DecisionWrites DEF TypeOK
      <3> QED
        BY <1>3, <2>1, <2>2, <2>3, <3>1, Zenon DEF P, S, V
    <2>4. CASE request[r].decision # "approved"
      <3>1. UNCHANGED versions
        BY <1>3, <2>4, DecisionWrites, Zenon
      <3> QED
        BY <2>1, <2>2, <3>1, Zenon DEF P, S, V
    <2> QED
      BY <2>3, <2>4
  <1>4. ASSUME NEW r \in Requests, CommitRevoke(r) PROVE P /\ S /\ V
    <2>1. PICK k : k = request[r].key
      OBVIOUS
    <2>2. versions[k] # None
      BY <1>4, <2>1, RevokeWrites, Zenon
    <2>4. ASSUME NEW j \in Keys, j # k PROVE versions'[j] = versions[j]
      BY <1>4, <2>1, <2>4 DEF CommitRevoke, TypeOK
    <2>3. UNCHANGED <<packages, stages>>
      BY <1>4 DEF CommitRevoke
    <2> QED
      BY <2>2, <2>3, <2>4, Zenon DEF P, S, V
  <1>5. UNCHANGED vars => UNCHANGED <<packages, stages, versions>>
    BY DEF vars, tables
  <1>6. UNCHANGED tables => UNCHANGED <<packages, stages, versions>>
    BY DEF tables
  <1>7. ASSUME NEW r \in Requests, PutObject(r) \/ WriteGrant(r)
        PROVE  UNCHANGED <<packages, stages, versions>>
    BY <1>7 DEF PutObject, WriteGrant
  <1>8. P /\ S /\ V
    BY <1>1, <1>2, <1>3, <1>4, <1>5, <1>6, <1>7, StepKinds
  <1> QED
    BY <1>8, Zenon DEF P, S, V

\* OneOwner is kept: a new row takes its owner and visibility from the package
\* row its transaction locked, or, for a version, from its stage.
LEMMA OneOwnerStep ==
    ASSUME IInv, [Next]_vars, TablesKept
    PROVE  OneOwner'
  <1>0. TypeOK /\ LockedRowExists /\ OneOwner
    BY DEF IInv
  <1>1. ASSUME NEW n \in Names, packages'[n] # None
        PROVE  Scope[n] \in {None, packages'[n].organization}
    <2>1. CASE packages[n] # None
      BY <1>0, <2>1 DEF OneOwner, TablesKept, PackagesKept
    <2>2. CASE packages[n] = None
      <3>1. PICK r \in Requests :
                CommitStage(r) /\ request[r].artifact.key[1] = n
        BY <1>0, <1>1, <2>2, NewRows
      <3>2. /\ request[r].pc \in StagePcs
            /\ packages'[n].organization = request[r].owner
        BY <1>0, <3>1, StageWrites DEF StagePcs
      <3> QED
        BY <3>1, <3>2 DEF IInv, StageHeld
    <2> QED
      BY <2>1, <2>2
  <1>2. ASSUME NEW k \in Keys, stages'[k] # None
        PROVE  /\ packages'[k[1]] # None
               /\ stages'[k].organization = packages'[k[1]].organization
               /\ stages'[k].private = packages'[k[1]].private
    <2>0. k[1] \in Names
      BY DEF Keys
    <2>1. CASE stages[k] # None
      BY <1>0, <2>0, <2>1 DEF OneOwner, TablesKept, PackagesKept, StagesKept
    <2>2. CASE stages[k] = None
      <3>1. PICK r \in Requests : CommitStage(r) /\ request[r].artifact.key = k
        BY <1>0, <1>2, <2>2, NewRows
      <3>2. /\ packages'[k[1]] \in PackageRow
            /\ packages'[k[1]].organization = request[r].owner
            /\ packages'[k[1]].private = request[r].private
            /\ stages'[k] = [organization |-> request[r].owner,
                             artifact |-> request[r].artifact,
                             tag |-> request[r].tag,
                             private |-> request[r].private,
                             status |-> "staged"]
        BY <1>0, <3>1, StageWrites, Zenon
      <3>3. /\ stages'[k].organization = request[r].owner
            /\ stages'[k].private = request[r].private
        BY <3>2
      <3> QED
        BY <3>2, <3>3, NoneAssumption
    <2> QED
      BY <2>1, <2>2
  <1>3. ASSUME NEW k \in Keys, versions'[k] # None
        PROVE  /\ packages'[k[1]] # None
               /\ versions'[k].organization = packages'[k[1]].organization
               /\ versions'[k].private = packages'[k[1]].private
    <2>0. k[1] \in Names
      BY DEF Keys
    <2>1. CASE versions[k] # None
      BY <1>0, <2>0, <2>1 DEF OneOwner, TablesKept, PackagesKept, VersionsKept
    <2>2. CASE versions[k] = None
      <3>1. PICK r \in Requests : /\ CommitDecision(r)
                                  /\ request[r].key = k
                                  /\ request[r].decision = "approved"
        BY <1>0, <1>3, <2>2, NewRows
      <3> DEFINE q == request[r]
      <3>2. /\ versions' = [versions EXCEPT ![k] =
                   [organization |-> q.stage.organization,
                    artifact |-> q.stage.artifact,
                    private |-> q.stage.private, status |-> "active"]]
            /\ stages[k] # None
        BY <1>0, <3>1, DecisionWrites, NoneAssumption
      <3>3. /\ versions'[k].organization = q.stage.organization
            /\ versions'[k].private = q.stage.private
        BY <1>0, <3>2 DEF TypeOK
      <3>4. /\ q.stage.organization = stages[k].organization
            /\ q.stage.private = stages[k].private
        BY <3>1 DEF IInv, DecideHeld, CommitDecision
      <3>5. packages'[k[1]] = packages[k[1]] /\ packages[k[1]] # None
        BY <1>0, <2>0, <3>2 DEF OneOwner, TablesKept, PackagesKept
      <3> QED
        BY <1>0, <3>2, <3>3, <3>4, <3>5, Zenon DEF OneOwner
    <2> QED
      BY <2>1, <2>2
  <1> QED
    BY <1>1, <1>2, <1>3, Zenon DEF OneOwner

\* StagedStored is kept: a stage is inserted after its object is written.
LEMMA StagedStoredStep ==
    ASSUME IInv, [Next]_vars, TablesKept
    PROVE  StagedStored'
  <1>0. TypeOK /\ LockedRowExists
    BY DEF IInv
  <1> SUFFICES ASSUME NEW k \in Keys, stages'[k] # None
               PROVE  stages'[k].artifact.key = k /\ stages'[k].artifact \in objects'
    BY DEF StagedStored
  <1>1. CASE stages[k] # None
    BY <1>1 DEF IInv, StagedStored, TablesKept, StagesKept
  <1>2. CASE stages[k] = None
    <2>1. PICK r \in Requests : CommitStage(r) /\ request[r].artifact.key = k
      BY <1>0, <1>2, NewRows
    <2>2. /\ request[r].pc = "stage.commit"
          /\ stages'[k] = [organization |-> request[r].owner,
                           artifact |-> request[r].artifact,
                           tag |-> request[r].tag,
                           private |-> request[r].private,
                           status |-> "staged"]
      BY <1>0, <2>1, StageWrites, Zenon
    <2>3. stages'[k].artifact = request[r].artifact
      BY <2>2
    <2> QED
      BY <2>1, <2>2, <2>3 DEF IInv, StageHeld, StagePcs, TablesKept
  <1> QED
    BY <1>1, <1>2

\* A transaction leaves every other key's rows alone.
LEMMA OtherKeys ==
    ASSUME TypeOK, NEW r \in Requests, NEW k \in Keys
    PROVE  /\ CommitStage(r) /\ k # request[r].artifact.key =>
                  stages'[k] = stages[k]
           /\ CommitDecision(r) /\ k # request[r].key =>
                  stages'[k] = stages[k] /\ versions'[k] = versions[k]
           /\ CommitRevoke(r) /\ k # request[r].key =>
                  versions'[k] = versions[k] /\ tombstones'[k] = tombstones[k]
  <1>1. CommitStage(r) /\ k # request[r].artifact.key => stages'[k] = stages[k]
    BY DEF CommitStage, TypeOK
  <1>2. CommitDecision(r) /\ k # request[r].key =>
            stages'[k] = stages[k] /\ versions'[k] = versions[k]
    <2> SUFFICES ASSUME CommitDecision(r), k # request[r].key
                 PROVE  stages'[k] = stages[k] /\ versions'[k] = versions[k]
      OBVIOUS
    <2>1. stages'[k] = stages[k]
      BY DEF CommitDecision, TypeOK
    <2>2. CASE request[r].decision = "approved"
      <3>1. \E row : versions' = [versions EXCEPT ![request[r].key] = row]
        BY <2>2, DecisionWrites, Zenon
      <3> QED
        BY <2>1, <3>1 DEF TypeOK
    <2>3. CASE request[r].decision # "approved"
      BY <2>1, <2>3, DecisionWrites, Zenon
    <2> QED
      BY <2>2, <2>3
  <1>3. CommitRevoke(r) /\ k # request[r].key =>
            versions'[k] = versions[k] /\ tombstones'[k] = tombstones[k]
    BY DEF CommitRevoke, TypeOK
  <1> QED
    BY <1>1, <1>2, <1>3

\* PublishedAsReviewed is kept: an approval publishes the stage's archive, and
\* it can only be the stage's one decision.
LEMMA PublishedStep ==
    ASSUME IInv, [Next]_vars, TablesKept
    PROVE  PublishedAsReviewed'
  <1>0. TypeOK /\ LockedRowExists /\ objects \subseteq objects'
    BY DEF IInv, TablesKept
  <1> SUFFICES ASSUME NEW k \in Keys
               PROVE  /\ versions'[k] # None <=>
                             stages'[k] # None /\ stages'[k].status = "approved"
                      /\ versions'[k] # None =>
                             /\ versions'[k].artifact = stages'[k].artifact
                             /\ versions'[k].artifact.key = k
                             /\ versions'[k].artifact.body \notin DeniedBodies
                             /\ versions'[k].artifact \in objects'
    BY DEF PublishedAsReviewed
  <1> DEFINE Published ==
                 /\ versions'[k] # None <=>
                        stages'[k] # None /\ stages'[k].status = "approved"
                 /\ versions'[k] # None =>
                        /\ versions'[k].artifact = stages'[k].artifact
                        /\ versions'[k].artifact.key = k
                        /\ versions'[k].artifact.body \notin DeniedBodies
                        /\ versions'[k].artifact \in objects'
  <1>1. /\ versions[k] # None <=> stages[k] # None /\ stages[k].status = "approved"
        /\ versions[k] # None =>
               /\ versions[k].artifact = stages[k].artifact
               /\ versions[k].artifact.key = k
               /\ versions[k].artifact.body \notin DeniedBodies
               /\ versions[k].artifact \in objects
    BY DEF IInv, PublishedAsReviewed
  <1>2. ASSUME stages'[k] = stages[k], versions'[k] = versions[k] PROVE Published
    BY <1>0, <1>1, <1>2
  <1>3. ASSUME NEW r \in Requests, CommitStage(r) PROVE Published
    <2>1. versions'[k] = versions[k]
      BY <1>3 DEF CommitStage
    <2>2. CASE k = request[r].artifact.key
      <3>1. stages[k] = None
        BY <1>0, <1>3, <2>2, StageWrites, Zenon
      <3>2. stages'[k] = [organization |-> request[r].owner,
                          artifact |-> request[r].artifact,
                          tag |-> request[r].tag,
                          private |-> request[r].private,
                          status |-> "staged"]
        BY <1>0, <1>3, <2>2, StageWrites, Zenon
      <3>3. stages'[k].status = "staged"
        BY <3>2
      <3> QED
        BY <1>1, <2>1, <3>1, <3>3
    <2>3. CASE k # request[r].artifact.key
      <3>1. stages'[k] = stages[k]
        BY <1>0, <1>3, <2>3, OtherKeys
      <3> QED
        BY <1>2, <2>1, <3>1
    <2> QED
      BY <2>2, <2>3
  <1>4. ASSUME NEW r \in Requests, CommitDecision(r) PROVE Published
    <2> DEFINE q == request[r]
    <2>1. CASE k # q.key
      BY <1>0, <1>2, <1>4, <2>1, OtherKeys
    <2>2. CASE k = q.key
      <3>1. /\ stages[k] \in StageRow /\ stages[k].status = "staged"
            /\ stages' = [stages EXCEPT ![k] =
                              [stages[k] EXCEPT !.status = q.decision]]
            /\ [stages[k] EXCEPT !.status = q.decision] \in StageRow
        BY <1>0, <1>4, <2>2, DecisionWrites, Zenon
      <3>2. /\ stages'[k] # None
            /\ stages'[k].status = q.decision
            /\ stages'[k].artifact = stages[k].artifact
        BY <1>0, <3>1, NoneAssumption DEF TypeOK, StageRow
      <3>3. CASE q.decision = "approved"
        <4>1. /\ versions' = [versions EXCEPT ![k] =
                      [organization |-> q.stage.organization,
                       artifact |-> q.stage.artifact,
                       private |-> q.stage.private, status |-> "active"]]
              /\ [organization |-> q.stage.organization,
                  artifact |-> q.stage.artifact,
                  private |-> q.stage.private, status |-> "active"] \in VersionRow
          BY <1>0, <1>4, <2>2, <3>3, DecisionWrites, Zenon
        <4>2. versions'[k] # None /\ versions'[k].artifact = q.stage.artifact
          BY <1>0, <4>1, NoneAssumption DEF TypeOK
        <4>3. /\ q.stage.artifact = stages[k].artifact
              /\ q.stage.artifact.body \notin DeniedBodies
          BY <1>4, <2>2, <3>3 DEF IInv, DecideHeld, CommitDecision
        <4>4. stages[k].artifact.key = k /\ stages[k].artifact \in objects
          BY <3>1, NoneAssumption DEF IInv, StagedStored
        <4> QED
          BY <1>0, <3>2, <3>3, <4>2, <4>3, <4>4
      <3>4. CASE q.decision # "approved"
        <4>1. versions' = versions
          BY <1>0, <1>4, <3>4, DecisionWrites, Zenon
        <4> QED
          BY <1>1, <3>1, <3>2, <3>4, <4>1
      <3> QED
        BY <3>3, <3>4
    <2> QED
      BY <2>1, <2>2
  <1>5. ASSUME NEW r \in Requests, CommitRevoke(r) PROVE Published
    <2>1. stages' = stages
      BY <1>5 DEF CommitRevoke
    <2>2. CASE k = request[r].key
      <3>1. versions[k] # None
        BY <1>0, <1>5, <2>2 DEF LockedRowExists, CommitRevoke
      <3>2. versions'[k] # None /\ versions'[k].artifact = versions[k].artifact
        BY <3>1 DEF TablesKept, VersionsKept
      <3> QED
        BY <1>0, <1>1, <2>1, <3>1, <3>2
    <2>3. CASE k # request[r].key
      BY <1>0, <1>2, <1>5, <2>1, <2>3, OtherKeys
    <2> QED
      BY <2>2, <2>3
  <1>6. ASSUME NEW r \in Requests, PutObject(r) \/ WriteGrant(r) PROVE Published
    <2>1. UNCHANGED <<stages, versions>>
      BY <1>6 DEF PutObject, WriteGrant
    <2> QED
      BY <1>2, <2>1
  <1>7. ASSUME UNCHANGED vars \/ UNCHANGED tables PROVE Published
    <2>1. UNCHANGED <<stages, versions>>
      BY <1>7 DEF vars, tables
    <2> QED
      BY <1>2, <2>1
  <1> HIDE DEF Published
  <1>8. Published
    BY <1>3, <1>4, <1>5, <1>6, <1>7, StepKinds
  <1> QED
    BY <1>8, Zenon DEF Published

\* TombstoneAgrees is kept: status and tombstone are written together, and an
\* approval only inserts a version that had neither.
LEMMA TombstoneStep ==
    ASSUME IInv, [Next]_vars, TablesKept
    PROVE  TombstoneAgrees'
  <1>0. TypeOK /\ LockedRowExists
    BY DEF IInv
  <1> SUFFICES ASSUME NEW k \in Keys
               PROVE  /\ tombstones'[k] # None <=>
                             versions'[k] # None /\ versions'[k].status # "active"
                      /\ tombstones'[k] # None =>
                             tombstones'[k].status = versions'[k].status
    BY DEF TombstoneAgrees
  <1> DEFINE Agrees ==
                 /\ tombstones'[k] # None <=>
                        versions'[k] # None /\ versions'[k].status # "active"
                 /\ tombstones'[k] # None =>
                        tombstones'[k].status = versions'[k].status
  <1>1. /\ tombstones[k] # None <=>
               versions[k] # None /\ versions[k].status # "active"
        /\ tombstones[k] # None => tombstones[k].status = versions[k].status
    BY DEF IInv, TombstoneAgrees
  <1>2. ASSUME tombstones'[k] = tombstones[k], versions'[k] = versions[k]
        PROVE  Agrees
    BY <1>1, <1>2
  <1>3. ASSUME NEW r \in Requests, CommitDecision(r) PROVE Agrees
    <2> DEFINE q == request[r]
    <2>0. tombstones'[k] = tombstones[k]
      BY <1>3, Zenon DEF CommitDecision
    <2>1. CASE k # q.key
      BY <1>0, <1>2, <1>3, <2>0, <2>1, OtherKeys
    <2>2. CASE k = q.key /\ q.decision = "approved"
      <3>1. /\ versions[k] = None
            /\ versions' = [versions EXCEPT ![k] =
                   [organization |-> q.stage.organization,
                    artifact |-> q.stage.artifact,
                    private |-> q.stage.private, status |-> "active"]]
        BY <1>0, <1>3, <2>2, DecisionWrites, Zenon
      <3>2. versions'[k].status = "active"
        BY <1>0, <3>1 DEF TypeOK
      <3> QED
        BY <1>1, <2>0, <3>1, <3>2
    <2>3. CASE q.decision # "approved"
      <3>1. versions' = versions
        BY <1>0, <1>3, <2>3, DecisionWrites, Zenon
      <3> QED
        BY <1>2, <2>0, <3>1
    <2> QED
      BY <2>1, <2>2, <2>3
  <1>4. ASSUME NEW r \in Requests, CommitRevoke(r) PROVE Agrees
    <2>1. CASE k = request[r].key
      <3>1. /\ request[r].status \in {"revoked", "quarantined"}
            /\ versions'[k] # None /\ versions'[k].status = request[r].status
        BY <1>0, <1>4, <2>1, RevokeWrites, Zenon
      <3>2. /\ tombstones'[k] # None
            /\ tombstones'[k] = [status |-> request[r].status,
                                 actor |-> request[r].actor]
        BY <1>0, <1>4, <2>1, RevokeWrites, Zenon
      <3> QED
        BY <3>1, <3>2
    <2>2. CASE k # request[r].key
      BY <1>0, <1>2, <1>4, <2>2, OtherKeys
    <2> QED
      BY <2>1, <2>2
  <1>5. ASSUME NEW r \in Requests, CommitStage(r) PROVE Agrees
    <2>1. UNCHANGED <<tombstones, versions>>
      BY <1>5 DEF CommitStage
    <2> QED
      BY <1>2, <2>1
  <1>6. ASSUME NEW r \in Requests, PutObject(r) \/ WriteGrant(r) PROVE Agrees
    <2>1. UNCHANGED <<tombstones, versions>>
      BY <1>6 DEF PutObject, WriteGrant
    <2> QED
      BY <1>2, <2>1
  <1>7. ASSUME UNCHANGED vars \/ UNCHANGED tables PROVE Agrees
    <2>1. UNCHANGED <<tombstones, versions>>
      BY <1>7 DEF vars, tables
    <2> QED
      BY <1>2, <2>1
  <1> HIDE DEF Agrees
  <1>8. Agrees
    BY <1>3, <1>4, <1>5, <1>6, <1>7, StepKinds
  <1> QED
    BY <1>8, Zenon DEF Agrees

\* ScopedRevokedByTrusted is kept: a tombstone names the actor its handler
\* authorized, and neither owner nor role is taken away.
LEMMA ScopedRevokedStep ==
    ASSUME IInv, [Next]_vars, TablesKept
    PROVE  ScopedRevokedByTrusted'
  <1>0. TypeOK /\ LockedRowExists
    BY DEF IInv
  <1> SUFFICES ASSUME NEW k \in Keys, tombstones'[k] # None, Scope[k[1]] # None
               PROVE  \/ tombstones'[k].actor = packages'[k[1]].organization
                      \/ package_roles'[k[1]][tombstones'[k].actor] # None
    BY DEF ScopedRevokedByTrusted, TrustedActor
  <1>1. k[1] \in Names
    BY DEF Keys
  <1>2. ASSUME tombstones'[k] = tombstones[k]
        PROVE  \/ tombstones'[k].actor = packages'[k[1]].organization
               \/ package_roles'[k[1]][tombstones'[k].actor] # None
    <2>1. tombstones[k].actor \in Orgs
      BY <1>0, <1>2 DEF TypeOK, Tombstone
    <2>2. packages'[k[1]] = packages[k[1]]
      BY <1>1, <1>2
      DEF IInv, TombstoneAgrees, OneOwner, TablesKept, PackagesKept
    <2>3. \/ tombstones[k].actor = packages[k[1]].organization
          \/ package_roles[k[1]][tombstones[k].actor] # None
      BY <1>2 DEF IInv, ScopedRevokedByTrusted, TrustedActor
    <2> QED
      BY <1>1, <1>2, <2>1, <2>2, <2>3 DEF TablesKept, RolesKept
  <1>3. ASSUME NEW r \in Requests, CommitRevoke(r), k = request[r].key
        PROVE  \/ tombstones'[k].actor = packages'[k[1]].organization
               \/ package_roles'[k[1]][tombstones'[k].actor] # None
    <2>1. /\ tombstones'[k] = [status |-> request[r].status,
                               actor |-> request[r].actor]
          /\ request[r].pc = "revoke.commit"
          /\ versions[k] # None
      BY <1>0, <1>3, RevokeWrites, Zenon
    <2>2. tombstones'[k].actor = request[r].actor
      BY <2>1
    <2>3. \/ request[r].actor = Scope[k[1]]
          \/ package_roles[k[1]][request[r].actor] # None
      BY <1>3, <2>1 DEF IInv, RevokeHeld
    <2>4. Scope[k[1]] = packages[k[1]].organization
      BY <1>1, <2>1 DEF IInv, OneOwner
    <2>5. UNCHANGED <<packages, package_roles>>
      BY <1>3 DEF CommitRevoke
    <2> QED
      BY <2>2, <2>3, <2>4, <2>5
  <1>4. \/ tombstones'[k] = tombstones[k]
        \/ \E r \in Requests : CommitRevoke(r) /\ k = request[r].key
    <2>1. ASSUME NEW r \in Requests,
                 PutObject(r) \/ CommitStage(r) \/ CommitDecision(r) \/ WriteGrant(r)
          PROVE  tombstones' = tombstones
      BY <2>1, Zenon DEF PutObject, CommitStage, CommitDecision, WriteGrant
    <2>2. UNCHANGED vars \/ UNCHANGED tables => tombstones' = tombstones
      BY DEF vars, tables
    <2> QED
      BY <1>0, <2>1, <2>2, StepKinds, OtherKeys
  <1> QED
    BY <1>2, <1>3, <1>4

\* TagsPublished is kept: an approval points the tag at the version it inserts,
\* and a rollback target was published when it was read.
LEMMA TagsStep ==
    ASSUME IInv, [Next]_vars, TablesKept
    PROVE  TagsPublished'
  <1>0. TypeOK /\ LockedRowExists
    BY DEF IInv
  <1> SUFFICES ASSUME NEW n \in Names, NEW t \in Tags, dist_tags'[n][t] # None
               PROVE  versions'[<<n, dist_tags'[n][t]>>] # None
    BY DEF TagsPublished
  <1>1. ASSUME NEW v \in Versions, versions[<<n, v>>] # None
        PROVE  versions'[<<n, v>>] # None
    <2>1. <<n, v>> \in Keys
      BY DEF Keys
    <2> QED
      BY <1>1, <2>1 DEF TablesKept, VersionsKept
  <1>2. ASSUME dist_tags'[n][t] = dist_tags[n][t]
        PROVE  versions'[<<n, dist_tags'[n][t]>>] # None
    <2>1. dist_tags[n][t] \in Versions
      BY <1>0, <1>2 DEF TypeOK
    <2> QED
      BY <1>1, <1>2, <2>1 DEF IInv, TagsPublished
  <1>3. ASSUME NEW r \in Requests, CommitDecision(r)
        PROVE  versions'[<<n, dist_tags'[n][t]>>] # None
    <2> DEFINE q == request[r]
               k == q.key
               row == [organization |-> q.stage.organization,
                       artifact |-> q.stage.artifact,
                       private |-> q.stage.private, status |-> "active"]
    <2>1. CASE q.decision = "approved"
      <3>1. /\ k \in Keys /\ k[1] \in Names /\ k[2] \in Versions
            /\ row \in VersionRow /\ q.stage.tag \in Tags
            /\ versions' = [versions EXCEPT ![k] = row]
            /\ dist_tags' = [dist_tags EXCEPT ![k[1]][q.stage.tag] = k[2]]
        BY <1>0, <1>3, <2>1, DecisionWrites, Zenon
      <3> HIDE DEF row
      <3>2. versions'[k] # None
        BY <1>0, <3>1, NoneAssumption DEF TypeOK
      <3>3. k = <<k[1], k[2]>>
        BY <3>1 DEF Keys
      <3>4. CASE n = k[1] /\ t = q.stage.tag
        BY <1>0, <3>1, <3>2, <3>3, <3>4 DEF TypeOK
      <3>5. CASE ~ (n = k[1] /\ t = q.stage.tag)
        <4>1. dist_tags'[n][t] = dist_tags[n][t]
          BY <1>0, <3>1, <3>5 DEF TypeOK
        <4> QED
          BY <1>2, <4>1
      <3> QED
        BY <3>4, <3>5
    <2>2. CASE q.decision # "approved"
      <3>1. dist_tags' = dist_tags
        BY <1>0, <1>3, <2>2, DecisionWrites, Zenon
      <3> QED
        BY <1>2, <3>1
    <2> QED
      BY <2>1, <2>2
  <1>4. ASSUME NEW r \in Requests, CommitRevoke(r)
        PROVE  versions'[<<n, dist_tags'[n][t]>>] # None
    <2>1. PICK k : k = request[r].key
      OBVIOUS
    <2>3. request[r] \in RevokeRequest /\ request[r].pc = "revoke.commit"
      BY <1>0, <1>4, HeldByPc DEF CommitRevoke
    <2>2. \/ dist_tags'[n][t] = dist_tags[n][t]
          \/ n = k[1] /\ dist_tags'[n][t] = request[r].rollback
      <3>1. dist_tags' = [dist_tags EXCEPT ![k[1]] =
                              Retag(@, k[2], request[r].rollback)]
        BY <1>4, <2>1 DEF CommitRevoke
      <3> QED
        BY <1>0, <3>1 DEF TypeOK, Retag
    <2>4. CASE n = k[1] /\ dist_tags'[n][t] = request[r].rollback
      <3>1. request[r].rollback \in Versions
        BY <2>3, <2>4 DEF RevokeRequest
      <3>2. versions[<<n, request[r].rollback>>] # None
        BY <2>1, <2>3, <2>4 DEF IInv, RevokeHeld
      <3> QED
        BY <1>1, <2>4, <3>1, <3>2
    <2> QED
      BY <1>2, <2>2, <2>4
  <1>5. ASSUME NEW r \in Requests,
               PutObject(r) \/ CommitStage(r) \/ WriteGrant(r)
        PROVE  dist_tags' = dist_tags
    BY <1>5, Zenon DEF PutObject, CommitStage, WriteGrant
  <1>6. UNCHANGED vars \/ UNCHANGED tables => dist_tags' = dist_tags
    BY DEF vars, tables
  <1> QED
    BY <1>2, <1>3, <1>4, <1>5, <1>6, StepKinds

\* AuditIntentMatches is kept: each transaction inserts the event of the row
\* change it makes, and a decision or a revocation is made once.
LEMMA AuditStep ==
    ASSUME IInv, [Next]_vars, TablesKept
    PROVE  AuditIntentMatches'
  <1>0. TypeOK /\ LockedRowExists
    BY DEF IInv
  <1> DEFINE Staged(k) ==
                 /\ <<"stage.created", k>> \in outbox <=> stages[k] # None
                 /\ <<"stage.approved", k>> \in outbox <=>
                        stages[k] # None /\ stages[k].status = "approved"
                 /\ <<"stage.rejected", k>> \in outbox <=>
                        stages[k] # None /\ stages[k].status = "rejected"
             Revoked(k) ==
                 /\ tombstones[k] # None =>
                        <<IF tombstones[k].status = "revoked"
                          THEN "version.revoked" ELSE "version.quarantined", k>>
                            \in outbox
                 /\ tombstones[k] = None =>
                        {<<"version.revoked", k>>, <<"version.quarantined", k>>}
                            \cap outbox = {}
             StagedNext(k) ==
                 /\ <<"stage.created", k>> \in outbox' <=> stages'[k] # None
                 /\ <<"stage.approved", k>> \in outbox' <=>
                        stages'[k] # None /\ stages'[k].status = "approved"
                 /\ <<"stage.rejected", k>> \in outbox' <=>
                        stages'[k] # None /\ stages'[k].status = "rejected"
             RevokedNext(k) ==
                 /\ tombstones'[k] # None =>
                        <<IF tombstones'[k].status = "revoked"
                          THEN "version.revoked" ELSE "version.quarantined", k>>
                            \in outbox'
                 /\ tombstones'[k] = None =>
                        {<<"version.revoked", k>>, <<"version.quarantined", k>>}
                            \cap outbox' = {}
  <1> SUFFICES ASSUME NEW k \in Keys PROVE StagedNext(k) /\ RevokedNext(k)
    BY Zenon DEF AuditIntentMatches
  <1>1. Staged(k) /\ Revoked(k)
    BY Zenon DEF IInv, AuditIntentMatches
  <1>2. ASSUME UNCHANGED <<outbox, stages, tombstones>>
        PROVE  StagedNext(k) /\ RevokedNext(k)
    BY <1>1, <1>2
  <1>3. ASSUME NEW r \in Requests, CommitStage(r)
        PROVE  StagedNext(k) /\ RevokedNext(k)
    <2>1. /\ outbox' = outbox \cup {<<"stage.created", request[r].artifact.key>>}
          /\ tombstones' = tombstones
      BY <1>3, Zenon DEF CommitStage
    <2>2. RevokedNext(k)
      BY <1>1, <2>1
    <2>3. CASE k = request[r].artifact.key
      <3>1. stages[k] = None
        BY <1>0, <1>3, <2>3, StageWrites, Zenon
      <3>2. stages'[k] = [organization |-> request[r].owner,
                          artifact |-> request[r].artifact,
                          tag |-> request[r].tag,
                          private |-> request[r].private,
                          status |-> "staged"]
        BY <1>0, <1>3, <2>3, StageWrites, Zenon
      <3>3. stages'[k] \in StageRow
        BY <1>0, <1>3, <2>3, StageWrites, Zenon
      <3>4. stages'[k] # None /\ stages'[k].status = "staged"
        BY <3>2, <3>3, NoneAssumption
      <3> QED
        BY <1>1, <2>1, <2>2, <2>3, <3>1, <3>4
    <2>4. CASE k # request[r].artifact.key
      <3>1. stages'[k] = stages[k]
        BY <1>0, <1>3, <2>4, OtherKeys
      <3> QED
        BY <1>1, <2>1, <2>2, <2>4, <3>1
    <2> QED
      BY <2>3, <2>4
  <1>4. ASSUME NEW r \in Requests, CommitDecision(r)
        PROVE  StagedNext(k) /\ RevokedNext(k)
    <2> DEFINE q == request[r]
    <2>1. /\ outbox' = outbox \cup {DecisionEvent(q.key, q.decision)}
          /\ tombstones' = tombstones
      BY <1>4, Zenon DEF CommitDecision
    <2>2. RevokedNext(k)
      BY <1>1, <2>1 DEF DecisionEvent
    <2>3. CASE k = q.key
      <3>1. /\ q \in DecideRequest
            /\ stages[k] \in StageRow /\ stages[k].status = "staged"
            /\ stages' = [stages EXCEPT ![k] =
                              [stages[k] EXCEPT !.status = q.decision]]
            /\ [stages[k] EXCEPT !.status = q.decision] \in StageRow
        BY <1>0, <1>4, <2>3, DecisionWrites, Zenon
      <3>2. /\ stages[k] # None
            /\ stages'[k] # None
            /\ stages'[k].status = q.decision
            /\ q.decision \in {"approved", "rejected"}
        BY <1>0, <3>1, NoneAssumption DEF TypeOK, StageRow, DecideRequest, Decisions
      <3> QED
        BY <1>1, <2>1, <2>2, <2>3, <3>1, <3>2 DEF DecisionEvent
    <2>4. CASE k # q.key
      <3>1. stages'[k] = stages[k]
        BY <1>0, <1>4, <2>4, OtherKeys
      <3> QED
        BY <1>1, <2>1, <2>2, <2>4, <3>1 DEF DecisionEvent
    <2> QED
      BY <2>3, <2>4
  <1>5. ASSUME NEW r \in Requests, CommitRevoke(r)
        PROVE  StagedNext(k) /\ RevokedNext(k)
    <2>1. /\ outbox' = outbox \cup {RevokeEvent(request[r].key, request[r].status)}
          /\ stages' = stages
      BY <1>5 DEF CommitRevoke
    <2>2. StagedNext(k)
      BY <1>1, <2>1 DEF RevokeEvent
    <2>3. CASE k = request[r].key
      <3>1. /\ tombstones'[k] # None
            /\ tombstones'[k] = [status |-> request[r].status,
                                 actor |-> request[r].actor]
        BY <1>0, <1>5, <2>3, RevokeWrites, Zenon
      <3> QED
        BY <2>1, <2>2, <2>3, <3>1 DEF RevokeEvent
    <2>4. CASE k # request[r].key
      <3>1. tombstones'[k] = tombstones[k]
        BY <1>0, <1>5, <2>4, OtherKeys
      <3> QED
        BY <1>1, <2>1, <2>2, <2>4, <3>1 DEF RevokeEvent
    <2> QED
      BY <2>3, <2>4
  <1>6. ASSUME NEW r \in Requests, PutObject(r) \/ WriteGrant(r)
        PROVE  UNCHANGED <<outbox, stages, tombstones>>
    BY <1>6 DEF PutObject, WriteGrant
  <1>7. UNCHANGED vars \/ UNCHANGED tables =>
            UNCHANGED <<outbox, stages, tombstones>>
    BY DEF vars, tables
  <1> HIDE DEF Staged, Revoked, StagedNext, RevokedNext
  <1> QED
    BY <1>2, <1>3, <1>4, <1>5, <1>6, <1>7, StepKinds

-----------------------------------------------------------------------------
\* The initial state satisfies the inductive invariant.
LEMMA InitInvariant == Init => IInv
  <1> SUFFICES ASSUME Init PROVE IInv
    OBVIOUS
  <1>1. TypeOK
    BY DEF Init, TypeOK
  <1>2. \A r \in Requests : request[r].pc = "idle"
    BY DEF Init, Idle
  <1>3. LockedRowExists /\ StageHeld /\ DecideHeld /\ RevokeHeld /\ DownloadsReviewed
    BY <1>2
    DEF LockedRowExists, StageHeld, StagePcs, DecideHeld, RevokeHeld,
        DownloadsReviewed
  <1>4. OneOwner /\ StagedStored /\ PublishedAsReviewed /\ TombstoneAgrees
    BY DEF Init, OneOwner, StagedStored, PublishedAsReviewed, TombstoneAgrees, Keys
  <1>5. ScopedRevokedByTrusted /\ AuditIntentMatches /\ TagsPublished
    BY DEF Init, ScopedRevokedByTrusted, AuditIntentMatches, TagsPublished
  <1> QED
    BY <1>1, <1>3, <1>4, <1>5 DEF IInv

\* Every step keeps the inductive invariant.
LEMMA StepInvariant == IInv /\ [Next]_vars => IInv'
  <1> SUFFICES ASSUME IInv, [Next]_vars PROVE IInv'
    OBVIOUS
  <1>1. TypeOK /\ LockedRowExists
    BY DEF IInv
  <1>2. TypeOK' /\ TablesKept
    BY <1>1, TypeStep, StepKeepsTables
  <1>3. LockedRowExists' /\ StageHeld' /\ DecideHeld' /\ RevokeHeld'
    BY <1>2, LockedRowStep, StageHeldStep, DecideHeldStep, RevokeHeldStep
  <1>4. OneOwner' /\ StagedStored' /\ PublishedAsReviewed' /\ DownloadsReviewed'
    BY <1>2, OneOwnerStep, StagedStoredStep, PublishedStep, DownloadsStep
  <1>5. TombstoneAgrees' /\ ScopedRevokedByTrusted' /\ AuditIntentMatches'
            /\ TagsPublished'
    BY <1>2, TombstoneStep, ScopedRevokedStep, AuditStep, TagsStep
  <1> QED
    BY <1>2, <1>3, <1>4, <1>5 DEF IInv

\* The inductive invariant holds in every reachable state.
LEMMA Invariant == Spec => []IInv
  BY InitInvariant, StepInvariant, PTL DEF Spec

\* Tables and handlers keep their shapes (the schema of the migrations and the
\* local variables of the handlers), for any number of concurrent requests.
THEOREM TypeCorrect == Spec => []TypeOK
  <1>1. IInv => TypeOK
    BY DEF IInv
  <1> QED
    BY <1>1, Invariant, PTL

\* One owner and one visibility per name, whichever organizations race in
\* create_stage's INSERT ... ON CONFLICT DO NOTHING.
THEOREM OwnershipCorrect == Spec => []OneOwner
  <1>1. IInv => OneOwner
    BY DEF IInv
  <1> QED
    BY <1>1, Invariant, PTL

\* decide_stage publishes exactly the approved stages, with the bytes that were
\* staged, assessed and stored.
THEOREM PublicationCorrect == Spec => []PublishedAsReviewed
  <1>1. IInv => PublishedAsReviewed
    BY DEF IInv
  <1> QED
    BY <1>1, Invariant, PTL

\* revoke_version keeps a version's status and its tombstone in agreement.
THEOREM TombstonesCorrect == Spec => []TombstoneAgrees
  <1>1. IInv => TombstoneAgrees
    BY DEF IInv
  <1> QED
    BY <1>1, Invariant, PTL

\* On a scoped name only the scope's organization, or one with a role its owner
\* granted, ever revokes, although revoke_version authorizes only once.
THEOREM ScopedRevocationCorrect == Spec => []ScopedRevokedByTrusted
  <1>1. IInv => ScopedRevokedByTrusted
    BY DEF IInv
  <1> QED
    BY <1>1, Invariant, PTL

\* The outbox tells exactly what the transactions did.
THEOREM AuditCorrect == Spec => []AuditIntentMatches
  <1>1. IInv => AuditIntentMatches
    BY DEF IInv
  <1> QED
    BY <1>1, Invariant, PTL

\* A dist-tag never dangles, in spite of revoke_version's stale rollback target.
THEOREM TagsCorrect == Spec => []TagsPublished
  <1>1. IInv => TagsPublished
    BY DEF IInv
  <1> QED
    BY <1>1, Invariant, PTL

\* download_version serves reviewed bytes, private ones to readers with access.
THEOREM DownloadsCorrect == Spec => []DownloadsReviewed
  <1>1. IInv => DownloadsReviewed
    BY DEF IInv
  <1> QED
    BY <1>1, Invariant, PTL

\* No handler, alone or in a race, changes or removes what was published.
THEOREM PublicationForever == Spec => PublishedForever
  <1>1. IInv /\ [Next]_vars =>
            [\A k \in Keys : versions[k] # None =>
                /\ versions'[k] # None
                /\ versions'[k].artifact = versions[k].artifact
                /\ versions'[k].organization = versions[k].organization
                /\ versions'[k].private = versions[k].private
                /\ versions'[k].status = "active" => versions[k].status = "active"]_vars
    <2> SUFFICES ASSUME IInv, [Next]_vars
                 PROVE  VersionsKept
      BY DEF VersionsKept
    <2>1. TypeOK /\ LockedRowExists
      BY DEF IInv
    <2> QED
      BY <2>1, StepKeepsTables DEF TablesKept
  <1> QED
    BY <1>1, Invariant, PTL DEF Spec, PublishedForever

\* A decision is made once: decide_stage reads the status again under the lock.
THEOREM DecisionsCorrect == Spec => DecisionsFinal
  <1>1. IInv /\ [Next]_vars =>
            [\A k \in Keys : stages[k] # None =>
                IF stages[k].status = "staged"
                THEN stages'[k] \in {[stages[k] EXCEPT !.status = s] :
                                        s \in {"staged", "approved", "rejected"}}
                ELSE stages'[k] = stages[k]]_vars
    <2> SUFFICES ASSUME IInv, [Next]_vars, NEW k \in Keys, stages[k] # None
                 PROVE  IF stages[k].status = "staged"
                        THEN stages'[k] \in
                                 {[stages[k] EXCEPT !.status = s] :
                                     s \in {"staged", "approved", "rejected"}}
                        ELSE stages'[k] = stages[k]
      OBVIOUS
    <2>1. TypeOK /\ LockedRowExists
      BY DEF IInv
    <2>2. StagesKept /\ TypeOK'
      BY <2>1, StepKeepsTables, TypeStep DEF TablesKept
    <2>3. stages[k] \in StageRow /\ stages'[k] \in StageRow
      BY <2>1, <2>2 DEF TypeOK, StagesKept
    <2>4. stages'[k] = [stages[k] EXCEPT !.status = stages'[k].status]
      BY <2>2, <2>3 DEF StagesKept, StageRow
    <2>5. stages'[k].status \in {"staged", "approved", "rejected"}
      BY <2>3 DEF StageRow
    <2> QED
      BY <2>2, <2>4, <2>5 DEF StagesKept
  <1> QED
    BY <1>1, Invariant, PTL DEF Spec, DecisionsFinal

-----------------------------------------------------------------------------
(***************************************************************************)
(* The quota of undecided stages.                                          *)
(***************************************************************************)
\* The advisory lock lets one transaction of an organization through at a time,
\* and what it counted is still true when it inserts.
QuotaHeld ==
    /\ \A r, s \in Requests :
           /\ request[r].pc = "stage.commit" /\ request[s].pc = "stage.commit"
           /\ request[r].owner = request[s].owner
           => r = s
    /\ \A r \in Requests : request[r].pc = "stage.commit" =>
           Cardinality(Pending(request[r].owner)) < MaxPendingStages

\* There are finitely many undecided stages.
LEMMA PendingFinite ==
    ASSUME NEW o \in Orgs
    PROVE  IsFiniteSet(Pending(o)) /\ Cardinality(Pending(o)) \in Nat
  <1>1. IsFiniteSet(Keys)
    BY ConstantsAssumption, FS_Product DEF Keys
  <1>2. Pending(o) \subseteq Keys
    BY DEF Pending
  <1> QED
    BY <1>1, <1>2, FS_Subset, FS_CardinalityType

\* Undecided stages only become more by a staging transaction of their
\* organization, and then by one.
LEMMA PendingStep ==
    ASSUME TypeOK, [Next]_vars, NEW o \in Orgs
    PROVE  \/ Pending(o)' \subseteq Pending(o)
           \/ \E r \in Requests : /\ CommitStage(r) /\ request[r].owner = o
                                  /\ \E k : Pending(o)' \subseteq Pending(o) \cup {k}
  <1>1. ASSUME stages' = stages PROVE Pending(o)' = Pending(o)
    BY <1>1 DEF Pending
  <1>2. ASSUME NEW r \in Requests, CommitStage(r)
        PROVE  \/ Pending(o)' \subseteq Pending(o)
               \/ /\ request[r].owner = o
                  /\ \E k : Pending(o)' \subseteq Pending(o) \cup {k}
    <2>1. PICK k : k = request[r].artifact.key
      OBVIOUS
    <2>5. k \in Keys
      BY <1>2, <2>1, StageWrites, Zenon
    <2>6. ASSUME NEW j \in Keys, j # k PROVE stages'[j] = stages[j]
      BY <1>2, <2>1, <2>6 DEF CommitStage, TypeOK
    <2>7. stages'[k] = [organization |-> request[r].owner,
                        artifact |-> request[r].artifact,
                        tag |-> request[r].tag,
                        private |-> request[r].private,
                        status |-> "staged"]
      BY <1>2, <2>1, StageWrites, Zenon
    <2>2. /\ k \in Keys /\ stages'[k].organization = request[r].owner
          /\ \A j \in Keys : j # k => stages'[j] = stages[j]
      BY <2>5, <2>6, <2>7
    <2>3. Pending(o)' \subseteq Pending(o) \cup {k}
      BY <2>2 DEF Pending
    <2>4. CASE request[r].owner # o
      BY <2>2, <2>4 DEF Pending
    <2> QED
      BY <2>3, <2>4
  <1>3. ASSUME NEW r \in Requests, CommitDecision(r)
        PROVE  Pending(o)' \subseteq Pending(o)
    <2> DEFINE k == request[r].key
               decided == [stages[k] EXCEPT !.status = request[r].decision]
    <2>1. /\ request[r] \in DecideRequest /\ k \in Keys
          /\ stages[k] \in StageRow
          /\ stages' = [stages EXCEPT ![k] = decided]
      BY <1>3, DecisionWrites, Zenon
    <2>2. decided.status # "staged"
      BY <2>1 DEF DecideRequest, Decisions, StageRow
    <2> HIDE DEF decided, k
    <2> QED
      BY <2>1, <2>2 DEF Pending, TypeOK
  <1>4. ASSUME NEW r \in Requests, PutObject(r) \/ CommitRevoke(r) \/ WriteGrant(r)
        PROVE  stages' = stages
    BY <1>4 DEF PutObject, CommitRevoke, WriteGrant
  <1>5. UNCHANGED vars \/ UNCHANGED tables => stages' = stages
    BY DEF vars, tables
  <1> QED
    BY <1>1, <1>2, <1>3, <1>4, <1>5, StepKinds

\* A transaction that counts below the quota adds one stage at most.
LEMMA QuotaStep ==
    ASSUME TypeOK, QuotaHeld, QuotaRespected, [Next]_vars, TypeOK'
    PROVE  QuotaHeld' /\ QuotaRespected'
  <1>1. ASSUME NEW o \in Orgs, Pending(o)' \subseteq Pending(o)
        PROVE  Cardinality(Pending(o)') <= Cardinality(Pending(o))
    BY <1>1, PendingFinite, FS_Subset
  <1>2. ASSUME NEW o \in Orgs
        PROVE  /\ Cardinality(Pending(o)) \in Nat /\ Cardinality(Pending(o)') \in Nat
               /\ Cardinality(Pending(o)) <= MaxPendingStages
    <2>1. Cardinality(Pending(o)) \in Nat
      BY PendingFinite
    <2>2. Cardinality(Pending(o)') \in Nat
      <3>1. IsFiniteSet(Keys)
        BY ConstantsAssumption, FS_Product DEF Keys
      <3>2. Pending(o)' \subseteq Keys
        BY DEF Pending
      <3> QED
        BY <3>1, <3>2, FS_Subset, FS_CardinalityType
    <2> QED
      BY <2>1, <2>2 DEF QuotaRespected
  <1>3. ASSUME NEW r \in Requests, CommitStage(r)
        PROVE  /\ request'[r] = Idle
               /\ request[r].pc = "stage.commit"
               /\ \A x \in Requests : x # r => request'[x] = request[x]
    BY <1>3 DEF CommitStage, Finish, TypeOK
  <1>4. QuotaRespected'
    <2> SUFFICES ASSUME NEW o \in Orgs
                 PROVE  Cardinality(Pending(o)') <= MaxPendingStages
      BY DEF QuotaRespected
    <2>1. CASE Pending(o)' \subseteq Pending(o)
      BY <1>1, <1>2, <2>1, ConstantsAssumption
    <2>2. ASSUME NEW r \in Requests, CommitStage(r), request[r].owner = o,
                 NEW k, Pending(o)' \subseteq Pending(o) \cup {k}
          PROVE  Cardinality(Pending(o)') <= MaxPendingStages
      <3>1. Cardinality(Pending(o)) < MaxPendingStages
        BY <1>3, <2>2 DEF QuotaHeld
      <3>2. /\ IsFiniteSet(Pending(o) \cup {k})
            /\ Cardinality(Pending(o) \cup {k}) <= Cardinality(Pending(o)) + 1
            /\ Cardinality(Pending(o) \cup {k}) \in Nat
        BY PendingFinite, FS_AddElement, FS_CardinalityType
      <3>3. Cardinality(Pending(o)') <= Cardinality(Pending(o) \cup {k})
        BY <2>2, <3>2, FS_Subset
      <3> QED
        BY <1>2, <3>1, <3>2, <3>3, ConstantsAssumption
    <2> QED
      BY <2>1, <2>2, PendingStep
  <1>5. ASSUME NEW x \in Requests, request'[x].pc = "stage.commit"
        PROVE  Cardinality(Pending(request[x].owner))' < MaxPendingStages
    <2>1. request'[x].owner \in Orgs
      BY <1>5 DEF TypeOK, StageRequest, Idle, DecideRequest, RevokeRequest,
                  GrantRequest, DownloadRequest
    <2>2. PICK o \in Orgs : o = request'[x].owner
      BY <2>1
    <2>5. Pending(request[x].owner)' = Pending(o)'
      BY <2>2 DEF Pending
    <2>3. CASE request'[x] = request[x]
      <3>1. Cardinality(Pending(o)) < MaxPendingStages /\ request[x].owner = o
        BY <1>5, <2>2, <2>3 DEF QuotaHeld
      <3>2. Pending(o)' \subseteq Pending(o)
        <4> SUFFICES ASSUME NEW r \in Requests, CommitStage(r), request[r].owner = o
                     PROVE  FALSE
          BY PendingStep
        <4>1. r = x
          BY <1>3, <1>5, <2>3, <3>1 DEF QuotaHeld
        <4> QED
          BY <1>3, <1>5, <4>1 DEF Idle
      <3> QED
        BY <1>1, <1>2, <2>5, <3>1, <3>2, ConstantsAssumption
    <2>4. CASE request'[x] # request[x]
      <3>1. BeginStage(x)
        BY <1>5, <2>4, StepByPc
      <3>2. request'[x].owner = request[x].owner
        <4>1. request[x] \in StageRequest
          BY <3>1, HeldByPc DEF BeginStage
        <4> QED
          BY <3>1, <4>1 DEF BeginStage, TypeOK, StageRequest
      <3>3. Cardinality(Pending(o)) < MaxPendingStages /\ stages' = stages
        BY <2>2, <3>1, <3>2 DEF BeginStage, tables
      <3>4. Pending(o)' = Pending(o)
        BY <3>3 DEF Pending
      <3> QED
        BY <2>5, <3>3, <3>4
    <2> QED
      BY <2>3, <2>4
  <1>6. ASSUME NEW x \in Requests, NEW y \in Requests, x # y,
               request'[x].pc = "stage.commit", request'[y].pc = "stage.commit",
               request'[x].owner = request'[y].owner
        PROVE  FALSE
    <2>1. ASSUME NEW z \in Requests, BeginStage(z)
          PROVE  /\ \A u \in Requests : u # z => request'[u] = request[u]
                 /\ request'[z].owner = request[z].owner
                 /\ \A u \in Requests :
                        ~ (request[u].pc = "stage.commit" /\ request[u].owner = request[z].owner)
      <3>1. request[z] \in StageRequest
        BY <2>1, HeldByPc DEF BeginStage
      <3>2. /\ \A u \in Requests : u # z => request'[u] = request[u]
            /\ request'[z].owner = request[z].owner
        BY <2>1, <3>1 DEF BeginStage, TypeOK, StageRequest
      <3> QED
        BY <2>1, <3>2 DEF BeginStage, OrgLocked
    <2>2. request'[x] = request[x] \/ BeginStage(x)
      BY <1>6, StepByPc
    <2>3. request'[y] = request[y] \/ BeginStage(y)
      BY <1>6, StepByPc
    <2> QED
      BY <1>6, <2>1, <2>2, <2>3 DEF QuotaHeld
  <1> QED
    BY <1>4, <1>5, <1>6 DEF QuotaHeld

\* An organization's undecided stages stay within its quota, however many of
\* its publishers stage at once: create_stage counts and inserts under the
\* organization's advisory lock.
THEOREM QuotaCorrect == Spec => []QuotaRespected
  <1> DEFINE QInv == QuotaHeld /\ QuotaRespected
  <1>1. Init => QInv
    <2> SUFFICES ASSUME Init PROVE QInv
      OBVIOUS
    <2>1. \A o \in Orgs : Pending(o) = {}
      BY DEF Init, Pending
    <2>2. \A r \in Requests : request[r].pc = "idle"
      BY DEF Init, Idle
    <2> QED
      BY <2>1, <2>2, FS_EmptySet, ConstantsAssumption DEF QuotaHeld, QuotaRespected
  <1>2. IInv /\ IInv' /\ QInv /\ [Next]_vars => QInv'
    BY QuotaStep DEF IInv
  <1> QED
    BY <1>1, <1>2, Invariant, PTL DEF Spec

-----------------------------------------------------------------------------
(***************************************************************************)
(* The read side: what a GET request holds between its SELECTs.            *)
(***************************************************************************)
MetadataReader ==
    [pc : {"first", "second", "metadata"}, name : Names, gone : SUBSET Versions,
     listed : SUBSET Versions, unborn : SUBSET Versions, tagged : SUBSET Versions]
BundleReader ==
    [pc : {"bundle"}, key : Keys,
     row : [status : {"active", "revoked", "quarantined"},
            tombstone : Tombstone \cup {None}]]
FeedReader == [pc : {"osv"}, feed : SUBSET Keys]

ReaderType ==
    reader \in [Readers -> {NotReading} \cup MetadataReader \cup BundleReader
                               \cup FeedReader]

\* What was out of service when the request arrived still is; once the versions
\* are read, one that is neither listed nor unborn is out of service.
ReaderKnows ==
    \A rd \in Readers :
        /\ reader[rd].pc = "first" => reader[rd].gone \subseteq OutOfService(reader[rd].name)
        /\ reader[rd].pc = "second" =>
               \A v \in Versions : \/ v \in reader[rd].listed \cup reader[rd].unborn
                                   \/ v \in OutOfService(reader[rd].name)

ReadsInv == ReaderType /\ ReaderKnows /\ MetadataFresh /\ BundleAgrees /\ FeedPublic

\* A reader's pc tells which record it holds.
LEMMA ReaderByPc ==
    ASSUME ReaderType, NEW rd \in Readers
    PROVE  /\ reader[rd].pc \in {"first", "second", "metadata"} => reader[rd] \in MetadataReader
           /\ reader[rd].pc = "bundle" => reader[rd] \in BundleReader
           /\ reader[rd].pc = "osv" => reader[rd] \in FeedReader
  BY DEF ReaderType, NotReading, MetadataReader, BundleReader, FeedReader

\* A version out of service stays so.
LEMMA OutOfServiceGrows ==
    ASSUME TypeOK, VersionsKept, NEW n \in Names, NEW v \in OutOfService(n)
    PROVE  v \in OutOfService(n)'
  <1>1. v \in Versions /\ <<n, v>> \in Keys
    BY DEF OutOfService, Keys
  <1>2. versions[<<n, v>>] # None /\ versions[<<n, v>>].status # "active"
    BY <1>1 DEF OutOfService, ActiveVersions
  <1>3. versions'[<<n, v>>] # None /\ versions'[<<n, v>>].status # "active"
    BY <1>1, <1>2 DEF VersionsKept
  <1> QED
    BY <1>1, <1>3 DEF OutOfService, ActiveVersions

\* Writers disturb nothing a reader holds.
LEMMA WritersKeepReads ==
    ASSUME IInv, ReadsInv, [Next]_vars, UNCHANGED reader
    PROVE  ReadsInv'
  <1>1. TypeOK /\ VersionsKept
    BY StepKeepsTables DEF IInv, TablesKept
  <1>2. ReaderType' /\ MetadataFresh' /\ BundleAgrees'
    BY DEF ReadsInv, ReaderType, MetadataFresh, BundleAgrees
  <1>3. ReaderKnows'
    <2> SUFFICES ASSUME NEW rd \in Readers, reader[rd].pc \in {"first", "second"}
                 PROVE  \A v \in Versions : v \in OutOfService(reader[rd].name)
                            => v \in OutOfService(reader[rd].name)'
      BY DEF ReadsInv, ReaderKnows, OutOfService
    <2>1. PICK n \in Names : n = reader[rd].name
      BY ReaderByPc DEF ReadsInv, MetadataReader
    <2>2. \A v \in OutOfService(n) : v \in OutOfService(n)'
      BY <1>1, OutOfServiceGrows
    <2> QED
      BY <2>1, <2>2 DEF OutOfService, ActiveVersions
  <1>4. FeedPublic'
    <2> SUFFICES ASSUME NEW rd \in Readers, reader[rd].pc = "osv",
                        NEW k \in reader[rd].feed
                 PROVE  versions'[k] # None /\ ~versions'[k].private
      BY DEF FeedPublic
    <2>1. k \in Keys
      BY ReaderByPc DEF ReadsInv, FeedReader
    <2>2. versions[k] # None /\ ~versions[k].private
      BY DEF ReadsInv, FeedPublic
    <2> QED
      BY <1>1, <2>1, <2>2 DEF VersionsKept
  <1> QED
    BY <1>2, <1>3, <1>4 DEF ReadsInv

\* What a reader's record must satisfy, given the tables.
HeldTrue(q) ==
    /\ q \in {NotReading} \cup MetadataReader \cup BundleReader \cup FeedReader
    /\ q.pc = "first" => \A v \in q.gone : v \in OutOfService(q.name)
    /\ q.pc = "second" =>
           \A v \in Versions : v \in q.listed \cup q.unborn \/ v \in OutOfService(q.name)
    /\ q.pc \in {"second", "metadata"} => q.listed \cap q.gone = {}
    /\ q.pc = "bundle" => IF q.row.status = "active" THEN q.row.tombstone = None
                          ELSE q.row.tombstone # None /\ q.row.tombstone.status = q.row.status
    /\ q.pc = "osv" => \A k \in q.feed : versions[k] # None /\ ~versions[k].private

\* A reader that takes up a true record keeps the read side's invariant.
LEMMA TakesUp ==
    ASSUME ReadsInv, UNCHANGED vars, NEW rd \in Readers, NEW held, HeldTrue(held),
           reader' = [reader EXCEPT ![rd] = held]
    PROVE  ReadsInv'
  <1>1. versions' = versions
    BY DEF vars, tables
  <1>2. ReaderType' /\ \A x \in Readers : reader'[x] = held \/ reader'[x] = reader[x]
    BY DEF ReadsInv, ReaderType, HeldTrue
  <1>3. ASSUME NEW x \in Readers PROVE HeldTrue(reader[x])
    BY DEF ReadsInv, ReaderType, ReaderKnows, MetadataFresh, BundleAgrees, FeedPublic, HeldTrue
  <1>4. \A x \in Readers : HeldTrue(reader[x])'
    BY <1>1, <1>2, <1>3 DEF HeldTrue, OutOfService, ActiveVersions
  <1> QED
    BY <1>2, <1>4
    DEF ReadsInv, ReaderKnows, MetadataFresh, BundleAgrees, FeedPublic, HeldTrue

\* A SELECT of package_metadata fills in its fields of the record.
LEMMA RecordFilled ==
    ASSUME NEW q \in MetadataReader
    PROVE  /\ [Statement(1, q) EXCEPT !.pc = "second"]
                  = [pc |-> "second", name |-> q.name, gone |-> q.gone,
                     listed |-> ActiveVersions(q.name), unborn |-> Absent(q.name),
                     tagged |-> q.tagged]
           /\ [Statement(2, q) EXCEPT !.pc = "metadata"]
                  = [pc |-> "metadata", name |-> q.name, gone |-> q.gone,
                     listed |-> q.listed, unborn |-> q.unborn,
                     tagged |-> {dist_tags[q.name][t] : t \in Tags} \ {None}]
  <1>1. Statement(1, q) = [q EXCEPT !.listed = ActiveVersions(q.name), !.unborn = Absent(q.name)]
    BY DEF Statement, WithVersions, PackageVersions
  <1>2. Statement(2, q) = [q EXCEPT !.tagged = {dist_tags[q.name][t] : t \in Tags} \ {None}]
    BY DEF Statement, WithTags
  <1>3. ASSUME NEW a \in SUBSET Versions, NEW b \in SUBSET Versions
        PROVE  [q EXCEPT !.listed = a, !.unborn = b]
                 = [pc |-> q.pc, name |-> q.name, gone |-> q.gone, listed |-> a,
                    unborn |-> b, tagged |-> q.tagged]
    <2>1. PICK r \in MetadataReader : r = [q EXCEPT !.listed = a]
      BY DEF MetadataReader
    <2>2. [r EXCEPT !.unborn = b]
             = [pc |-> r.pc, name |-> r.name, gone |-> r.gone, listed |-> r.listed,
                unborn |-> b, tagged |-> r.tagged]
      BY DEF MetadataReader
    <2>3. /\ r.pc = q.pc /\ r.name = q.name /\ r.gone = q.gone /\ r.listed = a
          /\ r.tagged = q.tagged
      BY <2>1 DEF MetadataReader
    <2>4. [q EXCEPT !.listed = a, !.unborn = b] = [[q EXCEPT !.listed = a] EXCEPT !.unborn = b]
      BY DEF MetadataReader
    <2> QED
      BY <2>1, <2>2, <2>3, <2>4
  <1>4. ASSUME NEW a
        PROVE  [q EXCEPT !.tagged = a]
                 = [pc |-> q.pc, name |-> q.name, gone |-> q.gone, listed |-> q.listed,
                    unborn |-> q.unborn, tagged |-> a]
    BY DEF MetadataReader
  <1>5. ASSUME NEW r, r = [pc |-> q.pc, name |-> q.name, gone |-> q.gone,
                           listed |-> ActiveVersions(q.name), unborn |-> Absent(q.name),
                           tagged |-> q.tagged]
        PROVE  [r EXCEPT !.pc = "second"]
                  = [pc |-> "second", name |-> q.name, gone |-> q.gone,
                     listed |-> ActiveVersions(q.name), unborn |-> Absent(q.name),
                     tagged |-> q.tagged]
    BY <1>5
  <1>6. ASSUME NEW a, NEW r, r = [pc |-> q.pc, name |-> q.name, gone |-> q.gone,
                           listed |-> q.listed, unborn |-> q.unborn, tagged |-> a]
        PROVE  [r EXCEPT !.pc = "metadata"]
                  = [pc |-> "metadata", name |-> q.name, gone |-> q.gone,
                     listed |-> q.listed, unborn |-> q.unborn, tagged |-> a]
    BY <1>6
  <1>7. ActiveVersions(q.name) \in SUBSET Versions /\ Absent(q.name) \in SUBSET Versions
    BY DEF ActiveVersions, Absent
  <1> QED
    BY <1>1, <1>2, <1>3, <1>4, <1>5, <1>6, <1>7

\* Each statement of a reader gives it a record that is true of the tables.
LEMMA ReadersKeepReads ==
    ASSUME IInv, ReadsInv, NEW rd \in Readers, ReadStep(rd), UNCHANGED vars
    PROVE  ReadsInv'
  <1> USE DEF IInv
  <1>1. TypeOK /\ ReaderType
    BY DEF ReadsInv
  <1>2. ASSUME NEW p \in Principals, NEW n \in Names, BeginMetadata(rd, p, n)
        PROVE  ReadsInv'
    <2> DEFINE held == [pc |-> "first", name |-> n, gone |-> OutOfService(n),
                        listed |-> {}, unborn |-> {}, tagged |-> {}]
    <2>1. OutOfService(n) \in SUBSET Versions
      BY DEF OutOfService
    <2>2. HeldTrue(held)
      BY <2>1 DEF HeldTrue, MetadataReader
    <2>3. reader' = [reader EXCEPT ![rd] = held]
      BY <1>2 DEF BeginMetadata
    <2> QED
      BY <2>2, <2>3, TakesUp
  <1>3. ASSUME ReadMetadataFirst(rd) PROVE ReadsInv'
    <2> DEFINE q == reader[rd]
               held == [Statement(1, q) EXCEPT !.pc = "second"]
    <2>1. q \in MetadataReader /\ \A v \in q.gone : v \in OutOfService(q.name)
      BY <1>1, <1>3, ReaderByPc DEF ReadMetadataFirst, ReadsInv, ReaderKnows
    <2>2. held = [pc |-> "second", name |-> q.name, gone |-> q.gone,
                  listed |-> ActiveVersions(q.name), unborn |-> Absent(q.name),
                  tagged |-> q.tagged]
      BY <2>1, RecordFilled
    <2>3. ActiveVersions(q.name) \in SUBSET Versions /\ Absent(q.name) \in SUBSET Versions
      BY DEF ActiveVersions, Absent
    <2>4. held \in MetadataReader
      BY <2>1, <2>2, <2>3 DEF MetadataReader
    <2>5. ActiveVersions(q.name) \cap q.gone = {}
      BY <2>1 DEF OutOfService
    <2>6. \A v \in Versions : \/ v \in ActiveVersions(q.name) \cup Absent(q.name)
                              \/ v \in OutOfService(q.name)
      BY DEF OutOfService, Absent
    <2>7. reader' = [reader EXCEPT ![rd] = held]
      BY <1>3 DEF ReadMetadataFirst
    <2> HIDE DEF q, held
    <2>8. HeldTrue(held)
      BY <2>2, <2>4, <2>5, <2>6 DEF HeldTrue
    <2> QED
      BY <2>7, <2>8, TakesUp
  <1>4. ASSUME ReadMetadataSecond(rd) PROVE ReadsInv'
    <2> DEFINE q == reader[rd]
               tagged == {dist_tags[q.name][t] : t \in Tags} \ {None}
               held == [Statement(2, q) EXCEPT !.pc = "metadata"]
    <2>1. q \in MetadataReader /\ q.listed \cap q.gone = {}
      BY <1>1, <1>4, ReaderByPc DEF ReadMetadataSecond, ReadsInv, MetadataFresh
    <2>2. held = [pc |-> "metadata", name |-> q.name, gone |-> q.gone,
                  listed |-> q.listed, unborn |-> q.unborn, tagged |-> tagged]
      BY <2>1, RecordFilled
    <2>3. tagged \in SUBSET Versions
      BY <1>1, <2>1 DEF TypeOK, MetadataReader
    <2>4. reader' = [reader EXCEPT ![rd] = held] \/ reader' = [reader EXCEPT ![rd] = NotReading]
      BY <1>4 DEF ReadMetadataSecond
    <2> HIDE DEF q, held, tagged
    <2>5. HeldTrue(held)
      BY <2>1, <2>2, <2>3 DEF HeldTrue, MetadataReader
    <2>6. HeldTrue(NotReading)
      BY DEF HeldTrue, NotReading
    <2> QED
      BY <2>4, <2>5, <2>6, TakesUp
  <1>5. ASSUME NEW p \in Principals, NEW k \in Keys, ReadBundle(rd, p, k)
        PROVE  ReadsInv'
    <2> DEFINE row == [status |-> versions[k].status, tombstone |-> tombstones[k]]
               held == [pc |-> "bundle", key |-> k, row |-> row]
    <2>1. versions[k] # None /\ versions[k] \in VersionRow
      BY <1>1, <1>5 DEF ReadBundle, TypeOK
    <2>2. row \in [status : {"active", "revoked", "quarantined"}, tombstone : Tombstone \cup {None}]
      BY <1>1, <2>1 DEF TypeOK, VersionRow
    <2>3. IF row.status = "active" THEN row.tombstone = None
          ELSE row.tombstone # None /\ row.tombstone.status = row.status
      BY <2>1 DEF TombstoneAgrees
    <2>4. reader' = [reader EXCEPT ![rd] = held]
      BY <1>5 DEF ReadBundle, Bundle
    <2> HIDE DEF row
    <2>5. HeldTrue(held)
      BY <2>2, <2>3 DEF HeldTrue, BundleReader
    <2> QED
      BY <2>4, <2>5, TakesUp
  <1>6. ASSUME ReadOsvFeed(rd) PROVE ReadsInv'
    <2> DEFINE held == [pc |-> "osv", feed |-> PublicQuarantines]
    <2>1. ASSUME NEW k \in PublicQuarantines
          PROVE  k \in Keys /\ versions[k] # None /\ ~versions[k].private
      BY DEF PublicQuarantines, TombstoneAgrees, OneOwner
    <2>2. reader' = [reader EXCEPT ![rd] = held]
      BY <1>6 DEF ReadOsvFeed
    <2>3. PublicQuarantines \in SUBSET Keys
      BY <2>1
    <2>4. HeldTrue(held)
      BY <2>1, <2>3 DEF HeldTrue, FeedReader
    <2> QED
      BY <2>2, <2>4, TakesUp
  <1>7. ASSUME SendAnswer(rd) PROVE ReadsInv'
    <2>1. HeldTrue(NotReading)
      BY DEF HeldTrue, NotReading
    <2> QED
      BY <1>7, <2>1, TakesUp DEF SendAnswer
  <1> QED
    BY <1>2, <1>3, <1>4, <1>5, <1>6, <1>7 DEF ReadStep

\* The registry's invariant and the read side's hold together.
LEMMA ReadsInvariant == ReadsSpec => [](IInv /\ ReadsInv)
  <1>1. ReadsInit => IInv /\ ReadsInv
    <2> SUFFICES ASSUME ReadsInit PROVE IInv /\ ReadsInv
      OBVIOUS
    <2>1. IInv
      BY InitInvariant DEF ReadsInit
    <2>2. reader = [rd \in Readers |-> NotReading]
      BY DEF ReadsInit
    <2> QED
      BY <2>1, <2>2
      DEF ReadsInv, ReaderType, ReaderKnows, MetadataFresh, BundleAgrees, FeedPublic, NotReading
  <1>2. IInv /\ ReadsInv /\ [ReadsNext]_readVars => (IInv /\ ReadsInv)'
    <2> SUFFICES ASSUME IInv, ReadsInv, [ReadsNext]_readVars PROVE IInv' /\ ReadsInv'
      OBVIOUS
    <2>1. \/ [Next]_vars /\ UNCHANGED reader
          \/ UNCHANGED vars /\ \E rd \in Readers : ReadStep(rd)
      BY DEF ReadsNext, readVars
    <2>2. IInv'
      BY <2>1, StepInvariant
    <2>3. ReadsInv'
      BY <2>1, WritersKeepReads, ReadersKeepReads
    <2> QED
      BY <2>2, <2>3
  <1> QED
    BY <1>1, <1>2, PTL DEF ReadsSpec

\* With any number of concurrent writers and readers, package_metadata offers
\* nothing that was out of service when it was asked, a verdict bundle and its
\* tombstone agree, and the OSV feed names no private package.
THEOREM ReadsCorrect == ReadsSpec => [](MetadataFresh /\ BundleAgrees /\ FeedPublic)
  <1>1. IInv /\ ReadsInv => MetadataFresh /\ BundleAgrees /\ FeedPublic
    BY DEF ReadsInv
  <1> QED
    BY <1>1, ReadsInvariant, PTL

-----------------------------------------------------------------------------
(***************************************************************************)
(* One writer at a time.  With concurrent writers a rollback target can    *)
(* be revoked before the tags move to it; one by one it cannot.            *)
(***************************************************************************)
OneWriter == \A r, s \in Requests : r = s

\* The rollback target a revocation has chosen is still active and is another version.
RollbackHeld ==
    \A r \in Requests : request[r].pc = "revoke.commit" /\ request[r].rollback # None =>
        LET q == request[r] IN
        q.rollback \in ActiveVersions(q.key[1]) /\ q.rollback # q.key[2]

\* The tags a revocation does not move keep naming what they named.
LEMMA RevokeTags ==
    ASSUME TypeOK, NEW r \in Requests, CommitRevoke(r), NEW n \in Names, NEW t \in Tags
    PROVE  LET q == request[r] IN
           dist_tags'[n][t] = IF n = q.key[1] /\ dist_tags[n][t] = q.key[2]
                              THEN q.rollback ELSE dist_tags[n][t]
  <1>1. request[r] \in RevokeRequest
    BY HeldByPc DEF CommitRevoke
  <1>2. PICK k \in Keys : k = request[r].key
    BY <1>1 DEF RevokeRequest
  <1>3. k[1] \in Names
    BY DEF Keys
  <1>4. dist_tags' = [dist_tags EXCEPT ![k[1]] = Retag(@, k[2], request[r].rollback)]
    BY <1>2 DEF CommitRevoke
  <1> QED
    BY <1>2, <1>3, <1>4 DEF TypeOK, Retag

\* Writers one by one keep every dist-tag on an active version.
LEMMA SerialTags ==
    ASSUME OneWriter, IInv, RollbackHeld, TagsActive, [Next]_vars, TypeOK'
    PROVE  RollbackHeld' /\ TagsActive'
  <1>1. TypeOK /\ LockedRowExists
    BY DEF IInv
  <1>2. ASSUME versions' = versions, dist_tags' = dist_tags PROVE TagsActive'
    BY <1>2 DEF TagsActive, ActiveVersions
  <1>3. ASSUME NEW r \in Requests, CommitDecision(r) PROVE TagsActive'
    <2>1. PICK q : q = request[r]
      OBVIOUS
    <2>2. PICK k \in Keys : k = q.key
      BY <1>1, <1>3, <2>1, DecisionWrites
    <2>3. CASE q.decision = "approved"
      <3> DEFINE row == [organization |-> q.stage.organization, artifact |-> q.stage.artifact,
                         private |-> q.stage.private, status |-> "active"]
      <3>1. /\ row \in VersionRow /\ versions' = [versions EXCEPT ![k] = row]
            /\ q.stage.tag \in Tags /\ k[1] \in Names /\ k[2] \in Versions
            /\ dist_tags' = [dist_tags EXCEPT ![k[1]][q.stage.tag] = k[2]]
        BY <1>1, <1>3, <2>1, <2>2, <2>3, DecisionWrites DEF CommitDecision
      <3>2. row.status = "active" /\ row # None
        BY <3>1, NoneAssumption
      <3> HIDE DEF row
      <3>3. k = <<k[1], k[2]>>
        BY DEF Keys
      <3>4. ASSUME NEW n \in Names, NEW v \in Versions, v \in ActiveVersions(n) \/ <<n, v>> = k
            PROVE  v \in ActiveVersions(n)'
        BY <1>1, <3>1, <3>2, <3>4 DEF ActiveVersions, TypeOK, Keys
      <3>5. ASSUME NEW n \in Names, NEW t \in Tags
            PROVE  dist_tags'[n][t] = dist_tags[n][t] \/ (n = k[1] /\ dist_tags'[n][t] = k[2])
        BY <1>1, <3>1 DEF TypeOK
      <3>6. ASSUME NEW n \in Names, NEW t \in Tags, dist_tags'[n][t] # None
            PROVE  dist_tags'[n][t] \in ActiveVersions(n)'
        <4>1. CASE n = k[1] /\ dist_tags'[n][t] = k[2]
          BY <3>1, <3>3, <3>4, <4>1
        <4>2. CASE dist_tags'[n][t] = dist_tags[n][t]
          <5>1. PICK v \in Versions : v = dist_tags[n][t] /\ v \in ActiveVersions(n)
            BY <3>6, <4>2 DEF TagsActive, ActiveVersions
          <5> QED
            BY <3>4, <4>2, <5>1
        <4> QED
          BY <3>5, <4>1, <4>2
      <3> QED
        BY <3>6 DEF TagsActive
    <2>4. CASE q.decision # "approved"
      BY <1>2, <1>3, <2>1, <2>4 DEF CommitDecision
    <2> QED
      BY <2>3, <2>4
  <1>4. ASSUME NEW r \in Requests, CommitRevoke(r) PROVE TagsActive'
    <2>1. PICK k : k = request[r].key
      OBVIOUS
    <2>5. k \in Keys /\ request[r].pc = "revoke.commit"
      BY <1>1, <1>4, <2>1, RevokeWrites, Zenon
    <2>6. ASSUME NEW j \in Keys, j # k PROVE versions'[j] = versions[j]
      BY <1>1, <1>4, <2>1, <2>6 DEF CommitRevoke, TypeOK
    <2>2. /\ request[r].pc = "revoke.commit" /\ k \in Keys /\ k[1] \in Names /\ k[2] \in Versions
          /\ \A j \in Keys : j # k => versions'[j] = versions[j]
      BY <2>5, <2>6 DEF Keys
    <2>3. ASSUME NEW n \in Names, NEW v \in ActiveVersions(n), n # k[1] \/ v # k[2]
          PROVE  v \in ActiveVersions(n)'
      <3>1. v \in Versions /\ <<n, v>> \in Keys /\ <<n, v>> # k
        BY <2>3 DEF ActiveVersions, Keys
      <3> QED
        BY <2>2, <3>1 DEF ActiveVersions
    <2>4. ASSUME NEW n \in Names, NEW t \in Tags, dist_tags'[n][t] # None
          PROVE  dist_tags'[n][t] \in ActiveVersions(n)'
      <3>1. CASE n = k[1] /\ dist_tags[n][t] = k[2]
        <4>1. dist_tags'[n][t] = request[r].rollback
          BY <1>1, <1>4, <2>1, <3>1, RevokeTags
        <4>2. request[r].rollback \in ActiveVersions(k[1]) /\ request[r].rollback # k[2]
          BY <2>1, <2>2, <2>4, <4>1 DEF RollbackHeld
        <4>3. PICK v \in ActiveVersions(n) : v = dist_tags'[n][t] /\ v # k[2]
          BY <3>1, <4>1, <4>2
        <4> QED
          BY <2>3, <4>3
      <3>2. CASE ~ (n = k[1] /\ dist_tags[n][t] = k[2])
        <4>1. dist_tags'[n][t] = dist_tags[n][t]
          BY <1>1, <1>4, <2>1, <3>2, RevokeTags
        <4>2. PICK v \in ActiveVersions(n) : v = dist_tags[n][t]
          BY <2>4, <4>1 DEF TagsActive
        <4> QED
          BY <2>3, <3>2, <4>1, <4>2
      <3> QED
        BY <3>1, <3>2
    <2> QED
      BY <2>4 DEF TagsActive
  <1>5. TagsActive'
    <2>1. UNCHANGED vars \/ UNCHANGED tables => versions' = versions /\ dist_tags' = dist_tags
      BY DEF vars, tables
    <2>2. ASSUME NEW r \in Requests, PutObject(r) \/ CommitStage(r) \/ WriteGrant(r)
          PROVE  versions' = versions /\ dist_tags' = dist_tags
      BY <2>2 DEF PutObject, CommitStage, WriteGrant
    <2> QED
      BY <1>2, <1>3, <1>4, <2>1, <2>2, StepKinds
  <1>6. ASSUME NEW r \in Requests, request'[r].pc = "revoke.commit", request'[r].rollback # None
        PROVE  LET q == request'[r] IN
               /\ \E n \in Names, v \in Versions :
                      /\ n = q.key[1] /\ v = q.rollback /\ v # q.key[2]
                      /\ v \in ActiveVersions(n)
               /\ versions' = versions
    <2>1. CASE request'[r] = request[r]
      <3>1. request[r] \in RevokeRequest /\ request[r].rollback # None /\ request[r].pc = "revoke.commit"
        BY <1>1, <1>6, <2>1, HeldByPc
      <3>2. /\ request[r].key[1] \in Names /\ request[r].rollback \in Versions
            /\ request[r].rollback \in ActiveVersions(request[r].key[1])
            /\ request[r].rollback # request[r].key[2]
        BY <3>1 DEF RollbackHeld, RevokeRequest, Keys
      <3>3. ASSUME NEW s \in Requests, PutObject(s) \/ CommitStage(s) \/ CommitDecision(s) \/ WriteGrant(s)
            PROVE  FALSE
        BY <3>1, <3>3 DEF OneWriter, PutObject, CommitStage, CommitDecision, WriteGrant
      <3>4. ASSUME NEW s \in Requests, CommitRevoke(s) PROVE FALSE
        <4>1. request'[s] = Idle
          BY <1>1, <3>4 DEF CommitRevoke, Finish, TypeOK
        <4> QED
          BY <1>6, <4>1 DEF OneWriter, Idle
      <3>5. versions' = versions
        BY <3>3, <3>4, StepKinds DEF vars, tables
      <3> QED
        BY <2>1, <3>2, <3>5
    <2>2. CASE request'[r] # request[r]
      <3>1. BeginRevoke(r)
        BY <1>1, <1>6, <2>2, StepByPc
      <3>2. request[r] \in RevokeRequest
        BY <1>1, <3>1, HeldByPc DEF BeginRevoke
      <3>3. PICK k \in Keys : k = request[r].key
        BY <3>2 DEF RevokeRequest
      <3>4. request'[r].rollback = RollbackTarget(k) /\ request'[r].key = k
        BY <1>1, <3>1, <3>2, <3>3 DEF BeginRevoke, TypeOK, RevokeRequest
      <3>5. RollbackTarget(k) \in (ActiveVersions(k[1]) \ {k[2]}) \cup {None}
        <4>1. ActiveVersions(k[1]) \ {k[2]} \in SUBSET Versions
          BY DEF ActiveVersions
        <4> QED
          BY <4>1, HighestIsOne DEF RollbackTarget
      <3>6. versions' = versions
        BY <3>1 DEF BeginRevoke, tables
      <3>7. k[1] \in Names /\ ActiveVersions(k[1]) \subseteq Versions
        BY DEF Keys, ActiveVersions
      <3> QED
        BY <1>6, <3>4, <3>5, <3>6, <3>7
    <2> QED
      BY <2>1, <2>2
  <1>7. RollbackHeld'
    BY <1>6 DEF RollbackHeld, ActiveVersions
  <1> QED
    BY <1>5, <1>7

\* With one writer at a time a tag that is read names an active version, which the
\* first SELECT listed or which was published after it.
LEMMA SerialReads ==
    ASSUME IInv, ReadsInv, TagsActive, TagsResolve, [ReadsNext]_readVars
    PROVE  TagsResolve'
  <1> SUFFICES ASSUME NEW x \in Readers, reader'[x].pc = "metadata"
               PROVE  reader'[x].tagged \subseteq reader'[x].listed \cup reader'[x].unborn
    BY DEF TagsResolve
  <1>1. CASE reader'[x] = reader[x]
    BY <1>1 DEF TagsResolve
  <1>2. CASE reader'[x] # reader[x]
    <2>1. PICK rd \in Readers : ReadStep(rd)
      BY <1>2 DEF ReadsNext, readVars
    <2>2. ReaderType
      BY DEF ReadsInv
    <2>3. ASSUME NEW held, reader' = [reader EXCEPT ![rd] = held]
          PROVE  x = rd /\ held = reader'[x]
      BY <1>2, <2>2, <2>3 DEF ReaderType
    <2>4. ReadMetadataSecond(rd)
      <3>1. ASSUME NEW p \in Principals, NEW n \in Names, BeginMetadata(rd, p, n) PROVE FALSE
        BY <2>3, <3>1 DEF BeginMetadata
      <3>2. ASSUME ReadMetadataFirst(rd) PROVE FALSE
        <4>1. reader[rd] \in MetadataReader
          BY <2>2, <3>2, ReaderByPc DEF ReadMetadataFirst
        <4>2. reader'[x] = [Statement(1, reader[rd]) EXCEPT !.pc = "second"]
          BY <2>3, <3>2 DEF ReadMetadataFirst
        <4> QED
          BY <4>1, <4>2, RecordFilled
      <3>3. ASSUME NEW p \in Principals, NEW k \in Keys, ReadBundle(rd, p, k) PROVE FALSE
        BY <2>3, <3>3 DEF ReadBundle
      <3>4. ASSUME ReadOsvFeed(rd) PROVE FALSE
        <4>1. reader'[x] = [pc |-> "osv", feed |-> PublicQuarantines]
          BY <2>3, <3>4 DEF ReadOsvFeed
        <4> QED
          BY <4>1
      <3>5. ASSUME SendAnswer(rd) PROVE FALSE
        <4>1. reader'[x] = NotReading
          BY <2>3, <3>5 DEF SendAnswer
        <4> QED
          BY <4>1 DEF NotReading
      <3> QED
        BY <2>1, <3>1, <3>2, <3>3, <3>4, <3>5 DEF ReadStep
    <2>5. PICK q \in MetadataReader : q = reader[rd]
      BY <2>2, <2>4, ReaderByPc DEF ReadMetadataSecond
    <2>6. reader'[x] = [Statement(2, q) EXCEPT !.pc = "metadata"]
      <3>1. \/ reader' = [reader EXCEPT ![rd] = NotReading]
            \/ reader' = [reader EXCEPT ![rd] = [Statement(2, q) EXCEPT !.pc = "metadata"]]
        BY <2>4, <2>5 DEF ReadMetadataSecond
      <3>2. NotReading.pc # "metadata"
        BY DEF NotReading
      <3> QED
        BY <2>3, <3>1, <3>2
    <2>7. reader'[x] = [pc |-> "metadata", name |-> q.name, gone |-> q.gone,
                        listed |-> q.listed, unborn |-> q.unborn,
                        tagged |-> {dist_tags[q.name][t] : t \in Tags} \ {None}]
      BY <2>6, RecordFilled
    <2>8. ASSUME NEW t \in Tags, dist_tags[q.name][t] # None
          PROVE  dist_tags[q.name][t] \in q.listed \cup q.unborn
      <3>1. q.name \in Names
        BY DEF MetadataReader
      <3>2. dist_tags[q.name][t] \in ActiveVersions(q.name)
        BY <2>8, <3>1 DEF TagsActive
      <3>3. \A v \in Versions : v \in q.listed \cup q.unborn \/ v \in OutOfService(q.name)
        BY <2>4, <2>5 DEF ReadsInv, ReaderKnows, ReadMetadataSecond
      <3> QED
        BY <3>2, <3>3 DEF OutOfService, ActiveVersions
    <2> QED
      BY <2>7, <2>8
  <1> QED
    BY <1>1, <1>2

\* Writers one by one, with any number of readers, keep the tags on active
\* versions and a metadata answer from tagging what was revoked.
LEMMA SerialInvariant ==
    ASSUME OneWriter
    PROVE  ReadsSpec => [](TagsActive /\ TagsResolve)
  <1> DEFINE SInv == RollbackHeld /\ TagsActive /\ TagsResolve
  <1>1. ReadsInit => SInv
    <2> SUFFICES ASSUME ReadsInit PROVE SInv
      OBVIOUS
    <2>1. \A r \in Requests : request[r].pc = "idle"
      BY DEF ReadsInit, Init, Idle
    <2>2. \A rd \in Readers : reader[rd].pc = "idle"
      BY DEF ReadsInit, NotReading
    <2>3. \A n \in Names, t \in Tags : dist_tags[n][t] = None
      BY DEF ReadsInit, Init
    <2> QED
      BY <2>1, <2>2, <2>3 DEF RollbackHeld, TagsActive, TagsResolve
  <1>2. (IInv /\ ReadsInv) /\ (IInv /\ ReadsInv)' /\ SInv /\ [ReadsNext]_readVars => SInv'
    <2> SUFFICES ASSUME IInv, ReadsInv, IInv', SInv, [ReadsNext]_readVars PROVE SInv'
      OBVIOUS
    <2>1. [Next]_vars
      BY DEF ReadsNext, readVars
    <2>2. RollbackHeld' /\ TagsActive'
      BY <2>1, SerialTags DEF IInv
    <2> QED
      BY <2>2, SerialReads
  <1> QED
    BY <1>1, <1>2, ReadsInvariant, PTL DEF ReadsSpec

\* A dist-tag resolves to an active version as long as the writers take turns:
\* revoke_version's rollback target is then still active when the tags move.
THEOREM SerialTagsCorrect == ASSUME OneWriter PROVE ReadsSpec => []TagsActive
  BY SerialInvariant, PTL

\* With writers that take turns, any number of readers between their steps are
\* answered with nothing that was withdrawn when they asked, and a tag leads to a
\* listed version or to one published between the two SELECTs, never to a revoked one.
THEOREM SerialAnswersCorrect == ASSUME OneWriter PROVE ReadsSpec => []AnswersCurrent
  <1>1. (MetadataFresh /\ BundleAgrees /\ FeedPublic) /\ (TagsActive /\ TagsResolve)
            => AnswersCurrent
    BY DEF AnswersCurrent
  <1> QED
    BY <1>1, ReadsCorrect, SerialInvariant, PTL
=============================================================================

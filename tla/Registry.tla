------------------------------ MODULE Registry ------------------------------
(***************************************************************************)
(* The registry's control plane: organizations stage artifacts, approve or *)
(* reject them, revoke published versions and grant package roles, through *)
(* HTTP handlers that run concurrently against PostgreSQL and an object    *)
(* store (crates/oath-registry/src/postgres_api.rs and control_plane.rs).  *)
(*                                                                         *)
(* A handler is a request process.  Its steps are the points where another *)
(* handler can be seen to interleave: the reads it makes before its        *)
(* transaction, the object write, and the transaction itself.  Under READ  *)
(* COMMITTED a transaction that reads rows it does not lock is two steps   *)
(* (create_stage counts, then inserts; revoke_version picks the rollback   *)
(* target, then moves the tags); one that only touches rows it has locked  *)
(* is one step.  Delivery of the audit outbox (drain_outbox) touches       *)
(* neither of the tables below except registry_outbox.delivered_at and is  *)
(* the subject of module Outbox.                                           *)
(***************************************************************************)
EXTENDS Integers, FiniteSets, FiniteSetsExt

CONSTANTS
    Requests,            \* handler processes
    Orgs,                \* organizations
    Names,               \* package names
    Versions,            \* version numbers, in semantic-version order
    Tags,                \* dist-tags
    Bodies,              \* what an archive holds besides name and version
    DeniedBodies,        \* the bodies the server assessment denies
    Visibilities,        \* values of the private flag requests use
    Principals,          \* authenticated callers: organization, role, kind
    RevokeStatuses,      \* statuses a revocation may ask for
    GrantRoles,          \* package roles a grant may ask for
    Scope,               \* Scope[n]: organization named by an @scope, or None
    MaxPendingStages,    \* OATH_REGISTRY_MAX_PENDING_STAGES
    RequireStepUp,       \* OATH_REQUIRE_STEP_UP_APPROVAL
    None                 \* an absent row

Roles == {"reader", "publisher", "admin"}
WriteRoles == {"publisher", "admin"}
Kinds == {"bootstrap", "service", "oidc", "oidc-mfa"}

\* A package version's primary key.
Keys == Names \X Versions

\* An archive carries its own package.json, so its digest determines name and
\* version as well as the rest of its bytes; the digest is the artifact here.
Artifacts == [key : Keys, body : Bodies]

PackageRow == [organization : Orgs, private : BOOLEAN]
StageRow == [organization : Orgs, artifact : Artifacts, tag : Tags,
             private : BOOLEAN, status : {"staged", "approved", "rejected"}]
VersionRow == [organization : Orgs, artifact : Artifacts, private : BOOLEAN,
               status : {"active", "revoked", "quarantined"}]
Tombstone == [status : {"revoked", "quarantined"}, actor : Orgs]

\* The event_key column of registry_outbox: the event's type and its subject.
EventKeys == {"stage.created", "stage.approved", "stage.rejected",
              "version.revoked", "version.quarantined"} \X Keys

ASSUME ConstantsAssumption ==
    /\ Versions \subseteq Int
    /\ IsFiniteSet(Names) /\ IsFiniteSet(Versions)
    /\ DeniedBodies \subseteq Bodies
    /\ Visibilities \subseteq BOOLEAN
    /\ Principals \subseteq [organization : Orgs, role : Roles, kind : Kinds]
    /\ RevokeStatuses \subseteq {"revoked", "quarantined"}
    /\ GrantRoles \subseteq Roles
    /\ Scope \in [Names -> Orgs \cup {None}]
    /\ MaxPendingStages \in Nat \ {0}
    /\ RequireStepUp \in BOOLEAN

\* Finitely many versions in a total order: any choice of some has a highest.
ASSUME VersionOrderAssumption ==
    \A S \in SUBSET Versions :
        S # {} => \E m \in S : \A v \in S : m >= v

ASSUME NoneAssumption ==
    /\ None \notin Orgs
    /\ None \notin Versions
    /\ None \notin Roles
    /\ None \notin PackageRow
    /\ None \notin StageRow
    /\ None \notin VersionRow
    /\ None \notin Tombstone

VARIABLES
    packages,       \* [Names -> PackageRow or None]
    package_roles,  \* [Names -> [Orgs -> Roles or None]]
    objects,        \* artifacts in the content-addressed object store
    stages,         \* [Keys -> StageRow or None], UNIQUE(name, version)
    versions,       \* [Keys -> VersionRow or None]
    dist_tags,      \* [Names -> [Tags -> Versions or None]]
    tombstones,     \* [Keys -> Tombstone or None]
    outbox,         \* event keys in registry_outbox
    request         \* [Requests -> what a handler holds between two steps]

tables == <<packages, package_roles, objects, stages, versions, dist_tags,
            tombstones, outbox>>
vars == <<tables, request>>

(***************************************************************************)
(* What a handler holds in its local variables between two steps.          *)
(***************************************************************************)
Decisions == {"approved", "rejected"}

Idle == [pc |-> "idle"]
StageRequest == [pc : {"stage.put", "stage.begin", "stage.commit"},
                 owner : Orgs, artifact : Artifacts, tag : Tags,
                 private : BOOLEAN]
DecideRequest == [pc : {"decide"}, decision : Decisions, key : Keys,
                  stage : StageRow]
RevokeRequest == [pc : {"revoke.begin", "revoke.commit"}, key : Keys,
                  status : {"revoked", "quarantined"}, actor : Orgs,
                  rollback : Versions \cup {None}]
GrantRequest == [pc : {"grant"}, name : Names, owner : Orgs, grantee : Orgs,
                 role : Roles]
DownloadRequest == [pc : {"download"}, reader : Orgs \cup {None}, key : Keys,
                    row : VersionRow]

Begin(r, held) ==
    /\ request[r] = Idle
    /\ request' = [request EXCEPT ![r] = held]

Finish(r) == request' = [request EXCEPT ![r] = Idle]

-----------------------------------------------------------------------------
\* Faulty variants.  Next to some operators stands a variant with a plausible
\* bug, marked "Faulty:".  Nothing uses it: substituted for its original it
\* must make a property fail, which shows that the property depends on it.

\* Faulty: the scope of a new name is not compared with the organization.
AuthorizedNoScope(p, n, write) ==
    IF packages[n] # None
    THEN IF packages[n].organization = p.organization
         THEN write => p.role \in WriteRoles
         ELSE package_roles[n][p.organization]
                  \in (IF write THEN WriteRoles ELSE Roles)
    ELSE write /\ p.role \in WriteRoles

\* Faulty: a read of another organization's package needs no package role.
AuthorizedReadOpen(p, n, write) ==
    IF packages[n] # None
    THEN IF packages[n].organization = p.organization
         THEN write => p.role \in WriteRoles
         ELSE write => package_roles[n][p.organization] \in WriteRoles
    ELSE /\ write
         /\ p.role \in WriteRoles
         /\ Scope[n] \in {None, p.organization}

\* PostgresRegistry::authorize_name: the owner of an existing package, or an
\* organization the owner granted a role; a new name needs a write role and,
\* when scoped, the scope's organization.
Authorized(p, n, write) ==
    IF packages[n] # None
    THEN IF packages[n].organization = p.organization
         THEN write => p.role \in WriteRoles
         ELSE package_roles[n][p.organization]
                  \in (IF write THEN WriteRoles ELSE Roles)
    ELSE /\ write
         /\ p.role \in WriteRoles
         /\ Scope[n] \in {None, p.organization}

\* The organization authorize_name returns as the owner.
OwnerFor(p, n) ==
    IF packages[n] # None THEN packages[n].organization ELSE p.organization

\* Stages of an organization that count against its quota.
Pending(o) ==
    {k \in Keys : stages[k] # None /\ stages[k].organization = o
                                   /\ stages[k].status = "staged"}

\* Faulty: the advisory lock is not taken.
OrgNeverLocked(o) == FALSE

\* pg_advisory_xact_lock(hashtext(organization)), held to the end of the
\* create_stage transaction.
OrgLocked(o) ==
    \E r \in Requests : /\ request[r].pc = "stage.commit"
                        /\ request[r].owner = o

\* The row lock revoke_version's UPDATE takes on the version.
VersionLocked(k) ==
    \E r \in Requests : /\ request[r].pc = "revoke.commit"
                        /\ request[r].key = k

ActiveVersions(n) ==
    {v \in Versions : /\ versions[<<n, v>>] # None
                      /\ versions[<<n, v>>].status = "active"}

HighestOf(S) == IF S = {} THEN None ELSE Max(S)

\* Faulty: the active versions are read before the status is overwritten.
RollbackTargetItself(k) == HighestOf(ActiveVersions(k[1]))

\* revoke_version's rollback target: the highest active version other than the
\* one being revoked, whose status the transaction has already overwritten.
RollbackTarget(k) == HighestOf(ActiveVersions(k[1]) \ {k[2]})

\* The row create_stage finds after INSERT ... ON CONFLICT (name) DO NOTHING.
PackageAfterInsert(n, q) ==
    IF packages[n] # None THEN packages[n]
    ELSE [organization |-> q.owner, private |-> q.private]

\* Faulty: the owner is not checked again on the locked row.
PackageAdmitsVisibility(row, q) == row.private = q.private

\* The two ensure! checks of create_stage on the locked package row.
PackageAdmits(row, q) ==
    /\ row.organization = q.owner
    /\ row.private = q.private

\* Faulty: the status is not read again under the row's lock.
UndecidedUnlocked(k, decision) ==
    decision = "approved" => versions[k] = None

\* What must still hold of a stage inside the decision's transaction: nobody
\* decided it, and an approval's INSERT meets no row with that primary key.
Undecided(k, decision) ==
    /\ stages[k] # None
    /\ stages[k].status = "staged"
    /\ decision = "approved" => versions[k] = None

\* Faulty: the server's verdict is not consulted.
ApprovableAnyway(a) == TRUE

\* decide's refusal of an artifact the server assessment denied.
Approvable(a) == a.body \notin DeniedBodies

\* put_immutable: content-addressed, so writing it again changes nothing.
ObjectsWith(a) == objects \cup {a}

\* INSERT INTO tombstones ... ON CONFLICT (name, version) DO UPDATE.
TombstoneFor(k, q) == [status |-> q.status, actor |-> q.actor]

\* "stage.approved:{id}" or "stage.rejected:{id}"
DecisionEvent(k, decision) ==
    <<IF decision = "approved" THEN "stage.approved" ELSE "stage.rejected", k>>

\* Faulty: the event key does not carry the status.
RevokeEventRevoked(k, status) == <<"version.revoked", k>>

\* format!("version.{status}:{name}@{version}")
RevokeEvent(k, status) ==
    <<IF status = "revoked" THEN "version.revoked" ELSE "version.quarantined",
      k>>

\* UPDATE dist_tags ... or, without a target, DELETE FROM dist_tags.
Retag(tags, revoked, target) ==
    [t \in Tags |-> IF tags[t] = revoked THEN target ELSE tags[t]]

-----------------------------------------------------------------------------
(***************************************************************************)
(* POST /-/oath/stages                                                     *)
(***************************************************************************)
\* Authorization and the early visibility check.  The archive's manifest must
\* name the requested package and version, so the artifact carries the key.
AuthorizeStage(r, p, a, tag, private) ==
    LET n == a.key[1] IN
    /\ Authorized(p, n, TRUE)
    /\ packages[n] # None => packages[n].private = private
    /\ Begin(r, [pc |-> "stage.put", owner |-> OwnerFor(p, n), artifact |-> a,
                 tag |-> tag, private |-> private])
    /\ UNCHANGED tables

PutObject(r) ==
    /\ request[r].pc = "stage.put"
    /\ objects' = ObjectsWith(request[r].artifact)
    /\ request' = [request EXCEPT ![r].pc = "stage.begin"]
    /\ UNCHANGED <<packages, package_roles, stages, versions, dist_tags,
                   tombstones, outbox>>

\* The transaction takes the organization's advisory lock and counts.
BeginStage(r) ==
    /\ request[r].pc = "stage.begin"
    /\ ~ OrgLocked(request[r].owner)
    /\ Cardinality(Pending(request[r].owner)) < MaxPendingStages
    /\ request' = [request EXCEPT ![r].pc = "stage.commit"]
    /\ UNCHANGED tables

\* The rest of the transaction: INSERT INTO packages ... ON CONFLICT DO
\* NOTHING, owner and visibility checked on the locked row, the stage inserted
\* unless (name, version) was staged before, the audit intent, COMMIT.
CommitStage(r) ==
    LET q == request[r]
        k == q.artifact.key
        n == k[1]
        row == PackageAfterInsert(n, q)
    IN  /\ q.pc = "stage.commit"
        /\ PackageAdmits(row, q)
        /\ stages[k] = None
        /\ packages' = [packages EXCEPT ![n] = row]
        /\ stages' = [stages EXCEPT ![k] =
               [organization |-> q.owner, artifact |-> q.artifact,
                tag |-> q.tag, private |-> q.private, status |-> "staged"]]
        /\ outbox' = outbox \cup {<<"stage.created", k>>}
        /\ Finish(r)
        /\ UNCHANGED <<package_roles, objects, versions, dist_tags, tombstones>>

(***************************************************************************)
(* POST /-/oath/stages/{id}/approve and /reject                            *)
(***************************************************************************)
\* decide, up to its transaction: the stage is read once, outside it.
ReadStage(r, p, k, decision) ==
    /\ p.role = "admin"
    /\ decision = "approved" /\ RequireStepUp => p.kind = "oidc-mfa"
    /\ stages[k] # None
    /\ stages[k].organization = p.organization
    /\ decision = "approved" => Approvable(stages[k].artifact)
    /\ Begin(r, [pc |-> "decide", decision |-> decision, key |-> k,
                 stage |-> stages[k]])
    /\ UNCHANGED tables

\* decide_stage: the status is read again under the row's lock; the published
\* version is a copy of the stage the handler read before.
CommitDecision(r) ==
    LET q == request[r]
        k == q.key
        n == k[1]
    IN  /\ q.pc = "decide"
        /\ Undecided(k, q.decision)
        /\ stages' = [stages EXCEPT ![k].status = q.decision]
        /\ outbox' = outbox \cup {DecisionEvent(k, q.decision)}
        /\ IF q.decision = "approved"
           THEN /\ versions' = [versions EXCEPT ![k] =
                       [organization |-> q.stage.organization,
                        artifact |-> q.stage.artifact,
                        private |-> q.stage.private, status |-> "active"]]
                /\ dist_tags' =
                       [dist_tags EXCEPT ![n][q.stage.tag] = k[2]]
           ELSE UNCHANGED <<versions, dist_tags>>
        /\ Finish(r)
        /\ UNCHANGED <<packages, package_roles, objects, tombstones>>

(***************************************************************************)
(* POST .../{name}/{version}/revoke                                        *)
(***************************************************************************)
AuthorizeRevoke(r, p, k, status) ==
    /\ Authorized(p, k[1], TRUE)
    /\ Begin(r, [pc |-> "revoke.begin", key |-> k, status |-> status,
                 actor |-> p.organization, rollback |-> None])
    /\ UNCHANGED tables

\* The transaction locks and updates the version's row and reads which versions
\* are active.  It sees what other transactions have committed by now.
BeginRevoke(r) ==
    LET k == request[r].key IN
    /\ request[r].pc = "revoke.begin"
    /\ versions[k] # None
    /\ ~ VersionLocked(k)
    /\ request' = [request EXCEPT ![r].pc = "revoke.commit",
                                  ![r].rollback = RollbackTarget(k)]
    /\ UNCHANGED tables

\* The tags that name the version now move to the target chosen before; the
\* outbox's UNIQUE(event_key) refuses a second revocation with one status.
CommitRevoke(r) ==
    LET q == request[r]
        k == q.key
        event == RevokeEvent(k, q.status)
    IN  /\ q.pc = "revoke.commit"
        /\ event \notin outbox
        /\ versions' = [versions EXCEPT ![k].status = q.status]
        /\ tombstones' = [tombstones EXCEPT ![k] = TombstoneFor(k, q)]
        /\ dist_tags' =
               [dist_tags EXCEPT ![k[1]] = Retag(@, k[2], q.rollback)]
        /\ outbox' = outbox \cup {event}
        /\ Finish(r)
        /\ UNCHANGED <<packages, package_roles, objects, stages>>

(***************************************************************************)
(* POST .../{name}/roles                                                   *)
(***************************************************************************)
AuthorizeGrant(r, p, n, grantee, role) ==
    /\ p.role = "admin"
    /\ Authorized(p, n, TRUE)
    /\ OwnerFor(p, n) = p.organization
    /\ Begin(r, [pc |-> "grant", name |-> n, owner |-> p.organization,
                 grantee |-> grantee, role |-> role])
    /\ UNCHANGED tables

\* grant_package_role: the owner is checked again, then the role is upserted.
WriteGrant(r) ==
    LET q == request[r] IN
    /\ q.pc = "grant"
    /\ packages[q.name] # None
    /\ packages[q.name].organization = q.owner
    /\ package_roles' = [package_roles EXCEPT ![q.name][q.grantee] = q.role]
    /\ Finish(r)
    /\ UNCHANGED <<packages, objects, stages, versions, dist_tags, tombstones,
                   outbox>>

(***************************************************************************)
(* GET /-/oath/tarballs/{name}/{version}                                   *)
(***************************************************************************)
\* download_version reads the row once; a public version needs no principal.
ReadVersion(r, p, k) ==
    /\ versions[k] # None
    /\ versions[k].status = "active"
    /\ IF versions[k].private
       THEN /\ Authorized(p, k[1], FALSE)
            /\ Begin(r, [pc |-> "download", reader |-> p.organization,
                         key |-> k, row |-> versions[k]])
       ELSE Begin(r, [pc |-> "download", reader |-> None, key |-> k,
                      row |-> versions[k]])
    /\ UNCHANGED tables

\* The object is read by the digest of that row and the download counted; the
\* count's UPDATE waits for a revocation that holds the row.
ServeDownload(r) ==
    /\ request[r].pc = "download"
    /\ request[r].row.artifact \in objects
    /\ ~ VersionLocked(request[r].key)
    /\ Finish(r)
    /\ UNCHANGED tables

\* A handler that returns early: a check of its transaction that does not hold
\* (quota, owner, visibility, a unique key, a decided stage), an error of the
\* database or the object store, or a crash of the process.  The transaction
\* rolls back; an object already written stays.
Fail(r) ==
    /\ request[r] # Idle
    /\ Finish(r)
    /\ UNCHANGED tables

-----------------------------------------------------------------------------
Init ==
    /\ packages = [n \in Names |-> None]
    /\ package_roles = [n \in Names |-> [o \in Orgs |-> None]]
    /\ objects = {}
    /\ stages = [k \in Keys |-> None]
    /\ versions = [k \in Keys |-> None]
    /\ dist_tags = [n \in Names |-> [t \in Tags |-> None]]
    /\ tombstones = [k \in Keys |-> None]
    /\ outbox = {}
    /\ request = [r \in Requests |-> Idle]

StageSteps(r) ==
    \/ \E p \in Principals, a \in Artifacts, t \in Tags, b \in Visibilities :
           AuthorizeStage(r, p, a, t, b)
    \/ PutObject(r)
    \/ BeginStage(r)
    \/ CommitStage(r)

DecideSteps(r) ==
    \/ \E p \in Principals, k \in Keys, decision \in Decisions :
           ReadStage(r, p, k, decision)
    \/ CommitDecision(r)

RevokeSteps(r) ==
    \/ \E p \in Principals, k \in Keys, s \in RevokeStatuses :
           AuthorizeRevoke(r, p, k, s)
    \/ BeginRevoke(r)
    \/ CommitRevoke(r)

GrantSteps(r) ==
    \/ \E p \in Principals, n \in Names, o \in Orgs, role \in GrantRoles :
           AuthorizeGrant(r, p, n, o, role)
    \/ WriteGrant(r)

DownloadSteps(r) ==
    \/ \E p \in Principals, k \in Keys : ReadVersion(r, p, k)
    \/ ServeDownload(r)

Next ==
    \E r \in Requests :
        \/ StageSteps(r)
        \/ DecideSteps(r)
        \/ RevokeSteps(r)
        \/ GrantSteps(r)
        \/ DownloadSteps(r)
        \/ Fail(r)

Spec == Init /\ [][Next]_vars

-----------------------------------------------------------------------------
\* Every table and every in-flight request has the shape the schema and the
\* handlers give it.
TypeOK ==
    /\ packages \in [Names -> PackageRow \cup {None}]
    /\ package_roles \in [Names -> [Orgs -> Roles \cup {None}]]
    /\ objects \subseteq Artifacts
    /\ stages \in [Keys -> StageRow \cup {None}]
    /\ versions \in [Keys -> VersionRow \cup {None}]
    /\ dist_tags \in [Names -> [Tags -> Versions \cup {None}]]
    /\ tombstones \in [Keys -> Tombstone \cup {None}]
    /\ outbox \subseteq EventKeys
    /\ request \in [Requests -> {Idle} \cup StageRequest \cup DecideRequest
                        \cup RevokeRequest \cup GrantRequest
                        \cup DownloadRequest]

\* A package name has one owner and one visibility, a scoped name belongs to
\* its scope's organization, and no stage or version of the name disagrees,
\* whichever organizations race to stage it first.
OneOwner ==
    /\ \A n \in Names : packages[n] # None =>
           Scope[n] \in {None, packages[n].organization}
    /\ \A k \in Keys : stages[k] # None =>
           /\ packages[k[1]] # None
           /\ stages[k].organization = packages[k[1]].organization
           /\ stages[k].private = packages[k[1]].private
    /\ \A k \in Keys : versions[k] # None =>
           /\ packages[k[1]] # None
           /\ versions[k].organization = packages[k[1]].organization
           /\ versions[k].private = packages[k[1]].private

\* A version exists exactly when its stage was approved, and it is the archive
\* that was staged and assessed: of that name and version, not denied by the
\* server, and present in the object store.
PublishedAsReviewed ==
    \A k \in Keys :
        /\ versions[k] # None <=> stages[k] # None /\ stages[k].status = "approved"
        /\ versions[k] # None =>
               /\ versions[k].artifact = stages[k].artifact
               /\ versions[k].artifact.key = k
               /\ versions[k].artifact.body \notin DeniedBodies
               /\ versions[k].artifact \in objects

\* An organization never has more undecided stages than its quota, however
\* many of its publishers stage at once.
QuotaRespected ==
    \A o \in Orgs : Cardinality(Pending(o)) <= MaxPendingStages

\* A version is out of service exactly when a tombstone says so, and with the
\* tombstone's status, also after a second decision or two concurrent ones.
TombstoneAgrees ==
    \A k \in Keys :
        /\ tombstones[k] # None <=> versions[k] # None /\ versions[k].status # "active"
        /\ tombstones[k] # None => tombstones[k].status = versions[k].status

\* The organization that revoked a version owns the package, or was granted a
\* role in it by the owner.
TrustedActor(k) ==
    \/ tombstones[k].actor = packages[k[1]].organization
    \/ package_roles[k[1]][tombstones[k].actor] # None

\* Access to another organization's package takes a role its owner granted.
RevokedByTrusted == \A k \in Keys : tombstones[k] # None => TrustedActor(k)

\* The same of scoped names, which only one organization can ever claim.
ScopedRevokedByTrusted ==
    \A k \in Keys :
        tombstones[k] # None /\ Scope[k[1]] # None => TrustedActor(k)

\* Audit intent is transactional: every stage, decision and revocation the
\* tables show has its event in the outbox, and the outbox claims no other.
AuditIntentMatches ==
    \A k \in Keys :
        /\ <<"stage.created", k>> \in outbox <=> stages[k] # None
        /\ <<"stage.approved", k>> \in outbox <=>
               stages[k] # None /\ stages[k].status = "approved"
        /\ <<"stage.rejected", k>> \in outbox <=>
               stages[k] # None /\ stages[k].status = "rejected"
        /\ tombstones[k] # None =>
               <<IF tombstones[k].status = "revoked" THEN "version.revoked"
                 ELSE "version.quarantined", k>> \in outbox
        /\ tombstones[k] = None =>
               {<<"version.revoked", k>>, <<"version.quarantined", k>>}
                   \cap outbox = {}

\* A dist-tag names a published version of its package.
TagsPublished ==
    \A n \in Names, t \in Tags : dist_tags[n][t] # None =>
        versions[<<n, dist_tags[n][t]>>] # None

\* A download in progress serves the bytes that were reviewed and approved,
\* and a private one goes to the owner or to an organization with a role, even
\* if revocations and grants commit while it runs.
DownloadsReviewed ==
    \A r \in Requests : request[r].pc = "download" =>
        LET q == request[r] IN
        /\ q.row.artifact \in objects
        /\ stages[q.key] # None /\ stages[q.key].status = "approved"
        /\ q.row.artifact = stages[q.key].artifact
        /\ q.row.artifact.body \notin DeniedBodies
        /\ q.row.private =>
               /\ q.reader # None
               /\ \/ q.reader = packages[q.key[1]].organization
                  \/ package_roles[q.key[1]][q.reader] # None

\* A decision is final: no later approval or rejection changes a decided stage.
DecisionsFinal ==
    [][\A k \in Keys : stages[k] # None =>
          IF stages[k].status = "staged"
          THEN stages'[k] \in {[stages[k] EXCEPT !.status = s] :
                                  s \in {"staged", "approved", "rejected"}}
          ELSE stages'[k] = stages[k]]_vars

\* A published version stays: its bytes, owner and visibility never change, and
\* once revoked or quarantined it never becomes active again.
PublishedForever ==
    [][\A k \in Keys : versions[k] # None =>
          /\ versions'[k] # None
          /\ versions'[k].artifact = versions[k].artifact
          /\ versions'[k].organization = versions[k].organization
          /\ versions'[k].private = versions[k].private
          /\ versions'[k].status = "active" => versions[k].status = "active"]_vars

\* A dist-tag resolves to an active version.
TagsActive ==
    \A n \in Names, t \in Tags : dist_tags[n][t] # None =>
        dist_tags[n][t] \in ActiveVersions(n)

=============================================================================

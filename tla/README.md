# A TLA+ verification of Oath

Oath is a package manager for npm packages with a registry of its own. A client
(`oath-cli`) resolves, downloads, assesses, stores and links packages; the
registry (`oath-registry`) lets organizations stage archives, decide about them
and revoke what they published, and keeps a hash-chained log of every decision.
This directory models the parts of it whose correctness depends on what happens
*between* two steps: handlers that interleave, transactions that roll back,
deliveries that are repeated, installs that stop half way.

The registry comes first because it is what everybody else trusts: a client
verifies digests and signatures, but who may publish under a name, what was
reviewed, and what the log says is decided there.

## The system and its parts

| Part | State | Operations | What is hard |
| --- | --- | --- | --- |
| Control plane (`oath-registry`: `postgres_api.rs`, `control_plane.rs`) | PostgreSQL tables `packages`, `package_roles`, `stages`, `versions`, `dist_tags`, `tombstones` | stage, approve, reject, revoke or quarantine, grant a role, download | every handler checks with reads before its transaction; READ COMMITTED; two handlers on one row, name or quota |
| Audit outbox and log (`drain_outbox`, `append_event_keyed`, `main.rs`) | `registry_outbox`, `registry_events` | enqueue in the mutation's transaction, drain after every mutation and once a second, retry | concurrent drains of one row, lost acknowledgements, a crash between append and mark, the chain's last hash |
| Artifact store (`object_backend.rs`) | objects by digest in a primary and its replicas | immutable put, get with fallback and read repair | partial replication, lost and rotten copies |
| Identity (`identity.rs`, `postgres_api.rs`) | `tokens`, `invitations`, `organization_members` | issue, invite, accept, revoke, exchange an OIDC token | accept against revoke, a mail that fails after the row is written, an event appended after the mutation |
| Rate limits | `registry_rate_limits` | count in a window, prune | window boundary |
| Billing (`billing.rs`) | `billing_events` | receive a webhook | repeated, late and unsigned deliveries |
| Checkpoints, proofs and signing key (`lib.rs`) | a key file; the log | checkpoint, inclusion and consistency proof; first use of the key | tree sizes that are no power of two; two processes creating the key |
| Content-addressable store (`oath-store/cas.rs`, `main.rs`) | package directories with a marker, the git cache | fetch, verify, repair, commit, link | processes importing one package, one of them repairing, kills |
| Linker (`oath-store/linker.rs`) | `node_modules`, a stage and a backup beside it | link a graph or a placement plan, recover | a crash at any point of the exchange; relative links through links |
| Resolver (`oath-resolve`, `oath-fetch/resolve.rs`) | queue, graph, peers | resolve a project level by level | answers in any order; several versions of a name; optional packages of other platforms |
| Fetch client (`oath-fetch`) | packument cache and etags; temporary files | fetch a packument, download and extract a tarball | retries, cut connections, shared cache files, archives from outside |
| Client transparency log (`oath-transparency`) | a hash-chained file | append, verify | appends of two processes, torn lines |
| Execution gate (`cmd_exec`, `approvals.rs`, `exec_assessment.rs`) | approvals file, decision key | assess, ask, remember, run | read-modify-write of shared files; which sandbox a combination of options gives |
| Publishing (`publish_assessment.rs`, `package_transfer.rs`, `main.rs`) | signing key, evidence files, capsule | publish, stage, dry run, transfer, verify | a directory edited after it was assessed; commands that share files |
| Sandbox (`oath-sandbox`) | mounts, profile or grants of one run | probe, launch, monitor, clean up | a control that is applied partly; paths inside one another; surviving processes |
| CLI flows (`main.rs`) | lockfile, `package.json`, plan | install, ci, add, update, remove | files written one after the other |
| Analyzer, contracts, workspaces, website | none of their own | pure functions | not modelled (see the end) |

The parts meet in few places. A handler of the control plane authenticates
(Identity), is counted (Rate limits), writes an object (Artifact store), runs one
transaction, and drains the outbox; `main.rs` drains it too. The client calls the
registry through HTTP only, stores what it downloads (store), and links from the
store (linker).

## What makes each part correct

* Control plane: a name has one owner and one visibility for ever; a version is
  exactly what was reviewed; a decision is final; a quota is a quota; a version
  is out of service exactly when a signed tombstone says so; the audit intents
  match the tables; tags point to something that can be installed.
* Audit log: every committed intent is logged, once, in an unbroken chain.
* Services: an acknowledged object survives every loss but that of all copies;
  an invitation ends one way; nobody gets more than was granted; an event of the
  payment provider is recorded once; every checkpoint extends the ones before.
* Linker and install flows: whatever is interrupted, the project keeps a
  complete tree; a command that reports success has installed its plan; the
  lockfile never claims what is not linked; what Node finds is what was resolved.
* Store and fetcher: only verified bytes are linked; a cached answer is not older
  than the question; an extraction stays in its directory and its limits.
* Execution and sandbox: nothing with serious findings runs without consent, or
  with less containment than was asked for; what runs is confined as planned.
* Publishing: what leaves the machine was assessed and holds no secret.

## Modules

### `Registry`

A handler is a process (`Requests`). What it holds in local variables between
two steps is its `request` record; the tables are functions from primary keys to
rows or `None`. The steps of a handler are exactly the points where another
handler's effects can be seen:

| Action | Code |
| --- | --- |
| `AuthorizeStage`, `PutObject`, `BeginStage`, `CommitStage` | `create_stage` in `postgres_api.rs` (authorize and early visibility check; `put_immutable`), then in `control_plane.rs` (advisory lock and count; the inserts and COMMIT) |
| `ReadStage`, `CommitDecision` | `decide` and `decide_stage`: the stage is read once, outside the transaction, and copied into the version inside it |
| `AuthorizeRevoke`, `BeginRevoke`, `CommitRevoke` | `revoke_version`: authorization; UPDATE of the version and SELECT of the active versions; tags, tombstone, outbox, COMMIT |
| `AuthorizeGrant`, `WriteGrant` | `grant_role`, `grant_package_role` |
| `ReadVersion`, `ServeDownload` | `download_version` |
| `Fail` | every early return after the first step, an error of the database or the object store, or a crash; the transaction rolls back, an object stays |

A transaction is one step when it only reads rows it has locked. It is two when
it reads others' rows: `create_stage` counts the stages of its organization
(under an advisory lock, `OrgLocked`), `revoke_version` picks the rollback target
among rows it does not lock. Reads that come right after one another before the
transaction (a version row and the roles in its package, a package and the
caller's role in it) are one step: a write that fell between them would have had
the same effect just before or after.

Abstracted data: an archive is its name, its version and a body; its digest is
the archive itself, since SHA-256 is taken to be injective, and `manifest_from_tarball`
refuses an archive whose `package.json` names another version. The server's
assessment is a set of denied bodies. Versions are integers in semver order. A
principal is an organization, a role and a kind; authentication itself is not
part of this module. Stage ids are the pairs (name, version), which the schema
makes unique.

### `Outbox` and `AuditLog`

`Outbox` models every drain as a process with its own snapshot of pending rows,
the event in hand and the previous event it read under the log's lock. An append
may fail before or after its COMMIT (`AppendFails`: in the second case the event
is in the log and reported as failed); a drain may be abandoned anywhere
(`Abandon`). Events that handlers append directly, without an outbox row
(`append_event`: roles, tokens, invitations), are the `Direct` events: nothing
retries them. Two that say the same have one key and one entry; `Identity` models
who says what. An event's hash is its key; that the hash of a chain determines
its prefix is the assumption of SHA-256 again.

`AuditLog` is what the registry promises: intents, each logged once; those with
an outbox row eventually. `ImplementsTrail` shows that `Outbox` implements it
under the mapping "committed rows and requested direct events are the intents,
the keys of `registry_events` in sequence are the log".

### `Install`

One command at a time works on a project directory. The files (`manifest`,
`lock`, `planfile`) and the three directories (`live`, `stage`, `backup`) are the
variables; `op` is what the running command holds in memory. Two history variables
record the tree whose promotion was completed last (`last`) and whether a promotion
was cut short with its tree left in place (`stranded`). Any step may be the last one of its command
(`Interrupt`: an error or a crash, which may leave the file being written
truncated, since all of them are written by `std::fs::write`), and the next
command starts from what is there.

| Action | Code |
| --- | --- |
| `BeginPlanned` | `cmd_install` (install, add, `--frozen-lockfile`), `cmd_update`, `cmd_remove` up to the call of the linker: the plan is Arborist's comparison of its ideal tree with `node_modules` as it is *now* |
| `BeginCi`, `BeginLegacy`, `BeginClear` | `cmd_ci`; `cmd_install` under `OATH_RESOLVER=legacy`; `cmd_remove` of everything |
| `RestoreBackup`, `DiscardBackup`, `DiscardStage` | `recover_link_transaction`, a directory being deleted entry by entry |
| `SkipLink` | the fast path of `link_all` |
| `StartStage`, `Place`, `FinishStage` | the body of `link_placement_plan_inner` and `link_all`: seed (`hardlink_dir`, which copies files and directories but no links), removals, one location after the other, the link manifest |
| `Retire`, `Promote`, `PromoteFails` | the two renames, and the way back |
| `Rebase`, `RebaseFails`, `UndoRemove`, `UndoRestore`, `UndoFails` | `rebase_junctions` and what follows its failure: the new tree removed, the old one renamed back, both results ignored |
| `DiscardOld`, `CleanupDone`, `KeepOld` | deletion of the old tree; `link_all` only warns when it fails |
| `ClearLive`, `WriteFile`, `Succeed` | `remove_dir_all(node_modules)`; plan, lockfile and `package.json` in each command's own order |

`Windows` is a constant. There the links of `link_all` are junctions with absolute
paths, made in the stage: `Promote` leaves a tree in which nothing resolves, and it
counts as promoted (`Commit`) only when the last junction has been made anew. The
links of a placement plan lead out of `node_modules` and need no rebase.

Abstracted data: a location holds a version or nothing, and there is one location
for each direct dependency, so nested placements, bins and platform-optional
packages are left out. Arborist is external: it may propose any versions, and
may call unchanged any set of locations that already hold the planned version.
Downloads precede linking and a failed one ends the command, so the store has
what is linked. Adding packages under the legacy resolver is not modelled.

### `RegistryReads`

GET requests over `Registry`'s tables. Each SELECT is a step, so writers commit
between two of them: metadata reads the package, then its active versions, then
its tags, so that its two halves need not be of one moment; a verdict bundle joins a version with its tombstone; the OSV feed joins
quarantines with public packages. All registry runs use its specification; the ones without
readers have `Readers = {}`.

### The services: `Identity`, `ArtifactStore`, `RateLimit`, `Billing`, `Checkpoints`, `MerkleProofs`

| Module | State and steps |
| --- | --- |
| `Identity` | a call is an HTTP request whose steps are its awaits: authenticate, insert, mail, revoke, audit event. The clock expires tokens and invitations; a mail may fail although it arrives; any await may be the last (`Abort`). An event is what it says (`EventOf`): one that was said before is not inserted again. What an OIDC token says is an input |
| `ArtifactStore` | one copy per store and digest; a put walks primary and replicas and compares what it finds, a get falls back and repairs the primary; a store may fail, lose or spoil a copy |
| `RateLimit` | a row per subject and window, counted by one upsert, pruned when it is old; `passed` is the history of what got through in each window of the clock |
| `Billing` | attempts on a network that repeats, delays and forges; a request verifies, then inserts and answers 204, or fails with or without its row; requests overlap |
| `Checkpoints` | two processes that create the key by hard link; the log; the root of its tree as a recursive function over terms (a hash is the term it was computed from); what a witness saw |
| `MerkleProofs` | the inclusion and consistency proofs and their verifiers, as recursive functions over the same terms: `InclusionPath` and `Reconstruct` split a tree as the code's recursion does, `BlockSize` gives the aligned blocks of a compact range. A fork is every other log of the same size, reordered ones included |

### The client: `ContentStore`, `Tarball`, `PackumentCache`, `Resolver`, `LinkPlan`, `TransparencyLog`, `Exec`, `Sandbox`

| Module | State and steps |
| --- | --- |
| `ContentStore` | three commands fetch registry and git packages into one store: verify, download, extract, remove what is corrupt (bit by bit), commit by rename or accept the winner, check and link. A kill may come anywhere |
| `Tarball` | requests, chunks, breaks and retries into one file; the strongest listed digest; entries, sanitized paths and the limits |
| `PackumentCache` | two commands and the two cache files: lifetime, etag in memory and on disk, conditional request, retries, writes that are cut off |
| `Resolver` | levels of the breadth-first walk, whose packuments arrive in any order; dedupe by key, platform filter, aliases, tags, git; the fix-up of edges; the peer search |
| `LinkPlan` | the phases of `link_all` over a graph: package directories, hoisted, nested, sibling and peer links, `.bin`. Links are texts that `Follow` resolves as the file system does, and `Lookup` is Node's search |
| `TransparencyLog` | read the last entry, write the text, write the newline: three steps of each command, and a kill between them |
| `Exec` | the gates of `cmd_exec` in order; the approval file and the decision key shared by two commands. `--json` means schema 3, the one that signs. `outbound` is the network the program is given: the plan's under a native backend, either one under Node's permissions (`RunNetworks`) |
| `Sandbox` | the policy's plan, the probe, the controls of each platform one after the other, what mounts, Landlock, the lines of the Seatbelt profile or grants then admit, forks, limits, exits and kills. On Windows the process exists, `suspended`, before it is in its job, and taking back a grant or the profile may fail unseen (`TakeBack`). The kernels' rules are external operators |

### Publishing: `Publish`

Two commands in one package directory. `List`, `ReadFile`, `Assess` are npm's
packlist and the assessment; `WriteTemp` and `RenameTemp` write the evidence
through `.tmp` files whose names the commands share; then `StagePublish`, before
which the package's own scripts may change the directory (`RunPackScript`, in a
directory whose manifest is `Scripted`: this one call of npm has no
`--ignore-scripts`), or `PackFile`, `CheckPublished` and `Put`, or the steps of `create_capsule`
(`VerifyPacked`, `CopyTarball`, `CopyDocument`, `WriteManifest`, `SealCapsule`).
`VerifiesCapsule` is `verify_capsule`. The directory is edited, a command killed,
or a finished capsule damaged.

### Composition

`MCClient` and `MCServices` put the modules of the client and of the services in
one specification each. The parts share no variable, so a behaviour is one
part's (`part`, chosen initially); the union of the parts' behaviours is checked
against the union of their properties. `MCRaces` does the same with two instances
of `Registry`, each about one name. `Registry` and `RegistryReads` share the
tables, `Outbox` and `AuditLog` the log.

## Runs

| Run | Instance | What it shows |
| --- | --- | --- |
| `registry_races` | 2 handlers, 2 organizations, 2 versions, quota 1; either an unscoped name, good and denied bodies and both visibilities, or a scoped private name of an owner and a guest, both statuses, the publisher role | races for a name, for a stage's decision and for the last place in the quota; revocations against publications, grants and downloads |
| `registry_sequential` | 1 writer, 1 reader, 3 versions, both visibilities and statuses | the rollback rule over every sequence of complete requests; what a reader of several SELECTs answers is not withdrawn |
| `registry_tags` | 2 handlers, 2 versions | finding: concurrent revocations leave a tag on a revoked version |
| `registry_actor` | 2 handlers, 2 organizations, unscoped name | finding: a revocation authorized before the name was claimed |
| `outbox_drains` | worker and 1 handler, 3 rows, 1 direct event, batches of 2, 1 fault | no duplicates, unbroken chain, delivered rows are logged, every intent is delivered; refinement of `AuditLog` with its liveness |
| `install_safety` | all commands on Windows, 2 packages, 1 version, 1 interrupt | the tree promoted last is never lost, except where a promotion was cut short among its junctions; `ci` is exact; the lockfile follows the tree; what was planned is there, and nothing extraneous while nothing is interrupted; a command that has begun ends |
| `install_extraneous` | Arborist's commands, 2 packages, 1 version, 1 interrupt | finding: packages of a restored tree stay |
| `install_stranded` | legacy and planned installations and removals on Windows, 2 packages, 1 version, 1 interrupt | finding: the exception above, a dead tree that recovery prefers to a whole backup |
| `client_parts` | the eight client modules (below) | what each part keeps (below) |
| `services_parts` | the six service and publishing modules (below) | what each part keeps (below) |
| `packument_registries` | 2 commands, 2 registries | finding: one registry's packument is used for the other |
| `exec_network` | 1 command with a sandbox and `--deny-network` or agent mode | finding: Node's sandbox leaves the network as it is |

A property of a run is often a conjunction of named parts, each stated and
commented where it is defined:

| Property | Parts |
| --- | --- |
| `AnswersCurrent` | `MetadataFresh`, `TagsResolve`, `BundleAgrees`, `FeedPublic` |
| `LogSound` | `TypeOK`, `NoDuplicates`, `ChainUnbroken`, `DeliveredIsLogged` |
| `PlanHonoured` | `PlannedPresent`, `UninterruptedExact` |
| `GatesPassed` | `ConsentedRun`, `WholeDaysEnforced` |
| `SharedFilesSound` | `SignedWithStoredKey`, `ApprovalsFaithful` |
| `SerialLogSound` | `SerialChainVerifies`, `LoggedKept` |
| `StoredIntact`, `ExtractionBounded` | `StoredWhole`, `StoredVerified`; `WrittenInside`, `DiskBounded` |
| `RunsConfined`, `NothingOutlives` | `Confined`, `FailClosed`; `GrantsReleased`, `TreeDies` |
| `GraphFaithful` | `RequiredLinked`, `EdgesSatisfied`, `RootsComplete`, `PeersHonest` |
| `TreeResolves` | `EdgesResolve`, `PeersResolve`, `TopLinksLand` |
| `InvitationsEnd`, `NoElevation` | `OneOutcome`, `DeadAfterMailFailure`; `OutsiderPowerless`, `StepUpGenuine` |
| `MutationsLogged` | `EveryMutationTold`, `EveryEventTrue` |
| `RecordedOnce` | `RecordedAuthentic`, `AnsweredRecorded`, and that rows are unique and never change |
| `ProofsExact` | `CheckpointsExtend`, `ForksRefuted`, `InclusionExact` |
| `OutboundSound` | `AcceptedClean`, `CreatedVerifies`, `SentAsAssessed` |
| `ClientTypeOK`, `ServicesTypeOK` | the type invariants of the parts |

The remaining properties of the two composed runs are `LinkedVerified` (the
store), `ContainedRun` (no way of running a package escapes the sandbox asked
for, and in a verified one a closed network is closed), `NeverStale` (the packument
cache), `AckedEverywhere`, `WindowBound` and `OneSigningKey`.

Some state exceptions, and do not catch what they except:

* `AnswersCurrent`: a packument's tag may name a version first published between
  its two SELECTs.
* `TreeKept`: a promotion cut short on Windows (finding 5).
* `LinkedVerified`: an entry deleted by a repair that rests on an outdated
  verification.
* `GatesPassed`: consent under `--json`, where the code never asks, and minimum ages
  that are no whole number of days.
* `ContainedRun`: the network under Node's permissions (finding 6).
* `NeverStale`: fetches that overlap or are killed, in particular between the write
  of the etag and that of the body, and a second registry (finding 4).
* `SerialLogSound`: appends that overlap.
* `NothingOutlives`: grants and profiles whose own removal failed, an `icacls` that
  could not be started, a killed `oath`, and a Windows process that is left
  suspended and never runs.
* `TreeResolves`: a package that depends on the hoisted version of its own name, two
  dependencies under one install name, peers that something of their name shadows,
  and packages missing from the store.
* `OutboundSound`: uploads of a directory that the user or one of its scripts changed
  meanwhile; a direct upload sends the assessed paths even then.

**Bounds.** Every conflict in the control plane is between two handlers on one
name: the owner race, the quota race, the decision race and the revocation race
each need two processes, and a third only repeats one of them (the theorems
below do not bound the number). Two versions are needed for a rollback target,
three for a choice among targets. Three outbox rows are one more than a batch
holds, so the limit bites and a batch goes on after a failure. `MaxFaults` bounds
the faults of one behaviour; it is also what makes liveness meaningful, since an
append that always fails is never delivered. In `Install` two packages tell a
partial tree from a complete one and an extraneous location from a planned one, and
two junctions leave a tree that is partly rebased. One interrupt (`MaxInterrupts`;
a failed undoing of a failed rebase counts as one with it)
leaves every state a command can die in to every other command; that the command
which recovers may die in turn, that a location may change its version, and the
exchange on other systems, whose legacy installations skip the rebase, is what the
theorems add, which hold for any number of interrupts and versions and for both
values of `Windows`. The violation runs use the smallest instance with the trace: one
interrupted legacy installation, one command of `oath exec`.

In `client_parts`: three store clients (two that race and one that repairs) with
one kill; 4 logging commands with two kills, enough for a torn line to be
continued and continued again; two fetchers, two revisions, three attempts; bodies
one chunk above the limit and archives one entry above it; two commands of `oath
exec` that remember or sign together, and every combination of sandbox and gate
options beside one that is refused at once; three processes and paths of every
kind (of the system, of the plan and within one another, a tool that may not be
run, device and network files, the AppContainer's folder) with all overlaps of the
path sets in the sandbox; 2593 projects over packages with two versions, aliases,
tags, git, optional and peer dependencies, with a depth limit of two that chains
of packages exceed; 2593 graphs with two versions of a scoped package and packages
missing from the store. In `services_parts`: three calls (invite, accept and
revoke, or two accepts), one failure, and a clock that outlives every lifetime;
three users of two stores with three faults; a window of two seconds and four
seconds; one webhook event with two payloads, sent again at every time, by
requests that overlap; logs of up to six events, so that every shape of tree up to
that size occurs, each beside every other log of its size; two publishing commands
with one edit or kill and one damage, in a package with or without a pack script.
The two composed runs have about 1.4 million and 760 thousand distinct states.
Constants ending in `Faults`, `Crashes`, `Mishaps`, `Damage`, `Interrupts` and
those beginning with `Max` are bounds.

**Fairness** is assumed of the background task of `main.rs` only (it loops for
ever and logs errors), of the clock, and of a handler that already holds the
log's lock (PostgreSQL ends the transaction of a vanished connection). Handlers
need not take any other step. In `Install` a command that runs takes its next
step (it is sequential code with no wait on anybody); errors, crashes, edits and
new commands are never forced.

**Mutants.** Next to some operators the modules keep a variant with a plausible
bug, marked `Faulty:` (a missing lock, a check left out, the wrong row). For
every property of every passing run some variant, put in place of its original,
makes that run fail.

## Findings

1. *Concurrent revocations and dist-tags* (`registry_tags`, `TagsActive`).
   `revoke_version` reads the active versions without locking them. Two
   administrators who revoke versions 1 and 2 at once each see the other version
   as active; the tag ends on a revoked version, although no version is active
   and `docs/REGISTRY_OPERATIONS.md` says that the tag is then removed.
   Sequentially the rule holds (`registry_sequential`).
2. *A stale authorization* (`registry_actor`, `RevokedByTrusted`). Any publisher
   is authorized to write to an unclaimed, unscoped name, also to revoke in it.
   If another organization claims the name and publishes before the revocation's
   transaction, the revocation commits: the transaction never looks at the owner.
   For scoped names the property holds and is proved.
3. *A plan older than the tree* (`install_extraneous`, `PlanExact`). Arborist's
   plan is computed before the linker recovers an interrupted exchange. After a
   crash between the two renames `node_modules` is missing, so the plan removes
   nothing; recovery restores the old tree, the stage is seeded from it, and
   packages that are not in the plan stay, with a lockfile that does not list
   them. `PlannedPresent` shows that nothing planned is missing, and `CiExact`
   that `ci`, which does not seed, is not affected.
4. *A cache that does not know its registry* (`packument_registries`,
   `RightRegistry`). Cache files are named after the package, and a fresh one is
   used before the registry is looked up: a project that routes the name
   elsewhere in its `.npmrc` goes on with the first registry's packument, and may
   present its etag to the second.

5. *A dead tree that wins* (`install_stranded`, `TreeRecovered`). On Windows
   `link_all` promotes a tree whose junctions lead into the stage that has just
   moved, and rebases them afterwards. A crash meanwhile, or a failure whose
   `remove_dir_all` fails too, leaves this tree as `node_modules` beside the complete
   old one. Recovery prefers a live tree and deletes the backup, and the fast path
   takes the manifest's word for the rest, while the comment at the rename says that
   a crash is recovered on the next run. `TreeKept` is what holds besides.
6. *A network policy nobody applies* (`exec_network`, `NetworkDenied`). Only the
   native backends are given the plan. In Node's sandbox the program gets the file
   permissions and whatever network the installed Node leaves it, with
   `--deny-network` and in agent mode too, and the signed assessment says that the
   network is isolated.
Observations that the models are built around, where the properties above state
what still holds:

* Registry: `revoke_version` replaces the tombstone of an earlier decision
  (ON CONFLICT DO UPDATE), while `docs/PACKAGE_LIFECYCLE_POLICY.md` says that
  appeals preserve the original (the audit log keeps both); a rejected (name,
  version) can never be staged again, because `UNIQUE(name, version)` covers
  rejected rows; `package_metadata` reads versions and tags in two statements
  outside a transaction, so that an approval between them makes it answer a tag
  whose version the answer does not list (`TagsResolve` admits this and no more).
* Audit events of identity calls: an event's key is the hash of what it says, so
  that mutations which say the same share one. A role granted, changed and granted
  again, two tokens of one organization, role and expiry, and a second invitation
  accepted by the same person in the same role leave one event; a sign-in leaves
  none; the expiry in a token's event is computed anew and may be later than the
  token's. An event appended after its mutation is lost when the append fails, and
  the caller is then told of an error. `MutationsLogged` says what remains: whoever
  is told of success has an event that says what the call did, and no event says
  anything that was not done.
* Linker: a planned installation copies `.oath/.link-manifest` of the tree it
  replaces, so that a later legacy installation of the older graph takes the fast
  path over a different tree. A root's own version has no top-level link when
  another version of the name was hoisted; a package that depends on the hoisted
  version of its own name finds itself, and of two dependencies under one install
  name the first linked wins (`EdgesResolve` excepts both). `validate_install_name`
  would accept `.oath` and `.bin`, the linker's own directories, as names of
  packages; npm admits no name with a leading dot, and `IsName` leaves them out.
  On Windows the links in `.bin` are links to files, which `remove_dir` refuses, so
  that the rebase of a tree with a `.bin` link fails and is undone. `LinkPlan`
  leaves out `node_modules` bundled inside a package, which `hardlink_dir` copies
  with it and where Node would look first.
* Store: a repair acts on a verification that may be stale and can delete an
  entry another command has just committed, which the comment in
  `store_package_at` rules out (`LinkedVerified` excepts this window).
* Execution: `--json` never prompts, so that a package with serious findings runs
  after its verdict is printed; ages and the minimum age are compared in whole days, so a minimum of
  36 hours admits a release that is 30 hours old (`WholeDaysEnforced` is about
  whole days); approvals remembered at the same
  moment may lose one another, never invent one. The three documents of a signed
  verdict are written through temporary files whose names commands share; the model
  takes the writing for one step (`Publish` models the same pattern step by step).
* Transparency log: overlapping appends fork the chain, and an entry that runs
  into a torn line is dropped by the reader.
* Resolver: a package met first as optional and foreign is never added, although
  another package requires it; a dependency below the depth limit is reported
  and its edge left out (`RequiredLinked` excepts what was reported); a git
  package goes by the name in its `package.json`, so that an edge declared under
  another one is lost (the fix-up's comment speaks of optional dependencies
  only); an optional dependency replaces a required one of its name; two names
  for one package may be confused when edges are matched; a git package whose
  tarball cannot be cached leaves its node in the graph (`Resolver` leaves a failed
  git package out altogether).
* Sandbox: on Windows `icacls` that cannot be started leaves earlier grants, a
  killed `oath` leaves grants and profile, and a removal that fails leaves what it
  should remove, unseen, as the code looks at no removal's answer. A process whose
  assignment to its job fails, or whose `oath` is killed before it, stays behind,
  suspended. An error of `create_dir_all` for the AppContainer's `Temp` returns
  without `FreeSid`, though the comment above says that every SID is released
  exactly once. On macOS descendants survive the
  leader's exit or a failing monitor, and those that left the group survive
  limits; only macOS has a wall-clock limit.
* Publishing: the packlist and the pack of an assessment ignore the package's
  scripts, `npm stage publish` runs them, after the assessment: what they write is
  staged unscanned, while `docs/RELEASE_COMPLETE_PLAN.md` plans an exact file
  manifest for every staged release. Neither upload path compares what it packs with the assessment
  (`SentAsAssessed` is about directories that neither the user nor a script changes
  meanwhile; the capsule's `AcceptedClean` needs no such condition); the
  assessment's list of lifecycle hooks has no `prepack`, which npm runs when it
  stages; a killed `oath` may leave its npm running, which the model does not; overlapping commands share `.tmp`
  names and the evidence directory; two transfers to one output both pass the
  check that it does not exist.

## Proofs

Eight modules hold the theorems. Each is about the specification of its
component, for every value of the constants that its named assumptions admit; the
bounds of the runs play no part. A proof has one inductive invariant, shown to
hold initially and to be kept by every action, and the property follows from it.
The invariants are stronger than the properties for one reason almost throughout:
a process acts on what it read some steps ago, so the invariant has to say what
that reading is still worth.

What is recursive in the models (Merkle trees and their proofs, the steps of a
path, the text of a `bin` entry) is a recursive function, never a recursive
operator. Facts about all its values are proved by induction in first-order form:
`LeastNumber`, `Induction` and `StrongInduction` speak of *sets* of natural
numbers, and a proof names the set of lengths for which its claim holds. That the
recursive equation itself is satisfied by the function TLA+ chooses is proved in
the same way.

### The registry: `RegistryProofs`

For any sets of organizations, names, versions, tags, bodies and principals, any
number of concurrent handlers and readers and any quota:

| Theorem | Property |
| --- | --- |
| `TypeCorrect` | `TypeOK` |
| `OwnershipCorrect` | `OneOwner` |
| `PublicationCorrect` | `PublishedAsReviewed` |
| `TombstonesCorrect` | `TombstoneAgrees` |
| `ScopedRevocationCorrect` | `ScopedRevokedByTrusted` |
| `AuditCorrect` | `AuditIntentMatches` |
| `TagsCorrect` | `TagsPublished` |
| `DownloadsCorrect` | `DownloadsReviewed` |
| `QuotaCorrect` | `QuotaRespected` |
| `PublicationForever` | `PublishedForever` (action property) |
| `DecisionsCorrect` | `DecisionsFinal` (action property) |
| `ReadsCorrect` | `MetadataFresh`, `BundleAgrees`, `FeedPublic` |
| `SerialTagsCorrect`, `SerialAnswersCorrect` | `TagsActive`, `AnswersCurrent`, with one writer |

All rest on `IInv`. `StageHeld`, `DecideHeld` and `RevokeHeld` say what the
request records still guarantee when they are used: a stage in flight names an
object that is stored and an owner its scope allows; a decision in flight holds a
stage that differs from the table's row in its status only, and an approval's is
not denied; a revocation in flight whose transaction has begun concerns a
published version (`LockedRowExists`), has a published rollback target, and, for
scoped names, an actor that is trusted. Each conjunct is preserved by each action
in a lemma of its own.

The quota needs `QuotaHeld`: a stage whose place was granted still has it when it
is inserted, because the advisory lock of the organization keeps other stages out
between the count and the commit. The readers need `ReaderKnows`: what the
earlier SELECTs of a request saw is still true of the tables in the direction the
answer needs, as versions never become active again.

`SerialTagsCorrect` and `SerialAnswersCorrect` assume `OneWriter`, that two
handlers are never different (readers may be many). The assumption cannot be
dropped: the run `registry_tags` shows two concurrent revocations that break
`TagsActive` (finding 1). `RollbackHeld` is the fact that fails there: the target
chosen for a tag is still active when the tag is moved.

The assumptions are those of `Registry`: names and versions are finite sets,
versions are integers (`VersionOrderAssumption` states that a non-empty set of
them has a maximum, which finiteness implies and TLC evaluates), `None` is no row.

### The audit log: `OutboxProofs`

| Theorem | Property |
| --- | --- |
| `LogSoundHolds` | `LogSound` |
| `AuditTrailImplemented` | `ImplementsSafeTrail`: `Outbox` implements the safety part of `AuditLog` |

`OutboxInv` adds that one process at most is between reading the last event and
inserting the next (`OneAppends`, the advisory lock), that what it read is still
the last and its event still not logged (`ReadsHold`), and that a drain carries
only events somebody asked for and marks only what is logged (`CarriesAsked`).
The refinement maps the rows and the direct requests to the abstract intents and
the log to its keys; every step states an intent, appends one, or stutters.

### The other services: `IdentityProofs`, `ServiceProofs`

| Theorem | Property |
| --- | --- |
| `IdentityTypes` | `IdTypeOK` |
| `InvitationsEndAlways` | `InvitationsEnd` |
| `NoElevationAlways` | `NoElevation` |
| `MutationsLoggedAlways` | `MutationsLogged` |
| `ArtifactTypes`, `AckedEverywhereHolds` | `ArtifactTypeOK`, `AckedEverywhere` |
| `ReadsSurviveLossHolds` | `ReadsSurviveLoss` |
| `ObjectsImmutableHolds` | `ObjectsImmutable` (action property) |
| `RateTypes`, `WindowBoundHolds` | `RateTypeOK`, `WindowBound` |
| `BillingTypes`, `RecordedOnceHolds` | `BillingTypeOK`, `RecordedOnce` |
| `CheckpointTypes`, `OneSigningKeyHolds` | `CheckpointTypeOK`, `OneSigningKey` |
| `ProofsExactHolds` | `ProofsExact` |

*Identity.* `IdInv` ties the calls to the tables: a call past its authentication
acts for an organization that may (`CallsHeld`, `OutsidersIdle`), tokens and
invitations come from the call that made them (`TokensHeld`, `InvitationsHeld`),
who accepted or revoked an invitation is the one whose UPDATE found it pending
(`AcceptsHeld`, `RevokesHeld`), and a mutation without its event is a call that
has not answered yet or answered an error (`AuditHeld`). Events that several
mutations share need an argument in both directions: tables only grow
(`TablesGrow`), so what the log tells stays true (`EventsStay`) and what was told
of a call stays told (`ToldStays`). `IdentityAssumption`
says that the lifetimes are natural numbers and bootstrap tokens do not expire.

*Artifacts.* A handler is between stores when others act: a put left the object
whole in every store behind it (`PutBehind`), a get of a promised object passed
only stores whose medium failed (`GetBehind`). Every step only lets this grow
(`Grows`): `PutMode::Create` writes where nothing is.

*Rate limits.* What got through in the clock's window is at most the row's count
(`Counted`), and nothing passed in a window to come (`Ahead`). `Counted` survives
pruning because `RateAssumption` says that rows are kept for at least one window,
as the code's constants do; it is the only use of that assumption. `RateTypeOK`
bounds the rows by what can be asked in a window, which needs `RowsInv`: the row
of the current window holds at most a full second's requests for each second that
is over and those of the second that runs, and rows of windows to come are empty.

*Billing and keys.* `BillInv`: what waits for its INSERT was verified in time, a row
was recorded from a genuine, timely attempt, no other row has its id, and an
attempt that was answered has its row. As the provider signs one body for an event
(`RowSigned`), an event recorded before holds the body of the attempt answered now. `KeyInv`: whoever serves found a key in the file;
the file is created once, by the hard link.

*Merkle proofs.* The state's part is small: what a witness remembers is the root
of a prefix of the log (`Remembered`). A root determines its log, so that no proof
from any other log of the old size, reordered or rewritten, verifies. The rest is about the algorithms, for logs
of every length. `SubtreeRoot` is injective on logs of one length, since a hash is
the term it was computed from. The path of index `i` makes `Reconstruct` return
the root if and only if it is given the leaf at `i`. The blocks of a compact range
partition it and are aligned subtrees of the larger tree, so that the two folds of
the verifier give the roots of the old and of the new tree exactly when the old
one is a prefix.

### The client: `ClientProofs`, `RunProofs`, `InstallProofs`, `PublishProofs`

| Theorem | Property |
| --- | --- |
| `StoreTypeCorrect`, `LinkedVerifiedAlways` | `StoreTypeOK`, `LinkedVerified` |
| `LogTypeCorrect`, `SerialLogSoundAlways` | `LogTypeOK`, `SerialLogSound` |
| `FetchTypeCorrect`, `NeverStaleAlways` | `FetchTypeOK`, `NeverStale` |
| `TarballTypeCorrect`, `StoredIntactAlways`, `ExtractionBoundedAlways` | `TarballTypeOK`, `StoredIntact`, `ExtractionBounded` |
| `ResolverTypeCorrect`, `GraphFaithfulAlways` | `ResolverTypeOK`, `GraphFaithful` |
| `LinkPlanTypeCorrect`, `TreeResolvesAlways` | `LinkPlanTypeOK`, `TreeResolves` |
| `ExecTypeCorrect`, `ContainedRunAlways`, `GatesPassedAlways`, `SharedFilesSoundAlways` | `ExecTypeOK`, `ContainedRun`, `GatesPassed`, `SharedFilesSound` |
| `SandboxTypeCorrect`, `RunsConfinedAlways`, `NothingOutlivesAlways` | `SandboxTypeOK`, `RunsConfined`, `NothingOutlives` |
| `TypeCorrect`, `TreeKeptAlways` (`InstallProofs`) | `TypeOK`, `TreeKept` |
| `PlannedCorrect`, `PlanHonouredAlways` | `PlannedPresent`, `PlanHonoured` |
| `CiCorrect` | `CiExact` |
| `LockCorrect` | `LockFollowsTree` (action property) |
| `PublishTypeCorrect`, `OutboundSoundAlways` | `PublishTypeOK`, `OutboundSound` |

*Store* (`StoreInv`): a command about to link found its entry verified, and only
a repair deletes a verified directory, which the history records.

*Transparency log* (`LogInv`): an entry was written by a command that read the
one before it, and while calls do not overlap the open line is the last and
nobody else's (`OneLogs`, `OpenLine`).

*Packuments* (`FetchInv`): as long as there is one registry, no overlap and no
fault, nothing in the cache is newer than the registry, file and etag belong
together, and a request carries what the file holds (`Settled`, `FetchersInStep`).

*Tarballs* (`TarballInv`): the file being written holds the first chunks of the
one response being read, whatever earlier attempts left there. `ExtractInv`: the
bytes on disk (pairs of a file and an offset) are at most the sum the extraction
has counted, and it counts an entry before it writes it; every path written is a
sanitized one, which stays below the directory.

*Resolver* (`ResolveInv`): a direct dependency is a root or still in the first
level (`DirectMet`), which is worked off before any other (`FirstLevelFirst`, so
that it finds its key unresolved or resolved by another direct dependency); a
declared dependency of a node is resolved, reported as too deep, left out as
optional, or waiting in a level (`DeclaredMet`); a node has the version of its
key and declares each name once (`NodesSound`); when the levels are used
up nothing waits (`AllWorked`), and the fix-up makes an edge for whatever has a
node (`EdgesMade`). `GraphFaithful` combines the last two.

*Link plan* (`PlanInv`) follows the phases: which links each has made and where
they lead (`TopMade`, `NestedMade`, `SiblingsMade`, `PeersMade`, `BinsMade`), and
that later ones neither replace them nor take their places. Places of different
phases are told apart by the lengths of their paths, one component more for a
scope. The lemmas behind it: following `PathDiff(from, to)` from the directory of
`from` ends at `to`, for all paths without `..` (`DiffLands`), and a path of plain
components is followed to its end (`FollowIs`).

*Execution* (`ExecInv`): `Settled` says for each point of `cmd_exec` which gates
are behind it, and `NetworkSettled` what network a program was given by the way it
was run; `NothingInvented` and `CalmFiles` say what the approval file and
its temporary file hold, the latter while commands neither overlap nor are killed.

*Sandbox* (`LaunchInv`): the controls up to the current step are enforced, a
program runs only when all are, on Windows the grants are exactly the plan's, and a
suspended process waits before its assignment or is left there (`WaitsSuspended`).
Whatever a launch takes back is gone or among what could not be removed
(`TakenBack`).
That the last mount or the last matching profile line decides as the plan says,
whatever paths lie within one another, is proved in lemmas on sequences of paths.

*Install* (`IInv`) follows a command from label to label. `StageInv`: once
recovery is over there is no backup, what the plan calls unchanged is in the live
tree, and the stage holds every location but those still to place. `SwapInv`:
until the exchange is over the backup is the tree promoted last, unless a
promotion was cut short before (`BackupHeld`), and after it the live tree holds the
graph; while junctions are rebased it holds those that are done. `CiInv`: what `cmd_ci` compared is still equal at the end,
and its stage holds nothing else. `ClearInv`: only a removal of everything clears.
`CalmInv`, until the first interruption: the plan's removals are what is
extraneous in the live tree, so the stage holds the plan and nothing more. Finding
3 is what happens to it afterwards.

*Publish* (`PublishInv`): an assessment whose directory was not changed since, by an
editor or a script (`ChangeKeeps` is about both), is what the directory holds
(`FollowsDirectory`), what a direct upload packs is among the assessed paths, capsules are made from clean
assessments only (`CleanMade`), and a command that ran alone has its evidence,
then each part of the capsule, in place and nobody else's (`Apart`, `Evidenced`,
`Unwritten`, `Unmarked`, `Finished`).

Their assumptions keep special values apart from files, trees and keys, say that
bounds are natural numbers, and give scenarios, policies and directories their
shape (`StoreAssumption`, `LogAssumption`, `FetchAssumption`, `TarballAssumption`,
`ExecAssumption`, `SandboxAssumption`, `InstallAssumption`, `PublishAssumption`).
`ResolverAssumption` says that a manifest is a map with finitely many entries and
that a project's own dependencies are not optional; `LinkPlanAssumption` that the
edges and peers of a graph lead to its nodes and that install names are what
`validate_install_name` admits. TLC evaluates each on the runs.

### Only model-checked

* Liveness: `CommandEnds`, `EventuallyDelivered`, and the fairness of
  `ImplementsTrail`, whose safety is proved. TLAPS does not reason about fairness.
* `ClientTypeOK` and `ServicesTypeOK` as conjunctions: they are defined over the
  composed instances of `MCClient` and `MCServices`. Each conjunct is proved, for
  all constants, in the theorem of its own module.
* The six findings: a counterexample is an instance.

The theorems also cover properties that no run repeats: `TombstoneAgrees`,
`TagsPublished`, `PublishedForever`, `ReadsSurviveLoss` and `ObjectsImmutable`.

## Not modelled

* Signatures, hashes, JSON, HTTP, SQL syntax and migrations: data formats. Their
  effect (a digest names its bytes, a chain determines its prefix) is assumed.
* The analyzer, the assessment, contracts and workspaces: pure functions over
  source text and manifests; metrics: counters; checkout and portal sessions:
  calls to the payment provider; website, deployment, scripts.
* The unsandboxed runner (`executor.rs`), lifecycle scripts, global and workspace
  installs, `.npmrc` parsing, lockfile import and git transport: subprocesses and
  parsing around the modelled flows.
* What Windows lets an AppContainer read, Mach services and file metadata on macOS:
  `Confined` says nothing of them.
* Two commands in one project at once: the linker has no lock, and the code
  expects one command at a time.

## What is left

Every invariant and action property of the passing runs is proved (the two type
invariants of the composed instances part by part). What a next step would add
is a model rather than a proof: two commands in one project at once, `Install`
without the assumption that commands take turns, and what then still holds of
stage, backup and tree.

------------------------------ MODULE MCRaces -------------------------------
(***************************************************************************)
(* Two handlers that race over one name.  A behaviour is either about the  *)
(* publication of a name anybody may claim, good and denied archives of    *)
(* both visibilities by publishers and administrators of two               *)
(* organizations, or about everything that can happen to a private name of *)
(* the first organization's scope, with the second one as a guest.         *)
(***************************************************************************)
EXTENDS MCRegistry

VARIABLE contested      \* the name both handlers are about

raceVars == <<readVars, contested>>

Private == contested = mine

Callers == IF Private THEN OwnerAndGuest ELSE Principals
Releases == {contested} \X Versions
Archives ==
    {a \in Artifacts : a.key \in Releases /\ (Private => a.body \notin DeniedBodies)}
Shown == IF Private THEN {TRUE} ELSE Visibilities

Publishes(r) ==
    \/ \E p \in Callers, a \in Archives, t \in Tags, b \in Shown :
           AuthorizeStage(r, p, a, t, b)
    \/ PutObject(r) \/ BeginStage(r) \/ CommitStage(r)
    \/ \E p \in Callers, k \in Releases, decision \in Decisions :
           ReadStage(r, p, k, decision)
    \/ CommitDecision(r)

Withdraws(r) ==
    \/ \E p \in Callers, k \in Releases, s \in RevokeStatuses :
           AuthorizeRevoke(r, p, k, s)
    \/ BeginRevoke(r) \/ CommitRevoke(r)

Shares(r) ==
    \/ \E p \in Callers, o \in Orgs, role \in GrantRoles :
           AuthorizeGrant(r, p, contested, o, role)
    \/ WriteGrant(r)
    \/ \E p \in Callers, k \in Releases : ReadVersion(r, p, k)
    \/ ServeDownload(r)

RaceInit == ReadsInit /\ contested \in Names

RaceStep(r) == Publishes(r) \/ Fail(r) \/ (Private /\ (Withdraws(r) \/ Shares(r)))

RaceNext == \E r \in Requests : RaceStep(r) /\ UNCHANGED <<reader, contested>>

RaceSpec == RaceInit /\ [][RaceNext]_raceVars
=============================================================================

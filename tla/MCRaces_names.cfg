SPECIFICATION RaceSpec
CONSTANTS
    r1 = r1
    r2 = r2
    o1 = o1
    o2 = o2
    pkg = pkg
    mine = mine
    g1 = g1
    None = None
    Requests = {r1, r2}
    Readers = {}
    Orgs = {o1, o2}
    Names = {pkg, mine}
    Versions <- TwoVersions
    Tags <- OneTag
    Bodies = {"good", "bad"}
    DeniedBodies = {"bad"}
    Visibilities = {TRUE, FALSE}
    Principals <- TwoOrgPrincipals
    RevokeStatuses = {"revoked", "quarantined"}
    GrantRoles = {"publisher"}
    Scope <- ScopedToO1
    MaxPendingStages = 1
    RequireStepUp = TRUE
SYMMETRY RequestSymmetry
INVARIANTS
    OneOwner
    PublishedAsReviewed
    QuotaRespected
    ScopedRevokedByTrusted
    AuditIntentMatches
    DownloadsReviewed
PROPERTIES
    DecisionsFinal

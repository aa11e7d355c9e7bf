SPECIFICATION ReadsSpec
CONSTANTS
    r1 = r1
    r2 = r2
    o1 = o1
    o2 = o2
    pkg = pkg
    mine = mine
    g1 = g1
    None = None
    Requests = {r1, r2}
    Readers = {}
    Orgs = {o1}
    Names = {pkg}
    Versions <- TwoVersions
    Tags <- OneTag
    Bodies = {"good"}
    DeniedBodies = {}
    Visibilities = {FALSE}
    Principals <- OneOrgAdmin
    RevokeStatuses = {"revoked"}
    GrantRoles = {}
    Scope <- Unscoped
    MaxPendingStages = 2
    RequireStepUp = FALSE
INVARIANTS
    TagsActive

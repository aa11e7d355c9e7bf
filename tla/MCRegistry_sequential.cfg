SPECIFICATION ReadsSpec
CONSTANTS
    r1 = r1
    r2 = r2
    o1 = o1
    o2 = o2
    pkg = pkg
    mine = mine
    g1 = g1
    None = None
    Requests = {r1}
    Readers = {g1}
    Orgs = {o1}
    Names = {pkg}
    Versions <- ThreeVersions
    Tags <- OneTag
    Bodies = {"good"}
    DeniedBodies = {}
    Visibilities = {FALSE, TRUE}
    Principals <- OneOrgAdmin
    RevokeStatuses = {"revoked", "quarantined"}
    GrantRoles = {}
    Scope <- Unscoped
    MaxPendingStages = 1
    RequireStepUp = FALSE
INVARIANTS
    TagsActive
    

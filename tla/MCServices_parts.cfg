SPECIFICATION ServicesSpec
CONSTANTS
    oA = oA
    oB = oB
    ann = ann
    bob = bob
    bootA = bootA
    bootB = bootB
    NoRow = NoRow
    Calls = {c1, c2, c3}
    Bootstrap <- BootstrapTokens
    Identities <- SignIns
    Invitees = {ann}
    AskedRoles = {"admin", "root"}
    MaxClock = 3
    InvitationTTL = 1
    IdentityTTL = 1
    ServiceTTL = 1
    CallFaults = 1
    Users = {u1, u2, u3}
    Digests = {"d"}
    LastStore = 1
    StoreFaults = 3
    Subjects = {"s", "t"}
    Window = 2
    Maximum = 2
    Retention = 2
    MaxTime = 3
    MaxPerSecond = 2
    BillingEvents = {"e1"}
    Payloads = {"p", "q"}
    Tolerance = 1
    MaxBillingTime = 2
    Servers = {"k1", "k2"}
    EventHashes = {"a", "b"}
    MaxLog = 6
    NoKey = "nokey"
    Commands = {p1, p2}
    Kinds = {"publish", "stage", "transfer", "dry"}
    Files = {"pkg", "lib"}
    Manifest = "pkg"
    Bytes = {1, 3, 4}
    Secrets = {3}
    Links = {4}
    Scripted = {2}
    Directories <- PackageDirectories
    MaxDamage = 1
    MaxMishaps = 1
    NoPublishKey = nopublishkey
SYMMETRY ServicesSymmetry
CHECK_DEADLOCK FALSE
INVARIANTS
    ServicesTypeOK
    InvitationsEnd
    NoElevation
    MutationsLogged
    AckedEverywhere
    WindowBound
    OneSigningKey
    ProofsExact
    OutboundSound
PROPERTIES
    RecordedOnce

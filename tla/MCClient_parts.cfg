SPECIFICATION ClientSpec
CONSTANTS
    Clients = {c1, c2, c3}
    Entries = {e1, e2}
    GitEntries = {e2}
    MaxCrashes = 1
    x1 = x1
    x2 = x2
    Runners = {x1, x2}
    Scenarios <- ExecScenarios
    NoFile = NoFile
    TornFile = TornFile
    AgesInHours = {30, 50}
    ExecCrashes = 1
    Installs = {i1, i2, i3, i4}
    LogCrashes = 2
    Genesis = Genesis
    Fetchers = {f1, f2}
    Registries = {g1}
    Attempts = 3
    MaxRevision = 2
    FetchFaults = 1
    NoPackument = NoPackument
    TornPackument = TornPackument
    Contents = {"a", "b"}
    Integrities <- ExpectedDigests
    MaxAttempts = 3
    MaxBodyChunks = 3
    MaxArchive = 2
    Archives <- SampleArchives
    MaxUnpacked = 4
    MaxEntries = 2
    Platforms = {"linux", "macos", "windows"}
    TreePaths <- HostPaths
    SystemPaths <- HostSystem
    DeniedTools <- HostTools
    MacPaths <- HostMac
    DeviceFiles <- HostDevices
    NetworkFiles <- HostNetwork
    ContainerFolder <- HostBox
    Workdir <- HostWorkdir
    Policies <- AskedPolicies
    Procs = {"p1", "p2", "p3"}
    Leader = "p1"
    Projects <- SampleProjects
    MaxDepth = 2
    Graphs <- SampleGraphs
CHECK_DEADLOCK FALSE
INVARIANTS
    ClientTypeOK
    LinkedVerified
    GatesPassed
    ContainedRun
    SharedFilesSound
    SerialLogSound
    NeverStale
    StoredIntact
    ExtractionBounded
    RunsConfined
    NothingOutlives
    GraphFaithful
    TreeResolves

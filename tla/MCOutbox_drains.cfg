SPECIFICATION FairSpec
CONSTANTS
    Worker = worker
    Handlers = {h1}
    Entries <- ThreeEntries
    Direct = {d1}
    Genesis = Genesis
    BatchLimit = 2
    MaxFaults = 1
INVARIANTS
    LogSound
PROPERTIES
    EventuallyDelivered
    ImplementsTrail

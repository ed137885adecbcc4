SPECIFICATION ServerSpec
CONSTANTS
    Requests = {r1, r2, r3}
    MaxInFlight = 2
    MaxActive = 1
    MaxRetained = 1
    Callers = {c1, c2}
    Cancellable = {c1}
    Uncontrolled = {c2}
    Unbounded = {c1}
    Tree <- HomeTree
    Configured <- WsOnly
    RootSets <- Declarations
    Directories <- OnlyRoot
    MaxChanges = 1
    MaxEdits = 1
    NoPath = NoPath None = None Interrupted = Interrupted Broken = Broken
INVARIANTS
    NoPermitLeak
    AuthorityIsCurrent
    MetadataIsFresh
PROPERTIES
    ShutdownDrains
    EveryCallEnds

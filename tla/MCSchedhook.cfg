SPECIFICATION FairSpec
CONSTANTS
    NumCPUs = 2
    Callers = {c1, c2}
    MaxPerCPU = 2
    MaxEvents = 2
    MaxCaptures = 2
INVARIANTS
    TypeOK
    ExclusiveCapture
    NoLeak
    SnapshotIntact
    SnapshotFresh
    LateEventFirst
    UnloadSafe
PROPERTIES
    ImplementsSession
    Settles

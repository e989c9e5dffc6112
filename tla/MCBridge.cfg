SPECIFICATION ServingSpec
CONSTANTS
    Conns = {c1, c2}
    BufferSize = 1
CHECK_DEADLOCK FALSE
INVARIANTS
    TypeOK
    ClosedOnce
    RegistryConsistent
PROPERTIES
    RemovalCompletes
    DumpsGoOn

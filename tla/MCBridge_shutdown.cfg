SPECIFICATION FairSpec
CONSTANTS
    Conns = {c1}
    BufferSize = 1
CHECK_DEADLOCK FALSE
PROPERTY ShutdownCompletes

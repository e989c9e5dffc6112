SPECIFICATION Spec
CONSTANTS
    NumEntries = 4
    PerMessage = 3
    IndexBits = 2
    PageBits = 1
    WordBits = 11
CHECK_DEADLOCK FALSE
INVARIANTS
    NoWildRead
    EntriesInPlace
    RegionsMatchHardware

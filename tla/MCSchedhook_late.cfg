SPECIFICATION Spec
CONSTANTS
    NumCPUs = 2
    Callers = {c1, c2}
    MaxPerCPU = 1
    MaxEvents = 2
    MaxCaptures = 2
INVARIANT LateWritesErased

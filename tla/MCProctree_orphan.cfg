SPECIFICATION Spec
CONSTANTS
    MaxTasks = 4
    Capacity = 3
    PerMessage = 2
INVARIANT ParentsInTree

SPECIFICATION Spec
CONSTANTS
    Pids = {p1, p2, p3}
    MaxTasks = 3
    Requests = {r1}
INVARIANT ParentIsTask

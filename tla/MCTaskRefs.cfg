SPECIFICATION FairSpec
CONSTANTS
    Pids = {p1, p2, p3}
    MaxTasks = 3
    Requests = {r1, r2}
INVARIANTS
    TypeOK
    PointersLive
    AnswersKey
    CountsBalanced
    ResultsFreed
PROPERTY TasksFreed

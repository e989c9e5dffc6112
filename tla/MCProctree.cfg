SPECIFICATION Spec
CONSTANTS
    MaxTasks = 4
    Capacity = 3
    PerMessage = 2
INVARIANTS
    TypeOK
    WalkComplete
    AnswerWhole
    OrphansOfLateThreads
    DrawingConsistent
    AllDrawn

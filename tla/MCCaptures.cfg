SPECIFICATION Spec
CONSTANTS
    Clients = {a, b}
    NumCPUs = 2
    Room = 2
    Limit = 3
    PerMessage = 2
    MaxTime = 2
INVARIANTS
    SinceOwnStart
    AnswerIsCapture
PROPERTIES
    EndByAnyone

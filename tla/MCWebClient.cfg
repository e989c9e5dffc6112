SPECIFICATION FairSpec
CONSTANTS
    Tasks = {1, 2, 3}
    Index = {0}
    Levels = 3
    Trees <- MCTrees
    Captures <- MCCaptures
    Moves <- MCMoves
    Errors = {"failed"}
    BufferSize = 2
    MaxAsked = 2
INVARIANTS
    TypeOK
    OneListener
    ShownAnswersUrl
    RefusalTold
    TimelineTrue
    ReadFieldsArrive
    LayoutRespectsUser
PROPERTY FirstDumpShown

SPECIFICATION FairSpec
CONSTANTS
    Names <- OneName
    Corpus = {1}
    Priorities = {1}
    CandPriority <- ScoreByName
    Procs = {p1}
    NoProc = NoProc
    MaxAttempts = 3
    MaxPassive = 1
    Reserve = 0
    WaveLimit = 1
    SeedLimit = 1
    MaxWords = 1
    Overlap = FALSE
    HasDeadline = FALSE
    SharedCache = TRUE
    MustRevalidate = {}
    MaxRestarts = 1
    MaxHolds = 0
    MaxCalls = 1
PROPERTIES
    RunEnds
CHECK_DEADLOCK FALSE

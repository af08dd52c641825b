SPECIFICATION MCSpec
CONSTANTS
    Names <- OneName
    Corpus = {1}
    Priorities = {1}
    CandPriority <- ScoreByName
    Procs = {p1}
    NoProc = NoProc
    MaxAttempts = 2
    MaxPassive = 1
    Reserve = 0
    WaveLimit = 1
    SeedLimit = 1
    MaxWords = 1
    Overlap = FALSE
    HasDeadline = TRUE
    SharedCache = FALSE
    MustRevalidate = {}
    MaxRestarts = 2
    MaxHolds = 2
    MaxCalls = 1
    Crews = {c1, c2}
    MaxScan = 1
    Lease = 3
    Beat = 1
    MaxRates = {0, 9, 14}
    MaxConcurrencies = {12}
    Words = 2
    Depths = 3
    WaveSize = 1
    ParentLimit = 1
    Retries = 2
    MaxStops = 1
    MaxSilent = 0
INVARIANTS
    LimitsHold
PROPERTIES
    RunEnds
    QueriedBeforeDropped
    AbandonedReopens
    Recovers
    RecursionEnds
CHECK_DEADLOCK FALSE

SPECIFICATION MCSpec
CONSTANTS
    Names <- TwoNames
    Corpus = {1, 2}
    Priorities = {1, 2}
    CandPriority <- ScoreByName
    Procs = {p1}
    NoProc = NoProc
    MaxAttempts = 2
    MaxPassive = 1
    Reserve = 0
    WaveLimit = 2
    SeedLimit = 1
    MaxWords = 1
    Overlap = FALSE
    HasDeadline = TRUE
    SharedCache = FALSE
    MustRevalidate = {}
    MaxRestarts = 2
    MaxHolds = 0
    MaxCalls = 1
    Pair = {p2, p3}
INVARIANTS
    TypeOK
    Disjoint
    AttemptsBounded
    NoOrphanClaims
    BudgetWithin
    OverlapBounded
PROPERTIES
    EvictionSafe
    SettledStays
    SeedCap
SYMMETRY PairSymmetry
CHECK_DEADLOCK FALSE

SPECIFICATION MCSpec
CONSTANTS
    PagedLimit = 4
    MaxListing = 5
    ShortListing = 2
    Abreast = 2
    MaxRecords = 3
    BatchSize = 2
    RecordCap = 2
    ByteCap = 5
    DownloadLimit = 2
    Calls = {k1, k2}
    RatedSources = {r1, r2}
    Servers = {s1}
    s1 = s1
    Gap <- Gaps
    Attempts = 2
    Backoff = 1
    RetryAfters = {1, 9}
    MaxInline = 2
    MaxClock = 2
    Selected = 2
    Bulk = 1
    Barred = {}
    Rekeyed = {}
    Found = {f1, f2, f3}
    Earlier = {f1}
    Root = z0
    Children = {z1}
    ZoneLimit = 1
    MaxPassive = 2
    Connectors = 2
    BulkLimit = 1
    Streaks = {2}
    Modes <- PhaseModes
    MaxZone = 2
    Delegated = {1}
    Addresses = 2
    NameLimits = {1, 5}
    MaxWalks = 2
    MaxEdits = 1
    Targets = {x1, x2, x3}
    TargetLimit = 2
    AtOnce = 1
    ZoneSize = 1
    RecordLimits = {2, 3}
    Words = 2
    Depths = 3
    WaveSize = 1
    ParentLimit = 1
    Retries = 2
    MaxStops = 1
    MaxSilent = 0
INVARIANTS
    TypeOK
    ConnectorsKeep
    Polite
    PhaseKept
    ZoneSound
    RecursionWhole
CHECK_DEADLOCK FALSE

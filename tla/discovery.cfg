SPECIFICATION MCSpec
CONSTANTS
    Tasks = {t1, t2}
    Grouping = {TRUE, FALSE}
    NumLogs = 1
    Names = {0, 1, 2}
    NameAt <- NameByEntry
    TargetNames = {2}
    MaxTree = 3
    MaxStarts = 2
    MaxLogs = 1
    PerLog = 2
    Backfill = 1
    RequestLimit = 2
    TileWidth = 2
    MaxTiles = 1
    PageSize = 1
    Requests = {q1, q2}
    Hosts = {h1}
    Nodes = {d1}
    Reservations = 1
    Spacings = {0, 1, 2}
    Delays = {0, 1}
    MaxTime = 2
    MaxSends = 3
    Queries = {u1, u2, u3}
    Questions = {a, b}
    Width = 2
    Slots = 2
    ResolverCounts = {1, 2, 3}
    MaxLiars = 1
    Subdomains <- TwoHosts
    h1 = h1
    h2 = h2
    Domain = root
    OptionSets <- PhaseSets
    EventLimits = {0, 1}
    Caps = {1, 2}
    HostLimit = 1
    Rounds = 1
    Page = 1
    Tries = 2
    MaxAborts = 1
INVARIANTS
    TypeOK
    CadenceSafe
    TransportSafe
    VerdictsSound
    EnrichKept
PROPERTIES
    CtHonest
    Implements
CHECK_DEADLOCK FALSE

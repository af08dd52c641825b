SPECIFICATION MCSpec
CONSTANTS
    Procs = {p1, p2}
    MaxScan = 2
    Lease = 2
    Beat = 1
    Refillers = {r1, r2}
    Wordlist = {n1, n2}
    Junk = junk
    MaxLines = 2
    CorpusList <- CorpusWords
    n1 = n1
    c1 = c1
    g1 = g1
    Generated = {g1}
    PageLines = 2
    PageUnits = 3
    Examined = 2
    Target = 2
    Budgets = {1, 2, 9}
    MaxRefills = 3
INVARIANTS
    TypesOK
    OneOwner
    OwnerRunning
    NoStrandedWork
    FeedWhole
PROPERTIES
    ClosedStays
SYMMETRY ProcSymmetry

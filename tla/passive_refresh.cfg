SPECIFICATION Spec
CONSTANTS
    Procs = {p1, p2}
    Kinds = {"numeric", "opaque"}
    Records = {"a", "b", "x"}
    Scope = {"a", "b"}
    Listings <- AllListings
    PageLimit = 2
    Budget = 2
    Grace = 1
    MaxOwner = 2
    MaxJumps = 1
    MaxChanges = 1
INVARIANTS
    TypeOK
    OneRefresher
    PagesOnce
PROPERTIES
    PublishedWhole
    LaneForward
SYMMETRY ProcSymmetry

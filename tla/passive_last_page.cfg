SPECIFICATION Spec
CONSTANTS
    Procs = {p1}
    Kinds = {"numeric"}
    Records = {"a"}
    Scope = {"a"}
    Listings <- OneListing
    PageLimit = 2
    Budget = 1
    Grace = 1
    MaxOwner = 2
    MaxJumps = 0
    MaxChanges = 0
INVARIANTS
    ResumeAccepted

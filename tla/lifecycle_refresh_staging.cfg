SPECIFICATION Spec
CONSTANTS
    Procs = {p1, p2}
    MaxScan = 2
    Lease = 2
    Beat = 1
INVARIANTS
    StagedApplied
SYMMETRY ProcSymmetry

--------------------------- MODULE MCScanLifecycle ---------------------------
(* Model-checking instances of ScanLifecycle.                              *)
EXTENDS ScanLifecycle, TLC

ProcSymmetry == Permutations(Procs)
=============================================================================

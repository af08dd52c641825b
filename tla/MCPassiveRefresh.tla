-------------------------- MODULE MCPassiveRefresh --------------------------
(* Model-checking instances of PassiveRefresh.                             *)
EXTENDS PassiveRefresh, TLC

\* Two pages that share a name and hold a record out of scope; other pages with a
\* total that only a mix of the two listings reaches; nothing; more pages than the limit.
TwoPages == [page |-> <<{"a", "x"}, {"a", "b"}>>, total |-> 4]
Shifted == [page |-> <<{"b"}, {"b", "x"}>>, total |-> 4]
NoPages == [page |-> <<>>, total |-> 0]
TooLong == [page |-> <<{"a"}, {}, {"b"}>>, total |-> 2]
OnePage == [page |-> <<{"a"}>>, total |-> 1]

AllListings == {TwoPages, Shifted, NoPages, TooLong}
OneListing == {OnePage}
ProcSymmetry == Permutations(Procs)
=============================================================================

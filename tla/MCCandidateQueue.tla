-------------------------- MODULE MCCandidateQueue --------------------------
(* Small instances of CandidateQueue for TLC.                              *)
EXTENDS CandidateQueue, TLC

OneName == {1}
TwoNames == {1, 2}

\* The later name has the better score, so that the order of claims is not the
\* order of names.
ScoreByName == [n \in Names |-> n]
=============================================================================

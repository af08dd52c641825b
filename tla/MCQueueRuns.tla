----------------------------- MODULE MCQueueRuns -----------------------------
(***************************************************************************)
(* One instance for the two queues of a scan: the runs that own the scan   *)
(* in turn, and two runs of which the first has outlived its lease.  A     *)
(* behaviour is one of one part, with tables of its own, and the other     *)
(* rests before its first run.                                             *)
(***************************************************************************)
EXTENDS MCCandidateQueue

CONSTANT Pair  \* the two processes that run one scan at once

VARIABLES
    part,
    seed2, cand2, verdict2, cache2, live2, stats2, feed2, applied2, lock2, wk2, w2, failed2,
    restarts2, holds2

\* One name, one attempt, one word, two runs, and answers of other scans.
Both == INSTANCE CandidateQueue WITH
            Procs <- Pair, Overlap <- TRUE, SharedCache <- TRUE,
            Names <- {1}, Corpus <- {1}, Priorities <- {1}, CandPriority <- [n \in {1} |-> n],
            MaxAttempts <- 1, MaxPassive <- 1, Reserve <- 0, WaveLimit <- 1, SeedLimit <- 1,
            MaxWords <- 1, HasDeadline <- FALSE, MustRevalidate <- {},
            MaxRestarts <- 2, MaxHolds <- 0, MaxCalls <- 0,
            seed <- seed2, cand <- cand2, verdict <- verdict2, cache <- cache2, live <- live2,
            stats <- stats2, feed <- feed2, applied <- applied2, lock <- lock2, wk <- wk2,
            w <- w2, failed <- failed2, restarts <- restarts2, holds <- holds2

vars2 == <<seed2, cand2, verdict2, cache2, live2, stats2, feed2, applied2, lock2, wk2, w2, failed2,
           restarts2, holds2>>
allVars == <<part, vars, vars2>>

\* Two processes differ only by name; sound because only safety is checked.
PairSymmetry == Permutations(Pair)

-----------------------------------------------------------------------------
Parts == {"alone", "both"}

MCInit == part \in Parts /\ Init /\ Both!Init

\* Bounds: the two runs get plain answers and those of the cache, without wildcards or
\* proofs of DNSSEC, which change no charge; another scan fills the cache before them.
BothSteps ==
    /\ Both!Next
    /\ \A p \in Pair : w2'[p].res[1] \in {"none", "live", "negative", "error", "cache", "unsent"}
    /\ w2' = w2 => restarts2 = 0

MCNext ==
    /\ UNCHANGED part
    /\ \/ part = "alone" /\ Next /\ UNCHANGED vars2
       \/ part = "both" /\ BothSteps /\ UNCHANGED vars

MCSpec == MCInit /\ [][MCNext]_allVars

-----------------------------------------------------------------------------
(* Properties; the others are those of CandidateQueue.                     *)

\* When a lease expires under a living run, the other run costs a row at most one
\* query beyond its budget (AttemptsBoundedOverlap of CandidateQueue, for the pair).
OverlapBounded == Both!AttemptsBoundedOverlap
=============================================================================

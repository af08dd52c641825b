------------------------------- MODULE Recursion -------------------------------
(***************************************************************************)
(* The recursion of a scan below the names it found (scanner/enrichment,   *)
(* db/scan).  At each depth, every answered name one level up is a parent, *)
(* every word below it a candidate.  Candidates are materialized by pages; *)
(* the cursor of each parent, the rows and the answers are durable, the    *)
(* rest is of one run, and a scan that is stopped is resumed.              *)
(*                                                                         *)
(* A name is the sequence of its labels from the top, labels are words.    *)
(***************************************************************************)
EXTENDS Integers, Sequences, FiniteSets

CONSTANTS
    Words,        \* scan_recursive_words
    Depths,       \* recursive_depth
    WaveSize,        \* recursive_batch_limit
    ParentLimit,  \* recursive_hosts
    Retries,      \* attempts of a candidate, 3 in the code
    MaxStops,     \* bound: crashes and interrupts
    MaxSilent     \* bound: errors of queries that were never sent

ASSUME RecursionAssumption ==
    /\ {Words, Depths, WaveSize, ParentLimit, Retries} \subseteq Nat \ {0}
    /\ {MaxStops, MaxSilent} \subseteq Nat

VARIABLES
    adaptive,  \* the run mode
    timed,     \* the active budget is finite
    answers,   \* answered names, durable
    cursor,    \* scan_recursive_parents: next_word, or 0 where there is no row
    rows,      \* scan_recursive_candidates: "none", "queued", "processing", "gone"
    attempts,
    ended,     \* history: names that were denied or used up their attempts
    run,       \* "depth", "refill", "claim", "resolve", "settle", "requeue", "over",
               \* "stopped", "partial", "completed"
    depth,
    spent,     \* the budget of this run is exhausted
    claimed,   \* hosts of the batch and what became of each
    yield,     \* depth_yield
    stops, silent

recVars == <<adaptive, timed, answers, cursor, rows, attempts, ended, run, depth, spent, claimed,
             yield, stops, silent>>

NamesAt(d) == [1..d -> 1..Words]
Parents == UNION {NamesAt(d) : d \in 1..(Depths - 1)}
Candidates == UNION {NamesAt(d) : d \in 2..Depths}
ParentOf(h) == SubSeq(h, 1, Len(h) - 1)
WordOf(h) == h[Len(h)]
NoBatch == [h \in {} |-> "pending"]

RecInit ==
    /\ adaptive \in BOOLEAN /\ timed \in BOOLEAN
    /\ answers \in SUBSET NamesAt(1)
    /\ cursor = [p \in Parents |-> 0]
    /\ rows = [h \in Candidates |-> "none"] /\ attempts = [h \in Candidates |-> 0]
    /\ ended = {} /\ run = "depth" /\ depth = 2 /\ spent = FALSE
    /\ claimed = NoBatch /\ yield = 0 /\ stops = 0 /\ silent = 0

\* Rows of a depth that can still be worked on, and parents with words left.
Alive(d) == {h \in NamesAt(d) : rows[h] \in {"queued", "processing"} /\ attempts[h] < Retries}
Unfinished(d) == {p \in NamesAt(d - 1) : cursor[p] \in 1..Words}
DepthHasMore(d) == Alive(d) # {} \/ Unfinished(d) # {}
HasMore == \E d \in 2..Depths : DepthHasMore(d)

Durable == <<adaptive, timed, answers, cursor, rows, attempts, ended, stops, silent>>

-----------------------------------------------------------------------------
\* Some of what the budget allows may be used up by any step of the run.
Spend == spent' \in {spent, timed}

\* The parents of the depth join those of earlier runs.
StartDepth ==
    /\ run = "depth" /\ depth <= Depths
    /\ \E new \in SUBSET (answers \cap NamesAt(depth - 1)) :
        /\ \/ new = answers \cap NamesAt(depth - 1) /\ Cardinality(new) <= ParentLimit
           \/ Cardinality(new) = ParentLimit
        /\ cursor' = [p \in Parents |-> IF p \in new /\ cursor[p] = 0 THEN 1 ELSE cursor[p]]
    /\ Spend /\ yield' = 0
    /\ run' = IF spent' \/ \A p \in NamesAt(depth - 1) : cursor'[p] = 0 THEN "over" ELSE "refill"
    /\ UNCHANGED <<adaptive, timed, answers, rows, attempts, ended, depth, claimed, stops, silent>>

LastDepth ==
    /\ run = "depth" /\ depth > Depths /\ run' = "over"
    /\ UNCHANGED <<Durable, depth, spent, claimed, yield>>

\* The words left below the parents, in the order of the pages.
Before(g, h) == \/ \E i \in 1..Len(g) : /\ \A j \in 1..(i - 1) : g[j] = h[j]
                                        /\ g[i] < h[i]
Left(d) == {h \in NamesAt(d) : cursor[ParentOf(h)] # 0 /\ WordOf(h) >= cursor[ParentOf(h)]}

\* Mutant: the cursor is moved past the page before it is cut to the capacity.
PageWhole(d, capacity) == Left(d)
Advanced(d, capacity) ==
    {h \in Left(d) : Cardinality({g \in Left(d) : Before(g, h)}) < capacity}

\* refill_scan_recursive_candidates: rows and cursors in one transaction.
RefillRecursive ==
    /\ run = "refill" /\ ~spent
    /\ LET capacity == IF Cardinality(Alive(depth)) < WaveSize
                       THEN WaveSize - Cardinality(Alive(depth)) ELSE 0
           page == {h \in Left(depth) : Cardinality({g \in Left(depth) : Before(g, h)}) < capacity}
           past == Advanced(depth, capacity)
       IN /\ rows' = [h \in Candidates |-> IF h \in page /\ rows[h] = "none"
                                           THEN "queued" ELSE rows[h]]
          /\ cursor' = [p \in Parents |-> IF \E h \in past : ParentOf(h) = p
                THEN 1 + CHOOSE w \in 1..Words :
                            /\ Append(p, w) \in past
                            /\ \A v \in 1..Words : Append(p, v) \in past => v <= w
                ELSE cursor[p]]
    /\ Spend /\ run' = "claim"
    /\ UNCHANGED <<adaptive, timed, answers, attempts, ended, depth, claimed, yield, stops, silent>>

\* The budget ends the depth and the recursion, with what is left or without.
OutOfTime ==
    /\ run \in {"refill", "claim"} /\ spent
    /\ IF DepthHasMore(depth) THEN run' = "over" /\ UNCHANGED depth
       ELSE IF adaptive /\ yield < 2 THEN run' = "over" /\ UNCHANGED depth
       ELSE run' = "depth" /\ depth' = depth + 1
    /\ UNCHANGED <<Durable, spent, claimed, yield>>

RecClaimable == {h \in NamesAt(depth) : rows[h] = "queued" /\ attempts[h] < Retries}
Taken == {h \in RecClaimable : Cardinality({g \in RecClaimable : Before(g, h)}) < WaveSize}

\* pending_scan_recursive_candidates; a name that has its answer by now is completed.
ClaimBatch ==
    /\ run = "claim" /\ ~spent /\ Taken # {}
    /\ rows' = [h \in Candidates |-> IF h \notin Taken THEN rows[h]
                ELSE IF h \in answers THEN "gone" ELSE "processing"]
    /\ claimed' = [h \in Taken \ answers |-> "pending"]
    /\ run' = IF Taken \subseteq answers THEN "refill" ELSE "resolve"
    /\ UNCHANGED <<adaptive, timed, answers, cursor, attempts, ended, depth, spent, yield, stops,
                   silent>>

\* Nothing to claim: another page, the next depth, or, where an adaptive run found less than
\* two names at this depth, the end.
ClaimNothing ==
    /\ run = "claim" /\ ~spent /\ Taken = {}
    /\ IF DepthHasMore(depth) THEN run' = "refill" /\ UNCHANGED depth
       ELSE IF adaptive /\ yield < 2 THEN run' = "over" /\ UNCHANGED depth
       ELSE run' = "depth" /\ depth' = depth + 1
    /\ UNCHANGED <<Durable, spent, claimed, yield>>

Of(how) == {h \in DOMAIN claimed : claimed[h] \in how}

\* One name of the batch, here in their order: its answer or its verdict is stored as it comes.
\* An error is of a query that was sent or of one that was not; past the deadline none starts.
ResolveName(h) ==
    /\ run = "resolve" /\ h \in Of({"pending"})
    /\ \A g \in Of({"pending"}) : ~Before(g, h)
    /\ \E how \in {"answer", "denied", "error", "silent", "unstarted"} :
        /\ how = "silent" => silent < MaxSilent
        /\ how = "unstarted" => timed
        /\ claimed' = [claimed EXCEPT ![h] = how]
        /\ answers' = answers \cup (IF how = "answer" THEN {h} ELSE {})
        /\ ended' = ended \cup (IF how = "denied" THEN {h} ELSE {})
        /\ silent' = silent + (IF how = "silent" THEN 1 ELSE 0)
        /\ spent' = (spent \/ how = "unstarted")
    /\ UNCHANGED <<adaptive, timed, cursor, rows, attempts, run, depth, yield, stops>>

\* mark_scan_recursive_candidates_started
Charge ==
    /\ run = "resolve" /\ Of({"pending"}) = {} /\ run' = "settle"
    /\ attempts' = [h \in Candidates |-> attempts[h] +
            (IF h \in Of({"answer", "denied", "error"}) /\ rows[h] = "processing" THEN 1 ELSE 0)]
    /\ UNCHANGED <<adaptive, timed, answers, cursor, rows, ended, depth, spent, claimed, yield,
                   stops, silent>>

SettledRow(h) == ~(claimed[h] \in {"error", "silent"} /\ attempts[h] < Retries)

\* mark_scan_recursive_candidates_done of what was started; a settled row is deleted.
RecSettle ==
    /\ run = "settle" /\ run' = "requeue"
    /\ LET started == DOMAIN claimed \ Of({"unstarted"})
           gone == {h \in started : SettledRow(h)}
       IN /\ rows' = [h \in Candidates |-> IF h \in gone THEN "gone"
                                           ELSE IF h \in started THEN "queued" ELSE rows[h]]
          /\ attempts' = [h \in Candidates |-> IF h \in gone THEN 0 ELSE attempts[h]]
          /\ ended' = ended \cup {h \in gone : attempts[h] >= Retries}
    /\ UNCHANGED <<adaptive, timed, answers, cursor, depth, spent, claimed, yield, stops, silent>>

\* requeue_unstarted_scan_recursive_candidates
Requeue ==
    /\ run = "requeue" /\ run' = "refill" /\ Spend
    /\ rows' = [h \in Candidates |-> IF h \in Of({"unstarted"}) THEN "queued" ELSE rows[h]]
    /\ yield' = IF yield + Cardinality(Of({"answer"})) > 2 THEN 2
                ELSE yield + Cardinality(Of({"answer"}))
    /\ claimed' = NoBatch
    /\ UNCHANGED <<adaptive, timed, answers, cursor, attempts, ended, depth, stops, silent>>

\* Mutant: a claim survives the process that made it.
ReclaimNothing(h) == rows[h]
Reclaim(h) == IF rows[h] \notin {"queued", "processing"} THEN rows[h]
              ELSE IF attempts[h] >= Retries THEN "gone" ELSE "queued"

Resume ==
    /\ run \in {"stopped", "partial"} /\ run' = "depth"
    /\ rows' = [h \in Candidates |-> Reclaim(h)]
    /\ ended' = ended \cup {h \in Candidates : attempts[h] >= Retries}
    /\ UNCHANGED <<adaptive, timed, answers, cursor, attempts, depth, spent, claimed, yield, stops,
                   silent>>

\* The process ends, and with it what is not stored.
ProcessEnds == depth' = 2 /\ spent' = FALSE /\ claimed' = NoBatch /\ yield' = 0

\* A scan with recursive work left is kept for resumption.
RecFinalize ==
    /\ run = "over"
    /\ run' = IF HasMore THEN "partial" ELSE "completed"
    /\ ProcessEnds /\ UNCHANGED Durable

\* The process is killed or interrupted.
StopRun ==
    /\ run \notin {"stopped", "partial", "completed"} /\ stops < MaxStops
    /\ run' = "stopped" /\ stops' = stops + 1
    /\ ProcessEnds /\ UNCHANGED <<adaptive, timed, answers, cursor, rows, attempts, ended, silent>>

RecWork ==
    \/ StartDepth \/ LastDepth \/ RefillRecursive \/ OutOfTime
    \/ ClaimBatch \/ ClaimNothing \/ Charge \/ RecSettle \/ Requeue \/ RecFinalize \/ Resume
    \/ \E h \in DOMAIN claimed : ResolveName(h)

RecNext == RecWork \/ StopRun

\* A scan that can go on does, and one that was left unfinished is resumed.
RecSpec == RecInit /\ [][RecNext]_recVars /\ WF_recVars(RecWork)

-----------------------------------------------------------------------------
RecTypeOK ==
    /\ answers \subseteq NamesAt(1) \cup Candidates /\ ended \subseteq Candidates
    /\ cursor \in [Parents -> 0..(Words + 1)]
    /\ rows \in [Candidates -> {"none", "queued", "processing", "gone"}]
    /\ attempts \in [Candidates -> 0..Retries]
    /\ DOMAIN claimed \subseteq NamesAt(depth) /\ depth \in 2..(Depths + 1) /\ yield \in 0..2

\* A name that a cursor has passed is waiting in the queue or has its end: an answer, a denial
\* or all of its attempts, whatever was interrupted between the page, the claim, the queries
\* and their books; a scan is completed only when that holds of every word of every parent.
RecursionWhole ==
    /\ \A h \in Candidates : WordOf(h) < cursor[ParentOf(h)] =>
        \/ rows[h] \in {"queued", "processing"}
        \/ h \in answers \cup ended
    /\ run = "completed" => \A h \in Candidates : cursor[ParentOf(h)] # 0 =>
            h \in answers \cup ended

\* A scan without a budget, resumed as often as it is left unfinished, is completed.  An adaptive
\* one need not be: every run of it may end at a depth that yields less than two names.
RecursionEnds == ~adaptive /\ ~timed => <>(run = "completed")
=============================================================================

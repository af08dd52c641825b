--------------------------- MODULE CandidateQueue ---------------------------
(***************************************************************************)
(* The two durable candidate queues of one scan, and the scan runs that    *)
(* work on them.                                                           *)
(*                                                                         *)
(* scan_seed_candidates holds names found by passive sources ("seeds"),    *)
(* scan_candidates holds generated names ("active" candidates).  A run     *)
(* claims a page of each, resolves it, charges attempts, journals the      *)
(* outcomes, records learning and settles the rows, one SQLite transaction *)
(* per step (db/scan.rs, scanner/active_validation.rs, scanner/            *)
(* validation.rs).  A run may be interrupted between any two transactions; *)
(* --resume then reopens the scan.  Names are numbers so that the fqdn     *)
(* order of the SQL is the order of the numbers.                           *)
(***************************************************************************)
EXTENDS Naturals, FiniteSets

CONSTANTS
    Names,           \* fully qualified names, as numbers in fqdn order
    Priorities,      \* priorities a passive origin can give a seed
    Corpus,          \* names the generators and wordlists can produce
    CandPriority,    \* score of each generated name
    Procs, NoProc,   \* processes that may run the scan
    MaxAttempts,     \* the retry budget of a row (3 in the SQL)
    MaxPassive,      \* --max-passive, the cap on seed rows
    Reserve,         \* slots kept free for late CT names in the first persist
    WaveLimit,       \* rows claimed by one wave
    SeedLimit,       \* share of a wave given to seeds
    MaxWords,        \* --max-words, the cumulative active budget
    Overlap,         \* may a run start while another is still alive?
    HasDeadline,     \* is --active-max-runtime set?
    SharedCache,     \* may another scan store answers in the shared DNS cache?
    MustRevalidate,  \* names whose cached positive answer is never served
    MaxRestarts,     \* bound: runs of the scan
    MaxHolds,        \* bound: batches delayed by deferral, deadline or pre-send timeout
    MaxCalls         \* bound: late persists of one run

ASSUME NamesAssumption ==
    Names \subseteq Nat /\ IsFiniteSet(Names) /\ Corpus \subseteq Names
ASSUME PrioritiesAssumption ==
    Priorities \subseteq Nat /\ CandPriority \in [Names -> Nat]
ASSUME ProcsAssumption == IsFiniteSet(Procs) /\ NoProc \notin Procs
ASSUME LimitsAssumption ==
    /\ MaxAttempts \in Nat \ {0}
    /\ {MaxPassive, Reserve, WaveLimit, SeedLimit, MaxWords} \subseteq Nat
    /\ {MaxRestarts, MaxHolds, MaxCalls} \subseteq Nat
    /\ Reserve <= MaxPassive
ASSUME OptionsAssumption ==
    {Overlap, HasDeadline, SharedCache} \subseteq BOOLEAN /\ MustRevalidate \subseteq Names

VARIABLES
    seed,      \* scan_seed_candidates: status, attempts and priority by name
    cand,      \* scan_candidates: status, attempts, learning_recorded by name
    verdict,   \* latest dns_verifications outcome of this scan by name
    cache,     \* dns_cache status by name
    live,      \* names with a live, non-wildcard row in scan_findings
    stats,     \* sum of scan_generator_stats.attempts
    feed,      \* names the candidate feeds have not produced yet
    applied,   \* learning_applied: the scan has been finalized
    lock, wk,  \* the open seed transaction: its process and its uncommitted table
    w,         \* volatile state of each run
    failed,    \* history: charged queries of a name that ended in an error, counted
               \* up to MaxAttempts + 1
    restarts, holds  \* history: how much of the bounds has been used

db == <<seed, cand, verdict, cache, live, stats, feed, applied>>
txn == <<lock, wk>>
history == <<failed, restarts, holds>>
vars == <<db, txn, w, history>>

Status == {"none", "queued", "processing", "done"}
SeedRow == [st : Status, att : Nat, pri : Nat]
CandRow == [st : Status, att : Nat, rec : BOOLEAN]
Verdicts == {"none", "live", "negative", "error", "unverified"}
CacheState == {"none", "positive", "negative"}

\* What one host of a batch can come back with.  "nonexistent" is an answer that
\* a DNSSEC proof contradicts, "wildcard" one that a reliable wildcard profile
\* explains; "suppressed" is dropped as wildcard-shaped without a journal entry;
\* "unsent" is an indeterminate result of a query that never left the transport.
Network == {"live", "negative", "dnegative", "error", "nonexistent", "wildcard", "suppressed"}
Classes == Network \cup {"cache", "unsent", "deferred", "unstarted"}
Held == {"deferred", "unstarted"}
Indeterminate == {"error", "unsent"}

NoSeed == [st |-> "none", att |-> 0, pri |-> 0]
NoCand == [st |-> "none", att |-> 0, rec |-> FALSE]
EmptySeeds == [n \in Names |-> NoSeed]
EmptyRes == [n \in Names |-> "none"]

PCs == {"off", "persist", "row", "claim", "capacity", "refill", "claimc", "demote",
        "resolve", "startc", "starts", "unstart", "proof", "match", "purge", "journal", "djournal", "findings",
        "record", "donec", "requeuec", "requeues", "dones",
        "late", "drain", "answered", "enrich", "named", "brequeue", "bdone", "final"}
Modes == {"first", "wave", "late", "drain", "named"}

Worker ==
    [pc : PCs, mode : Modes, seeds : SUBSET Names, cands : SUBSET Names,
     todo : SUBSET Names, cur : SUBSET Names, res : [Names -> Classes \cup {"none"}],
     ans : SUBSET Names, out : BOOLEAN, gen : BOOLEAN, nat : BOOLEAN,
     draining : BOOLEAN, cap : Nat, pay : SUBSET Names, pri : [Names -> Nat],
     names : SUBSET Names, calls : Nat]

Off == [pc |-> "off", mode |-> "first", seeds |-> {}, cands |-> {}, todo |-> {},
        cur |-> {}, res |-> EmptyRes, ans |-> {}, out |-> FALSE, gen |-> TRUE,
        nat |-> FALSE, draining |-> FALSE, cap |-> 0, pay |-> {},
        pri |-> [n \in Names |-> 0], names |-> {}, calls |-> 0]

-----------------------------------------------------------------------------
(* Queries on the queues.                                                  *)

Rows(t) == {n \in Names : t[n].st # "none"}
ClaimableAnyAttempts(t) == {n \in Names : t[n].st = "queued"}  \* mutant
Claimable(t) == {n \in Names : t[n].st = "queued" /\ t[n].att < MaxAttempts}

\* Mutant: rows whose learning was recorded no longer count.
BudgetQueueOnly == Cardinality({n \in Rows(cand) : ~cand[n].rec})

\* scan_candidate_budget_count: attempts already recorded plus rows still
\* waiting to be recorded.
Budget == stats + Cardinality({n \in Rows(cand) : ~cand[n].rec})
FeedsMore == feed # {} /\ Budget < MaxWords
LiveAnswers == {n \in live : cache[n] = "positive"}

\* fresh_cache and the revalidation rules of resolve_batch_with_deadline.
Served(n) == cache[n] = "negative" \/ (cache[n] = "positive" /\ n \notin MustRevalidate)

\* S is the first `limit` rows of T in the order "higher priority, then fqdn".
IsPage(S, T, pri, limit) ==
    /\ S \subseteq T
    /\ Cardinality(S) <= limit
    /\ S = T \/ Cardinality(S) = limit
    /\ \A x \in S, y \in T \ S : pri[x] > pri[y] \/ (pri[x] = pri[y] /\ x < y)

\* Mutant: the insert does not look at the seed queue.
FreshActiveOnly(T) == {n \in T : cand[n].st = "none"}

\* The names of a page that are in neither queue: INSERT ... WHERE NOT EXISTS
\* on the seeds, ON CONFLICT DO NOTHING on the active rows.
Fresh(T) == {n \in T : seed[n].st = "none" /\ cand[n].st = "none"}

SeedPriority == [n \in Names |-> seed[n].pri]

Unlocked == lock = NoProc
At(p, pc) == w[p].pc = pc
\* The volatile state of p becomes r.
Become(p, r) == w' = [w EXCEPT ![p] = r]

Bounded(p) == w[p].mode \in {"drain", "named"}

-----------------------------------------------------------------------------
(* Row updates shared by several transactions.                             *)

SetStatus(t, S, st) == [n \in Names |-> IF n \in S THEN [t[n] EXCEPT !.st = st] ELSE t[n]]

\* Mutants: the attempt of a sent query is not charged; it is charged once for each
\* transport that was tried.
StartedUncharged(t, S) == t
StartedPerTransport(t, S) ==
    [n \in Names |-> IF n \in S /\ t[n].st = "processing"
                     THEN [t[n] EXCEPT !.att = @ + 2] ELSE t[n]]

\* mark_*_started: one more attempt for the rows still being processed.
Started(t, S) ==
    [n \in Names |-> IF n \in S /\ t[n].st = "processing"
                     THEN [t[n] EXCEPT !.att = @ + 1] ELSE t[n]]

\* requeue_unstarted_*: give the reservation back, keep the attempts.
Requeued(t, S) ==
    [n \in Names |-> IF n \in S /\ t[n].st = "processing"
                     THEN [t[n] EXCEPT !.st = "queued"] ELSE t[n]]

\* mark_*_done: an error with retry budget left goes back to the queue.
Settle(n, row) ==
    IF verdict[n] = "error" /\ row.att < MaxAttempts
    THEN [row EXCEPT !.st = "queued"] ELSE [row EXCEPT !.st = "done"]

\* Mutants: claims of a dead run are forgotten; settled rows are opened again; a
\* status the schema does not know.
ReopenedQueuedOnly(t) ==
    [n \in Names |-> IF t[n].st = "queued" /\ t[n].att >= MaxAttempts
                     THEN [t[n] EXCEPT !.st = "done"] ELSE t[n]]
ReopenedAll(t) == [n \in Names |-> IF t[n].st # "none" THEN [t[n] EXCEPT !.st = "queued"] ELSE t[n]]
ReopenedPending(t) == [n \in Names |-> IF t[n].st = "processing" THEN [t[n] EXCEPT !.st = "pending"] ELSE t[n]]

\* reopen_scan: unfinished rows are queued again unless their budget is spent.
Reopened(t) ==
    [n \in Names |->
        IF t[n].st \in {"queued", "processing"}
        THEN [t[n] EXCEPT !.st = IF t[n].att >= MaxAttempts THEN "done" ELSE "queued"]
        ELSE t[n]]

EvictableAny(t) == Rows(t)  \* mutant

\* The row persist_scan_seed_candidates would evict: unattempted, of lowest
\* priority, last in fqdn order.
Evictable(t) == {n \in Names : t[n].st = "queued" /\ t[n].att = 0}
Lowest(t) ==
    CHOOSE n \in Evictable(t) :
        \A m \in Evictable(t) : t[n].pri < t[m].pri \/ (t[n].pri = t[m].pri /\ n >= m)

Insert(t, n, pri) == [t EXCEPT ![n] = [st |-> "queued", att |-> 0, pri |-> pri]]

HasRoomOffByOne(t, max) == Cardinality(Rows(t)) <= max  \* mutant
HasRoom(t, max) == Cardinality(Rows(t)) < max

\* One iteration of the persist loop on the uncommitted table t.
PersistOne(t, n, pri, max) ==
    CASE t[n].st # "none" ->
            [t EXCEPT ![n].pri = IF t[n].pri < pri THEN pri ELSE t[n].pri]
      [] t[n].st = "none" /\ HasRoom(t, max) -> Insert(t, n, pri)
      [] t[n].st = "none" /\ ~HasRoom(t, max) ->
            IF Evictable(t) # {} /\ pri > t[Lowest(t)].pri
            THEN Insert([t EXCEPT ![Lowest(t)] = NoSeed], n, pri)
            ELSE t

-----------------------------------------------------------------------------
(* Runs: start or resume, and interruption.                                *)

Init ==
    /\ seed = EmptySeeds
    /\ cand = [n \in Names |-> NoCand]
    /\ verdict = [n \in Names |-> "none"]
    /\ cache = [n \in Names |-> "none"]
    /\ live = {}
    /\ stats = 0
    /\ feed = Corpus
    /\ applied = FALSE
    /\ lock = NoProc
    /\ wk = EmptySeeds
    /\ w = [p \in Procs |-> Off]
    /\ failed = [n \in Names |-> 0]
    /\ restarts = 0
    /\ holds = 0

\* scan() up to scan_inner: create the scan, or reopen it for --resume.  The
\* first run finds empty queues, on which reopening changes nothing.  The lease
\* keeps two runs apart unless Overlap says that it may have expired.
Begin(p) ==
    /\ At(p, "off") /\ Unlocked
    /\ ~applied
    /\ Overlap \/ \A q \in Procs : At(q, "off")
    /\ restarts < MaxRestarts
    /\ restarts' = restarts + 1
    /\ seed' = Reopened(seed)
    /\ cand' = Reopened(cand)
    /\ Become(p, [Off EXCEPT !.pc = "persist"])
    /\ UNCHANGED <<verdict, cache, live, stats, feed, applied, txn, failed, holds>>

\* The process is killed, or Ctrl+C drops its future: volatile state is lost and
\* an open transaction is rolled back.
Interrupt(p) ==
    /\ ~At(p, "off")
    /\ Become(p, Off)
    /\ lock' = IF lock = p THEN NoProc ELSE lock
    /\ wk' = IF lock = p THEN EmptySeeds ELSE wk
    /\ UNCHANGED <<db, history>>

-----------------------------------------------------------------------------
(* persist_scan_seed_candidates, one row at a time inside its transaction. *)

PersistLimit(p) == IF w[p].mode = "first" THEN MaxPassive - Reserve ELSE MaxPassive

BeginPersist(p) ==
    /\ At(p, "persist") /\ Unlocked
    /\ \E S \in SUBSET Names, f \in [Names -> Priorities] :
        /\ PersistLimit(p) = 0 => S = {}
        /\ Become(p, [w[p] EXCEPT !.pc = "row", !.pay = S, !.pri = f, !.names = S])
    /\ lock' = p
    /\ wk' = seed
    /\ UNCHANGED <<db, history>>

\* The payload is sorted by priority, then by name.
PersistRow(p) ==
    /\ At(p, "row") /\ lock = p
    /\ \E n \in w[p].pay :
        /\ IsPage({n}, w[p].pay, w[p].pri, 1)
        /\ wk' = PersistOne(wk, n, w[p].pri[n], PersistLimit(p))
        /\ Become(p, [w[p] EXCEPT !.pay = @ \ {n}])
    /\ UNCHANGED <<db, lock, history>>

\* Commit also drops the active row of every name that is now a seed.  The
\* first persist of a run is followed by the reads that set up its waves, the
\* persist of the late CT names by one that refills the unused capacity.
CommitPersist(p) ==
    /\ At(p, "row") /\ lock = p /\ w[p].pay = {}
    /\ seed' = wk
    /\ cand' = [n \in Names |-> IF wk[n].st # "none" THEN NoCand ELSE cand[n]]
    /\ lock' = NoProc
    /\ wk' = EmptySeeds
    /\ Become(p, [w[p] EXCEPT
        !.pri = [n \in Names |-> 0],
        !.names = IF w[p].mode = "named" THEN @ ELSE {},
        !.mode = IF @ = "late" THEN "drain" ELSE @,
        !.pc = CASE w[p].mode = "first" -> "claim"
                    [] w[p].mode = "late" -> "persist"
                    [] w[p].mode = "drain" -> "drain"
                    [] OTHER -> "named",
        !.ans = IF w[p].mode = "first" THEN LiveAnswers ELSE @,
        !.draining = IF w[p].mode = "first" THEN Claimable(cand') # {} ELSE @])
    /\ UNCHANGED <<verdict, cache, live, stats, feed, applied, history>>

-----------------------------------------------------------------------------
(* One wave: claim seeds, refill and claim active candidates.              *)

\* Loop head of active_validation::run and pending_scan_seed_candidates.  The
\* adaptive rule may stop expansion for good; the deadline disables it too.
ClaimSeeds(p) ==
    /\ At(p, "claim") /\ Unlocked
    /\ \E S \in SUBSET Names, stop \in BOOLEAN :
        /\ IsPage(S, Claimable(seed), SeedPriority, SeedLimit)
        /\ stop => w[p].mode = "wave" /\ w[p].gen /\ ~w[p].out
        /\ seed' = SetStatus(seed, S, "processing")
        /\ Become(p, [w[p] EXCEPT
            !.pc = "capacity", !.seeds = S, !.cands = {}, !.res = EmptyRes,
            !.gen = @ /\ ~stop /\ ~w[p].out, !.nat = @ \/ stop,
            !.draining = @ /\ (w[p].mode = "wave" /\ ~w[p].out => Claimable(cand) # {})])
    /\ UNCHANGED <<cand, verdict, cache, live, stats, feed, applied, txn, history>>

\* refill_candidate_queue reads the queue and budget counts ...
ReadCapacity(p) ==
    /\ At(p, "capacity") /\ Unlocked
    /\ Become(p, [w[p] EXCEPT !.pc = "refill", !.cap =
        IF /\ w[p].gen /\ ~w[p].out /\ ~w[p].draining
           /\ Cardinality(Claimable(cand)) < WaveLimit - Cardinality(w[p].seeds)
           /\ Budget < MaxWords
        THEN MaxWords - Budget ELSE 0])
    /\ UNCHANGED <<db, txn, history>>

\* ... and inserts new rows later; a page always moves the feed cursor.
RefillQueue(p) ==
    /\ At(p, "refill") /\ Unlocked
    /\ \E T \in SUBSET feed :
        LET new == Fresh(T) IN
        /\ T = {} <=> (w[p].cap = 0 \/ feed = {})
        /\ Cardinality(new) <= w[p].cap
        /\ cand' = SetStatus(cand, new, "queued")
        /\ feed' = feed \ T
    /\ Become(p, [w[p] EXCEPT !.pc = "claimc", !.cap = 0])
    /\ UNCHANGED <<seed, verdict, cache, live, stats, applied, txn, history>>

\* pending_scan_candidates_eligible, then the empty-wave test of the loop.
ClaimCands(p) ==
    /\ At(p, "claimc") /\ Unlocked
    /\ \E S \in SUBSET Names :
        /\ IsPage(S, IF w[p].out THEN {} ELSE Claimable(cand), CandPriority,
                  WaveLimit - Cardinality(w[p].seeds))
        /\ cand' = SetStatus(cand, S, "processing")
        /\ Become(p, [w[p] EXCEPT !.cands = S, !.todo = w[p].seeds \cup S,
            !.pc = CASE w[p].mode = "first" -> "demote"
                        [] w[p].mode = "wave" /\ w[p].seeds \cup S # {} -> "resolve"
                        [] w[p].mode = "wave" /\ w[p].seeds \cup S = {} /\ ~w[p].out
                              /\ w[p].gen /\ FeedsMore -> "claim"
                        [] OTHER -> "late"])
    /\ UNCHANGED <<seed, verdict, cache, live, stats, feed, applied, txn, history>>

\* demote_and_requeue_scan_findings: live answers kept from an earlier run that
\* now look like a wildcard get a fresh validation.
Demote(p) ==
    /\ At(p, "demote") /\ Unlocked
    /\ \E D \in SUBSET (w[p].ans \cap MustRevalidate) :
        /\ seed' = [n \in Names |-> IF n \in D
                        THEN [st |-> "queued", att |-> 0, pri |-> seed[n].pri] ELSE seed[n]]
        /\ cand' = [n \in Names |-> IF n \in D THEN NoCand ELSE cand[n]]
        /\ verdict' = [n \in Names |-> IF n \in D THEN "unverified" ELSE verdict[n]]
        /\ live' = live \ D
        /\ Become(p, [w[p] EXCEPT !.ans = @ \ D,
                 !.pc = IF w[p].todo = {} THEN "record" ELSE "resolve"])
    /\ UNCHANGED <<cache, stats, feed, applied, txn, history>>

-----------------------------------------------------------------------------
(* resolve_batch_with_deadline on one group of hosts of the wave.          *)

\* The deadline bounds every host but the seeds of a wave.
Timed(p, n) == Bounded(p) \/ n \in w[p].cands

Possible(p, n, c) ==
    \/ c = "deferred"
    \/ Served(n) /\ c = "cache"
    \/ ~Served(n) /\ HasDeadline /\ Timed(p, n) /\ c = "unstarted"
    \/ /\ ~Served(n) /\ ~(w[p].out /\ Timed(p, n))
       /\ c \in Network \cup {"unsent"}
       /\ c = "dnegative" => n \in w[p].cands

\* Seeds are resolved first, then the active hosts.
Resolve(p) ==
    /\ At(p, "resolve") /\ w[p].todo # {}
    /\ LET B == IF w[p].todo \cap w[p].seeds # {}
                THEN w[p].todo \cap w[p].seeds ELSE w[p].todo
       IN \E r \in [B -> Classes] :
            LET late == \E n \in B : \/ r[n] \in {"deferred", "unsent"}
                                     \/ r[n] = "unstarted" /\ ~w[p].out
            IN
            /\ \A n \in B : Possible(p, n, r[n])
            /\ late => holds < MaxHolds
            /\ holds' = IF late THEN holds + 1 ELSE holds
            /\ Become(p, [w[p] EXCEPT
                !.pc = "startc", !.cur = B, !.todo = @ \ B,
                !.res = [n \in Names |-> IF n \in B THEN r[n] ELSE @[n]],
                !.out = @ \/ \E n \in B : r[n] = "unstarted"])
    /\ UNCHANGED <<db, txn, failed, restarts>>

Hosts(p, C) == {n \in w[p].cur : w[p].res[n] \in C}

\* mark_scan_candidates_started on the hosts whose packet was accepted.
StartCands(p) ==
    /\ At(p, "startc") /\ Unlocked
    /\ cand' = Started(cand, Hosts(p, Network))
    /\ Become(p, [w[p] EXCEPT !.pc = "starts"])
    /\ UNCHANGED <<seed, verdict, cache, live, stats, feed, applied, txn, history>>

\* mark_scan_seed_candidates_started on the same hosts.
StartSeeds(p) ==
    /\ At(p, "starts") /\ Unlocked
    /\ seed' = Started(seed, Hosts(p, Network))
    /\ Become(p, [w[p] EXCEPT !.pc = "unstart"])
    /\ UNCHANGED <<cand, verdict, cache, live, stats, feed, applied, txn, history>>

\* requeue_unstarted_scan_seed_candidates on the hosts the deadline held back.
UnstartSeeds(p) ==
    /\ At(p, "unstart") /\ Unlocked
    /\ seed' = Requeued(seed, Hosts(p, {"unstarted"}))
    /\ Become(p, [w[p] EXCEPT !.pc = IF Hosts(p, {"nonexistent", "wildcard"}) = {}
                                    THEN "journal" ELSE "proof"])
    /\ UNCHANGED <<cand, verdict, cache, live, stats, feed, applied, txn, history>>

Recorded(S, outcome) == [n \in Names |-> IF n \in S THEN outcome ELSE verdict[n]]
Forgotten(S) == [n \in Names |-> IF n \in S THEN "none" ELSE cache[n]]

\* quarantine_dnssec_nonexistent: journal and cache in one transaction.
QuarantineNonexistent(p) ==
    /\ At(p, "proof") /\ Unlocked
    /\ verdict' = Recorded(Hosts(p, {"nonexistent"}), "negative")
    /\ cache' = Forgotten(Hosts(p, {"nonexistent"}))
    /\ Become(p, [w[p] EXCEPT !.pc = "match"])
    /\ UNCHANGED <<seed, cand, live, stats, feed, applied, txn, history>>

\* record_current_wildcard_matches journals the exact matches first ...
RecordWildcardMatches(p) ==
    /\ At(p, "match") /\ Unlocked
    /\ verdict' = Recorded(Hosts(p, {"wildcard"}), "unverified")
    /\ Become(p, [w[p] EXCEPT !.pc = "purge"])
    /\ UNCHANGED <<seed, cand, cache, live, stats, feed, applied, txn, history>>

\* ... and purge_confirmed_wildcard_false_positives then drops their answers.
PurgeWildcards(p) ==
    /\ At(p, "purge") /\ Unlocked
    /\ cache' = Forgotten(Hosts(p, {"wildcard"}))
    /\ Become(p, [w[p] EXCEPT !.pc = "journal"])
    /\ UNCHANGED <<seed, cand, verdict, live, stats, feed, applied, txn, history>>

\* update_cache_outcomes: cache and journal in one transaction.
Journal(p) ==
    /\ At(p, "journal") /\ Unlocked
    /\ verdict' = [n \in Names |->
        CASE n \in Hosts(p, {"live"}) -> "live"
          [] n \in Hosts(p, {"negative"}) -> "negative"
          [] n \in Hosts(p, Indeterminate) -> "error"
          [] OTHER -> verdict[n]]
    /\ cache' = [n \in Names |->
        CASE n \in Hosts(p, {"live"}) -> "positive"
          [] n \in Hosts(p, {"negative"}) -> "negative"
          [] OTHER -> cache[n]]
    /\ failed' = [n \in Names |->
        IF n \in Hosts(p, {"error"}) /\ failed[n] <= MaxAttempts THEN failed[n] + 1 ELSE failed[n]]
    /\ Become(p, [w[p] EXCEPT !.pc = "djournal"])
    /\ UNCHANGED <<seed, cand, live, stats, feed, applied, txn, restarts, holds>>

\* record_discovery_negatives: journal only, no cache entry.
JournalDiscovery(p) ==
    /\ At(p, "djournal") /\ Unlocked
    /\ verdict' = Recorded(Hosts(p, {"dnegative"}), "negative")
    /\ Become(p, [w[p] EXCEPT !.pc = "findings"])
    /\ UNCHANGED <<seed, cand, cache, live, stats, feed, applied, txn, history>>

\* persist_findings on the positive answers, cached ones included.
PersistFindings(p) ==
    /\ At(p, "findings") /\ Unlocked
    /\ LET found == Hosts(p, {"live"})
                    \cup {n \in Hosts(p, {"cache"}) : cache[n] = "positive"} IN
        /\ live' = live \cup found
        /\ Become(p, [w[p] EXCEPT !.ans = @ \cup found, !.cur = {},
            !.pc = CASE w[p].todo # {} -> "resolve"
                        [] w[p].todo = {} /\ Bounded(p) -> "brequeue"
                        [] OTHER -> "record"])
    /\ UNCHANGED <<seed, cand, verdict, cache, stats, feed, applied, txn, history>>

-----------------------------------------------------------------------------
(* End of a wave.                                                          *)

WaveHosts(p) == w[p].seeds \cup w[p].cands
\* Mutant: names deferred with their wildcard parent count as handled.
NotStartedDeadlineOnly(p) == {n \in WaveHosts(p) : w[p].res[n] = "unstarted"}
NotStarted(p) == {n \in WaveHosts(p) : w[p].res[n] \in Held}
Terminal(p) == WaveHosts(p) \ NotStarted(p)

\* record_scan_candidate_results: count a classified row once.
RecordLearning(p) ==
    /\ At(p, "record") /\ Unlocked
    /\ LET counted == {n \in w[p].cands :
                         /\ w[p].res[n] \notin Held \cup Indeterminate
                         /\ cand[n].st # "none" /\ ~cand[n].rec
                         /\ cand[n].att >= MaxAttempts \/ verdict[n] # "error"} IN
        /\ cand' = [n \in Names |-> IF n \in counted THEN [cand[n] EXCEPT !.rec = TRUE] ELSE cand[n]]
        /\ stats' = stats + Cardinality(counted)
    /\ Become(p, [w[p] EXCEPT !.pc = "donec"])
    /\ UNCHANGED <<seed, verdict, cache, live, feed, applied, txn, history>>

\* mark_scan_candidates_done has no test on the current status.
DoneCands(p) ==
    /\ At(p, "donec") /\ Unlocked
    /\ cand' = [n \in Names |->
        IF n \in Terminal(p) /\ cand[n].st # "none" THEN Settle(n, cand[n]) ELSE cand[n]]
    /\ Become(p, [w[p] EXCEPT !.pc = "requeuec"])
    /\ UNCHANGED <<seed, verdict, cache, live, stats, feed, applied, txn, history>>

\* requeue_unstarted_scan_candidates.
RequeueCands(p) ==
    /\ At(p, "requeuec") /\ Unlocked
    /\ cand' = Requeued(cand, NotStarted(p))
    /\ Become(p, [w[p] EXCEPT !.pc = "requeues"])
    /\ UNCHANGED <<seed, verdict, cache, live, stats, feed, applied, txn, history>>

\* requeue_unstarted_scan_seed_candidates.
RequeueSeeds(p) ==
    /\ At(p, "requeues") /\ Unlocked
    /\ seed' = Requeued(seed, NotStarted(p))
    /\ Become(p, [w[p] EXCEPT !.pc = "dones"])
    /\ UNCHANGED <<cand, verdict, cache, live, stats, feed, applied, txn, history>>

\* mark_scan_seed_candidates_done: only rows still being processed.
SettledSeeds(S) ==
    [n \in Names |-> IF n \in S /\ seed[n].st = "processing" THEN Settle(n, seed[n]) ELSE seed[n]]

DoneSeeds(p) ==
    /\ At(p, "dones") /\ Unlocked
    /\ seed' = SettledSeeds(Terminal(p))
    /\ Become(p, [w[p] EXCEPT !.pc = "claim", !.mode = "wave",
                      !.seeds = {}, !.cands = {}, !.res = EmptyRes])
    /\ UNCHANGED <<cand, verdict, cache, live, stats, feed, applied, txn, history>>

-----------------------------------------------------------------------------
(* After the waves: late CT names, enrichment, finalization.               *)

\* The CT task joins after the waves, if there is one, and persists its names.
JoinLateCt(p) ==
    /\ At(p, "late")
    /\ \/ /\ w[p].calls < MaxCalls
          /\ Become(p, [w[p] EXCEPT !.mode = "late", !.pc = "persist", !.calls = @ + 1])
       \/ Become(p, [w[p] EXCEPT !.pc = "enrich"])
    /\ UNCHANGED <<db, txn, history>>

\* drain_late_ct_seed_validation claims the next page, until none is left or
\* the deadline has passed.
DrainClaim(p) ==
    /\ At(p, "drain") /\ Unlocked
    /\ \E S \in SUBSET Names :
        /\ IsPage(S, IF w[p].out THEN {} ELSE Claimable(seed), SeedPriority, WaveLimit)
        /\ seed' = SetStatus(seed, S, "processing")
        /\ Become(p, [w[p] EXCEPT !.seeds = S, !.cands = {}, !.res = EmptyRes,
                          !.pc = IF S = {} THEN "enrich" ELSE "answered"])
    /\ UNCHANGED <<cand, verdict, cache, live, stats, feed, applied, txn, history>>

\* Names already answered in this run are settled without a query.
MarkAnswered(p) ==
    /\ At(p, "answered") /\ Unlocked
    /\ seed' = SettledSeeds(w[p].seeds \cap w[p].ans)
    /\ Become(p, [w[p] EXCEPT !.seeds = @ \ w[p].ans, !.todo = w[p].seeds \ w[p].ans,
                      !.pc = IF w[p].seeds \subseteq w[p].ans THEN "drain" ELSE "resolve"])
    /\ UNCHANGED <<cand, verdict, cache, live, stats, feed, applied, txn, history>>

\* The enrichment stages persist what they find, or finish.
Enrich(p) ==
    /\ At(p, "enrich")
    /\ \/ /\ w[p].calls < MaxCalls
          /\ Become(p, [w[p] EXCEPT !.mode = "named", !.pc = "persist", !.calls = @ + 1])
       \/ Become(p, [w[p] EXCEPT !.pc = "final"])
    /\ UNCHANGED <<db, txn, history>>

\* claim_scan_seed_candidates_by_name.
ClaimNamed(p) ==
    /\ At(p, "named") /\ Unlocked
    /\ LET S == w[p].names \cap Claimable(seed) IN
        /\ seed' = SetStatus(seed, S, "processing")
        /\ Become(p, [w[p] EXCEPT !.seeds = S, !.cands = {}, !.todo = S, !.names = {},
                          !.res = EmptyRes, !.pc = IF S = {} THEN "enrich" ELSE "resolve"])
    /\ UNCHANGED <<cand, verdict, cache, live, stats, feed, applied, txn, history>>

\* validate_claimed_seed_batch_bounded gives held and indeterminate names back
\* to the queue ...
Outstanding(p) == {n \in w[p].seeds : w[p].res[n] \in Held \cup Indeterminate}

BoundedRequeue(p) ==
    /\ At(p, "brequeue") /\ Unlocked
    /\ seed' = Requeued(seed, Outstanding(p))
    /\ Become(p, [w[p] EXCEPT !.pc = "bdone"])
    /\ UNCHANGED <<cand, verdict, cache, live, stats, feed, applied, txn, history>>

\* ... and settles the others.
BoundedDone(p) ==
    /\ At(p, "bdone") /\ Unlocked
    /\ seed' = SettledSeeds(w[p].seeds \ Outstanding(p))
    /\ Become(p, [w[p] EXCEPT !.seeds = {}, !.res = EmptyRes,
                      !.pc = IF w[p].mode = "drain" THEN "drain" ELSE "enrich"])
    /\ UNCHANGED <<cand, verdict, cache, live, stats, feed, applied, txn, history>>

\* active_resume_required.
ResumeRequired(p) ==
    \/ Claimable(seed) # {}
    \/ w[p].out /\ (Claimable(cand) # {} \/ (~w[p].nat /\ FeedsMore))

\* pause_scan: everything stays for --resume.
Pause(p) ==
    /\ At(p, "final") /\ Unlocked
    /\ ResumeRequired(p)
    /\ Become(p, Off)
    /\ UNCHANGED <<db, txn, history>>

\* finalize_scan_with_learning: applied at most once; a second run that gets
\* here fails and changes nothing.
Finalize(p) ==
    /\ At(p, "final") /\ Unlocked
    /\ ~ResumeRequired(p)
    /\ Become(p, Off)
    /\ \/ /\ ~applied
          /\ applied' = TRUE
          /\ seed' = EmptySeeds
          /\ stats' = 0
          /\ feed' = {}
          /\ \E gone \in {{}, Rows(cand)} :
                cand' = [n \in Names |-> IF n \in gone THEN NoCand ELSE cand[n]]
       \/ applied /\ UNCHANGED <<applied, seed, stats, feed, cand>>
    /\ UNCHANGED <<verdict, cache, live, txn, history>>

\* Another scan on the same database stores a fresh positive answer.
CacheFill(n) ==
    /\ SharedCache /\ lock = NoProc
    /\ cache[n] # "positive"
    /\ cache' = [cache EXCEPT ![n] = "positive"]
    /\ UNCHANGED <<seed, cand, verdict, live, stats, feed, applied, txn, w, history>>

-----------------------------------------------------------------------------
Wave(p) ==
    \/ ClaimSeeds(p) \/ ReadCapacity(p) \/ RefillQueue(p) \/ ClaimCands(p) \/ Demote(p)
    \/ RecordLearning(p) \/ DoneCands(p) \/ RequeueCands(p) \/ RequeueSeeds(p) \/ DoneSeeds(p)

Batch(p) ==
    \/ Resolve(p) \/ StartCands(p) \/ StartSeeds(p) \/ UnstartSeeds(p)
    \/ QuarantineNonexistent(p) \/ RecordWildcardMatches(p) \/ PurgeWildcards(p)
    \/ Journal(p) \/ JournalDiscovery(p) \/ PersistFindings(p)

Persist(p) == BeginPersist(p) \/ PersistRow(p) \/ CommitPersist(p)

Closing(p) ==
    \/ JoinLateCt(p) \/ DrainClaim(p) \/ MarkAnswered(p) \/ Enrich(p) \/ ClaimNamed(p)
    \/ BoundedRequeue(p) \/ BoundedDone(p) \/ Pause(p) \/ Finalize(p)

Work(p) == Wave(p) \/ Batch(p) \/ Persist(p) \/ Closing(p)

Next ==
    \/ \E p \in Procs : Begin(p) \/ Work(p) \/ Interrupt(p)
    \/ \E n \in Names : CacheFill(n)

Spec == Init /\ [][Next]_vars

\* A run that is not interrupted keeps going: every future it awaits completes
\* or times out, and SQLite grants its lock in turn.
FairSpec == Spec /\ \A p \in Procs : WF_vars(Work(p))

-----------------------------------------------------------------------------
(* Properties.                                                             *)

TypeOK ==
    /\ seed \in [Names -> SeedRow] /\ cand \in [Names -> CandRow]
    /\ verdict \in [Names -> Verdicts] /\ cache \in [Names -> CacheState]
    /\ live \in SUBSET Names /\ stats \in Nat /\ feed \in SUBSET Names
    /\ applied \in BOOLEAN
    /\ lock \in Procs \cup {NoProc} /\ wk \in [Names -> SeedRow]
    /\ w \in [Procs -> Worker]
    /\ failed \in [Names -> Nat] /\ restarts \in Nat /\ holds \in Nat

\* A name is in at most one of the two queues: the passive row wins and the
\* active row is dropped, whatever runs overlap, so a host is never resolved and
\* charged twice in one wave.
Disjoint == \A n \in Names : seed[n].st = "none" \/ cand[n].st = "none"

\* The retry budget survives crashes and resumes: no row is ever charged more
\* than MaxAttempts queries while runs of the scan exclude each other.
AttemptsBounded ==
    ~Overlap => \A n \in Names : seed[n].att <= MaxAttempts /\ cand[n].att <= MaxAttempts

\* When a lease expires under a living run, both may hold the same claim; each
\* further process costs a row at most one query beyond its budget.
AttemptsBoundedOverlap ==
    \A n \in Names : \A a \in {seed[n].att, cand[n].att} :
        a <= MaxAttempts + Cardinality(Procs) - 1

\* --max-words bounds the generated names over all runs of a scan: those counted
\* by the generator statistics plus those still in the queue, not yet counted.
BudgetWithin ==
    stats + Cardinality({n \in Names : cand[n].st # "none" /\ ~cand[n].rec}) <= MaxWords

\* Outside a wave an exclusive run has given back or settled every claim, its own
\* and those of a run that died: a row left in 'processing' would never be
\* claimed again nor counted as pending, and finalization would drop it.
NoOrphanClaims ==
    (~Overlap /\ \E p \in Procs : w[p].pc \in {"persist", "row", "claim", "late", "drain",
                                               "enrich", "named", "final"})
    => \A n \in Names : seed[n].st # "processing" /\ cand[n].st # "processing"

\* --max-passive bounds the seed rows whoever persists names, and however often a
\* run is resumed: beyond the cap a row only takes the place of another.  Only
\* demotion, which puts a finding back into the queue, goes past it.
SeedCap ==
    [][\/ Cardinality(Rows(seed)') <= MaxPassive
       \/ Cardinality(Rows(seed)') <= Cardinality(Rows(seed))
       \/ \E p \in Procs : Demote(p)]_vars

\* A seed row disappears only by finalization or to make room for a name of
\* higher priority, and never when a query has been charged or claimed for it.
EvictionSafe ==
    [][\A n \in Names : (seed[n].st # "none" /\ seed'[n].st = "none" /\ ~applied') =>
        /\ seed[n].st = "queued" /\ seed[n].att = 0
        /\ \E m \in Names : seed[m].st = "none" /\ seed'[m].pri > seed[n].pri]_vars

\* Finalization drops no passive name that was never looked at: each was charged
\* a query, was answered from the cache or is a finding.
QueriedBeforeDropped ==
    [][applied' /\ ~applied => \A n \in Rows(seed) :
        seed[n].att > 0 \/ cache[n] # "none" \/ n \in live]_vars

\* A settled row stays settled in every later run, unless a demotion sends the
\* name back for validation or the row leaves its queue.
SettledStays ==
    [][~Overlap => \A n \in Names :
        /\ seed[n].st = "done" => seed'[n].st \in {"done", "none"} \/ verdict'[n] = "unverified"
        /\ cand[n].st = "done" => cand'[n].st \in {"done", "none"}]_vars

\* A run that is not stopped by its user always comes to an end: it pauses or
\* finalizes the scan, however the retries, deferrals and late names fall.
RunEnds == \A p \in Procs : (w[p].pc # "off") ~> (w[p].pc = "off")

-----------------------------------------------------------------------------
(* What the documentation says of the queues, where the code disagrees.    *)

\* "Transient DNS failures receive at most three total attempts across runs."
FailuresBounded == \A n \in Names : failed[n] <= MaxAttempts

\* Rows left in processing are requeued by --resume: a generated name whose live
\* answer was journalled is not closed without its finding.
LiveKept ==
    \A n \in Names : cand[n].st = "done" /\ verdict[n] = "live" => n \in live
=============================================================================

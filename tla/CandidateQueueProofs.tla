------------------------ MODULE CandidateQueueProofs ------------------------
(***************************************************************************)
(* Theorems about the candidate queues, for every set of names and         *)
(* processes and every value of the limits: types, retry budgets, claims,  *)
(* the budget of generated names, evictions, settled rows, the cap on      *)
(* passive rows and what finalization drops.  None of these is inductive   *)
(* alone; what a run holds in memory is related to the tables at each      *)
(* control point by the invariants of the second part.                     *)
(***************************************************************************)
EXTENDS CandidateQueue, FiniteSetTheorems, WellFoundedInduction, TLAPS

-----------------------------------------------------------------------------
(* What the row updates return.                                            *)

\* Each update of a seed table returns a seed table.
LEMMA SeedUpdates ==
    ASSUME NEW t \in [Names -> SeedRow], NEW S, NEW st \in Status
    PROVE  /\ SetStatus(t, S, st) \in [Names -> SeedRow]
           /\ Started(t, S) \in [Names -> SeedRow]
           /\ Requeued(t, S) \in [Names -> SeedRow]
           /\ Reopened(t) \in [Names -> SeedRow]
<1>1. SetStatus(t, S, st) \in [Names -> SeedRow]
    BY DEF SetStatus, SeedRow
<1>2. Started(t, S) \in [Names -> SeedRow]
    BY DEF Started, SeedRow
<1>3. Requeued(t, S) \in [Names -> SeedRow]
    BY DEF Requeued, SeedRow, Status
<1>4. Reopened(t) \in [Names -> SeedRow]
    BY DEF Reopened, SeedRow, Status
<1> QED BY <1>1, <1>2, <1>3, <1>4

\* One iteration of the persist loop returns a seed table, whichever of its
\* branches is taken and whichever row it evicts.
LEMMA PersistOneTyped ==
    ASSUME NEW t \in [Names -> SeedRow], NEW n \in Names, NEW pri \in Nat, NEW max
    PROVE  PersistOne(t, n, pri, max) \in [Names -> SeedRow]
<1>1. [st |-> "queued", att |-> 0, pri |-> pri] \in SeedRow /\ NoSeed \in SeedRow
    BY DEF SeedRow, Status, NoSeed
<1>2. \A u \in [Names -> SeedRow] : Insert(u, n, pri) \in [Names -> SeedRow]
    BY <1>1 DEF Insert
<1>3. [t EXCEPT ![Lowest(t)] = NoSeed] \in [Names -> SeedRow]
    BY <1>1
<1>4. [t EXCEPT ![n].pri = IF t[n].pri < pri THEN pri ELSE t[n].pri] \in [Names -> SeedRow]
    BY DEF SeedRow
<1>5. CASE t[n].st # "none"
    BY <1>5, <1>4 DEF PersistOne
<1>6. CASE t[n].st = "none" /\ HasRoom(t, max)
    BY <1>6, <1>2 DEF PersistOne
<1>7. CASE t[n].st = "none" /\ ~HasRoom(t, max)
    BY <1>7, <1>2, <1>3 DEF PersistOne
<1> QED BY <1>5, <1>6, <1>7

\* Each update of an active table returns an active table.
LEMMA CandUpdates ==
    ASSUME NEW t \in [Names -> CandRow], NEW S, NEW st \in Status
    PROVE  /\ SetStatus(t, S, st) \in [Names -> CandRow]
           /\ Started(t, S) \in [Names -> CandRow]
           /\ Requeued(t, S) \in [Names -> CandRow]
           /\ Reopened(t) \in [Names -> CandRow]
<1>1. SetStatus(t, S, st) \in [Names -> CandRow]
    BY DEF SetStatus, CandRow
<1>2. Started(t, S) \in [Names -> CandRow]
    BY DEF Started, CandRow
<1>3. Requeued(t, S) \in [Names -> CandRow]
    BY DEF Requeued, CandRow, Status
<1>4. Reopened(t) \in [Names -> CandRow]
    BY DEF Reopened, CandRow, Status
<1> QED BY <1>1, <1>2, <1>3, <1>4

\* mark_scan_seed_candidates_done returns a seed table.
LEMMA SettledSeedsTyped ==
    ASSUME TypeOK, NEW S PROVE SettledSeeds(S) \in [Names -> SeedRow]
BY DEF SettledSeeds, Settle, TypeOK, SeedRow, Status

\* The queues are finite, so what is counted over them is a natural number.
LEMMA CountTyped == ASSUME NEW S \in SUBSET Names PROVE Cardinality(S) \in Nat
BY NamesAssumption, FS_Subset, FS_CardinalityType

-----------------------------------------------------------------------------
(* Type correctness.                                                       *)

\* The empty state of a run is typed.
LEMMA OffTyped == Off \in Worker /\ [Off EXCEPT !.pc = "persist"] \in Worker
BY DEF Off, Worker, PCs, Modes, EmptyRes

LEMMA EmptySeedsTyped == EmptySeeds \in [Names -> SeedRow]
BY DEF EmptySeeds, NoSeed, SeedRow, Status

\* A step of one run to a typed state keeps all runs typed.
LEMMA BecomeTyped ==
    ASSUME TypeOK, NEW p \in Procs, NEW r \in Worker, Become(p, r)
    PROVE  w' \in [Procs -> Worker]
BY DEF Become, TypeOK

\* So does a step that only moves its control point.
LEMMA MoveTyped ==
    ASSUME TypeOK, NEW p \in Procs, NEW pc \in PCs, Become(p, [w[p] EXCEPT !.pc = pc])
    PROVE  w' \in [Procs -> Worker]
<1>1. w[p] \in Worker
    BY DEF TypeOK
<1>2. [w[p] EXCEPT !.pc = pc] \in Worker
    BY <1>1 DEF Worker
<1> QED BY <1>2, BecomeTyped

\* What ClaimSeeds, Resolve and the late persists store in a run is typed.
LEMMA WaveFields ==
    ASSUME NEW r \in Worker, NEW S \in SUBSET Names,
           NEW g \in BOOLEAN, NEW a \in BOOLEAN, NEW d \in BOOLEAN
    PROVE  [r EXCEPT !.pc = "capacity", !.seeds = S, !.cands = {}, !.res = EmptyRes,
                     !.gen = g, !.nat = a, !.draining = d] \in Worker
BY DEF Worker, PCs, EmptyRes

LEMMA BatchFields ==
    ASSUME NEW r \in Worker, NEW B \in SUBSET Names, NEW T \in SUBSET Names,
           NEW f \in [Names -> Classes \cup {"none"}], NEW o \in BOOLEAN
    PROVE  [r EXCEPT !.pc = "startc", !.cur = B, !.todo = T, !.res = f, !.out = o] \in Worker
BY DEF Worker, PCs

LEMMA CallFields ==
    ASSUME NEW r \in Worker, NEW m \in Modes, NEW c \in Nat
    PROVE  [r EXCEPT !.mode = m, !.pc = "persist", !.calls = c] \in Worker
BY DEF Worker, PCs

LEMMA InitTyped == Init => TypeOK
<1> SUFFICES ASSUME Init PROVE TypeOK
    OBVIOUS
<1>1. seed \in [Names -> SeedRow] /\ wk \in [Names -> SeedRow]
    BY EmptySeedsTyped DEF Init
<1>2. cand \in [Names -> CandRow]
    BY DEF Init, NoCand, CandRow, Status
<1>3. verdict \in [Names -> Verdicts] /\ cache \in [Names -> CacheState]
    BY DEF Init, Verdicts, CacheState
<1>4. w \in [Procs -> Worker]
    BY OffTyped DEF Init
<1> QED BY <1>1, <1>2, <1>3, <1>4, NamesAssumption DEF Init, TypeOK

\* Starting, interrupting and persisting.
LEMMA PersistTyped ==
    ASSUME TypeOK, NEW p \in Procs, Begin(p) \/ Interrupt(p) \/ Persist(p) PROVE TypeOK'
<1>w. w[p] \in Worker
    BY DEF TypeOK
<1>1. CASE Begin(p)
  <2>1. seed' \in [Names -> SeedRow] /\ cand' \in [Names -> CandRow]
    BY <1>1, SeedUpdates, CandUpdates DEF Begin, TypeOK, Status
  <2>2. w' \in [Procs -> Worker]
    BY <1>1, OffTyped, BecomeTyped DEF Begin
  <2> QED BY <2>1, <2>2, <1>1 DEF Begin, TypeOK, txn
<1>2. CASE Interrupt(p)
  <2>1. w' \in [Procs -> Worker]
    BY <1>2, OffTyped, BecomeTyped DEF Interrupt
  <2> QED BY <2>1, <1>2, EmptySeedsTyped DEF Interrupt, TypeOK, db, history
<1>3. CASE BeginPersist(p)
  <2>1. PICK S \in SUBSET Names, f \in [Names -> Priorities] :
            Become(p, [w[p] EXCEPT !.pc = "row", !.pay = S, !.pri = f, !.names = S])
    BY <1>3 DEF BeginPersist
  <2>2. f \in [Names -> Nat]
    BY PrioritiesAssumption
  <2>3. [w[p] EXCEPT !.pc = "row", !.pay = S, !.pri = f, !.names = S] \in Worker
    BY <1>w, <2>2 DEF Worker, PCs
  <2> QED BY <2>1, <2>3, <1>3, BecomeTyped DEF BeginPersist, TypeOK, db, history
<1>4. CASE PersistRow(p)
  <2>1. PICK n \in w[p].pay :
            /\ wk' = PersistOne(wk, n, w[p].pri[n], PersistLimit(p))
            /\ Become(p, [w[p] EXCEPT !.pay = @ \ {n}])
    BY <1>4 DEF PersistRow
  <2>2. n \in Names /\ w[p].pri[n] \in Nat
    BY <1>w DEF Worker
  <2>3. wk' \in [Names -> SeedRow]
    BY <2>1, <2>2, PersistOneTyped DEF TypeOK
  <2>4. [w[p] EXCEPT !.pay = @ \ {n}] \in Worker
    BY <1>w DEF Worker
  <2> QED BY <2>1, <2>3, <2>4, <1>4, BecomeTyped DEF PersistRow, TypeOK, db, history
<1>5. CASE CommitPersist(p)
  <2>1. cand' \in [Names -> CandRow]
    BY <1>5 DEF CommitPersist, TypeOK, NoCand, CandRow, Status
  <2> DEFINE r == [w[p] EXCEPT
        !.pri = [n \in Names |-> 0],
        !.names = IF w[p].mode = "named" THEN @ ELSE {},
        !.mode = IF @ = "late" THEN "drain" ELSE @,
        !.pc = CASE w[p].mode = "first" -> "claim"
                    [] w[p].mode = "late" -> "persist"
                    [] w[p].mode = "drain" -> "drain"
                    [] OTHER -> "named",
        !.ans = IF w[p].mode = "first" THEN LiveAnswers ELSE @,
        !.draining = IF w[p].mode = "first" THEN Claimable(cand') # {} ELSE @]
  <2>2. LiveAnswers \in SUBSET Names
    BY DEF LiveAnswers, TypeOK
  <2>3. (CASE w[p].mode = "first" -> "claim" [] w[p].mode = "late" -> "persist"
           [] w[p].mode = "drain" -> "drain" [] OTHER -> "named") \in PCs
    BY DEF PCs
  <2>4. r \in Worker
    BY <1>w, <2>2, <2>3 DEF Worker, Modes
  <2>5. Become(p, r)
    BY <1>5 DEF CommitPersist
  <2>6. w' \in [Procs -> Worker]
    BY <2>4, <2>5, BecomeTyped
  <2> QED BY <2>1, <2>6, <1>5, EmptySeedsTyped DEF CommitPersist, TypeOK, history
<1> QED BY <1>1, <1>2, <1>3, <1>4, <1>5 DEF Persist

\* One wave: claims, refill and settlement.
LEMMA WaveTyped == ASSUME TypeOK, NEW p \in Procs, Wave(p) PROVE TypeOK'
<1>w. w[p] \in Worker
    BY DEF TypeOK
<1>1. CASE ClaimSeeds(p)
  <2> DEFINE r(S, stop) == [w[p] EXCEPT
            !.pc = "capacity", !.seeds = S, !.cands = {}, !.res = EmptyRes,
            !.gen = @ /\ ~stop /\ ~w[p].out, !.nat = @ \/ stop,
            !.draining = @ /\ (w[p].mode = "wave" /\ ~w[p].out => Claimable(cand) # {})]
  <2>1. PICK S \in SUBSET Names, stop \in BOOLEAN :
            seed' = SetStatus(seed, S, "processing") /\ Become(p, r(S, stop))
    BY <1>1, Zenon DEF ClaimSeeds
  <2>2. seed' \in [Names -> SeedRow]
    BY <2>1, SeedUpdates DEF TypeOK, Status
  <2>3. /\ (w[p].gen /\ ~stop /\ ~w[p].out) \in BOOLEAN
        /\ (w[p].nat \/ stop) \in BOOLEAN
        /\ (w[p].draining /\ (w[p].mode = "wave" /\ ~w[p].out => Claimable(cand) # {}))
              \in BOOLEAN
    BY Zenon
  <2>4. r(S, stop) \in Worker
    BY <1>w, <2>3, WaveFields, Zenon
  <2> HIDE DEF r
  <2> QED BY <2>1, <2>2, <2>4, <1>1, BecomeTyped DEF ClaimSeeds, TypeOK, txn, history
<1>2. CASE ReadCapacity(p)
  <2>1. Budget \in Nat
    BY CountTyped DEF Budget, Rows, TypeOK
  <2> DEFINE c == IF /\ w[p].gen /\ ~w[p].out /\ ~w[p].draining
                     /\ Cardinality(Claimable(cand)) < WaveLimit - Cardinality(w[p].seeds)
                     /\ Budget < MaxWords
                  THEN MaxWords - Budget ELSE 0
  <2>2. c \in Nat /\ Become(p, [w[p] EXCEPT !.pc = "refill", !.cap = c])
    <3>1. Budget < MaxWords => MaxWords - Budget \in Nat
        BY <2>1, LimitsAssumption
    <3>2. c \in Nat
        BY <3>1
    <3> QED BY <1>2, <3>2, Zenon DEF ReadCapacity
  <2> HIDE DEF c
  <2>3. [w[p] EXCEPT !.pc = "refill", !.cap = c] \in Worker
    BY <1>w, <2>2 DEF Worker, PCs
  <2> QED BY <2>2, <2>3, <1>2, BecomeTyped DEF ReadCapacity, TypeOK, db, txn, history
<1>3. CASE RefillQueue(p)
  <2>1. PICK T \in SUBSET feed : cand' = SetStatus(cand, Fresh(T), "queued") /\ feed' = feed \ T
    BY <1>3 DEF RefillQueue
  <2>2. cand' \in [Names -> CandRow]
    BY <2>1, CandUpdates DEF TypeOK, Status
  <2>3. [w[p] EXCEPT !.pc = "claimc", !.cap = 0] \in Worker
    BY <1>w DEF Worker, PCs
  <2>4. w' \in [Procs -> Worker]
    BY <2>3, <1>3, BecomeTyped DEF RefillQueue
  <2> QED BY <2>1, <2>2, <2>4, <1>3 DEF RefillQueue, TypeOK, txn, history
<1>4. CASE ClaimCands(p)
  <2>1. PICK S \in SUBSET Names, pc \in PCs :
            /\ cand' = SetStatus(cand, S, "processing")
            /\ Become(p, [w[p] EXCEPT !.cands = S, !.todo = w[p].seeds \cup S, !.pc = pc])
    BY <1>4 DEF ClaimCands, PCs
  <2>2. cand' \in [Names -> CandRow]
    BY <2>1, CandUpdates DEF TypeOK, Status
  <2>3. [w[p] EXCEPT !.cands = S, !.todo = w[p].seeds \cup S, !.pc = pc] \in Worker
    BY <1>w DEF Worker
  <2> QED BY <2>1, <2>2, <2>3, <1>4, BecomeTyped DEF ClaimCands, TypeOK, txn, history
<1>5. CASE Demote(p)
  <2>1. PICK D \in SUBSET (w[p].ans \cap MustRevalidate) :
            /\ seed' = [n \in Names |-> IF n \in D
                        THEN [st |-> "queued", att |-> 0, pri |-> seed[n].pri] ELSE seed[n]]
            /\ cand' = [n \in Names |-> IF n \in D THEN NoCand ELSE cand[n]]
            /\ verdict' = [n \in Names |-> IF n \in D THEN "unverified" ELSE verdict[n]]
            /\ live' = live \ D
            /\ Become(p, [w[p] EXCEPT !.ans = @ \ D,
                     !.pc = IF w[p].todo = {} THEN "record" ELSE "resolve"])
    BY <1>5 DEF Demote
  <2>2. seed' \in [Names -> SeedRow]
    BY <2>1 DEF TypeOK, SeedRow, Status
  <2>3. cand' \in [Names -> CandRow]
    BY <2>1 DEF TypeOK, CandRow, Status, NoCand
  <2>4. verdict' \in [Names -> Verdicts]
    BY <2>1 DEF TypeOK, Verdicts
  <2>5. [w[p] EXCEPT !.ans = @ \ D, !.pc = IF w[p].todo = {} THEN "record" ELSE "resolve"]
          \in Worker
    BY <1>w DEF Worker, PCs
  <2>6. w' \in [Procs -> Worker]
    BY <2>1, <2>5, BecomeTyped
  <2> QED BY <2>1, <2>2, <2>3, <2>4, <2>6, <1>5 DEF Demote, TypeOK, txn, history
<1>6. CASE RecordLearning(p)
  <2>1. PICK C \in SUBSET Names :
            /\ cand' = [n \in Names |-> IF n \in C THEN [cand[n] EXCEPT !.rec = TRUE] ELSE cand[n]]
            /\ stats' = stats + Cardinality(C)
    BY <1>6, <1>w DEF RecordLearning, Worker
  <2>2. cand' \in [Names -> CandRow]
    BY <2>1 DEF TypeOK, CandRow
  <2>3. stats' \in Nat
    BY <2>1, CountTyped DEF TypeOK
  <2>4. w' \in [Procs -> Worker]
    BY <1>6, MoveTyped DEF RecordLearning, PCs
  <2> QED BY <2>2, <2>3, <2>4, <1>6 DEF RecordLearning, TypeOK, txn, history
<1>7. CASE DoneCands(p)
  <2>1. cand' \in [Names -> CandRow]
    BY <1>7 DEF DoneCands, Settle, TypeOK, CandRow, Status
  <2>2. w' \in [Procs -> Worker]
    BY <1>7, MoveTyped DEF DoneCands, PCs
  <2> QED BY <2>1, <2>2, <1>7 DEF DoneCands, TypeOK, txn, history
<1>8. CASE RequeueCands(p)
  <2>1. cand' \in [Names -> CandRow]
    BY <1>8, CandUpdates DEF RequeueCands, TypeOK, Status
  <2>2. w' \in [Procs -> Worker]
    BY <1>8, MoveTyped DEF RequeueCands, PCs
  <2> QED BY <2>1, <2>2, <1>8 DEF RequeueCands, TypeOK, txn, history
<1>9. CASE RequeueSeeds(p)
  <2>1. seed' \in [Names -> SeedRow]
    BY <1>9, SeedUpdates DEF RequeueSeeds, TypeOK, Status
  <2>2. w' \in [Procs -> Worker]
    BY <1>9, MoveTyped DEF RequeueSeeds, PCs
  <2> QED BY <2>1, <2>2, <1>9 DEF RequeueSeeds, TypeOK, txn, history
<1>10. CASE DoneSeeds(p)
  <2>1. seed' \in [Names -> SeedRow]
    BY <1>10, SettledSeedsTyped DEF DoneSeeds
  <2>2. [w[p] EXCEPT !.pc = "claim", !.mode = "wave", !.seeds = {}, !.cands = {}, !.res = EmptyRes]
          \in Worker
    BY <1>w DEF Worker, PCs, Modes, EmptyRes
  <2>3. w' \in [Procs -> Worker]
    BY <2>2, <1>10, BecomeTyped DEF DoneSeeds
  <2> QED BY <2>1, <2>3, <1>10 DEF DoneSeeds, TypeOK, txn, history
<1> QED BY <1>1, <1>2, <1>3, <1>4, <1>5, <1>6, <1>7, <1>8, <1>9, <1>10 DEF Wave

\* One batch: resolution, charges, journals and findings.
LEMMA BatchTyped == ASSUME TypeOK, NEW p \in Procs, Batch(p) PROVE TypeOK'
<1>w. w[p] \in Worker
    BY DEF TypeOK
<1>1. CASE Resolve(p)
  <2> DEFINE B == IF w[p].todo \cap w[p].seeds # {} THEN w[p].todo \cap w[p].seeds ELSE w[p].todo
             res(r) == [n \in Names |-> IF n \in B THEN r[n] ELSE w[p].res[n]]
             out(r) == w[p].out \/ \E n \in B : r[n] = "unstarted"
             next(r) == [w[p] EXCEPT !.pc = "startc", !.cur = B, !.todo = @ \ B,
                                     !.res = res(r), !.out = out(r)]
  <2>1. PICK r \in [B -> Classes] : holds' \in {holds, holds + 1} /\ Become(p, next(r))
    BY <1>1, Zenon DEF Resolve
  <2>2. B \in SUBSET Names /\ w[p].todo \ B \in SUBSET Names
    BY <1>w DEF Worker
  <2>3. res(r) \in [Names -> Classes \cup {"none"}]
    BY <1>w DEF Worker
  <2>4. out(r) \in BOOLEAN
    BY Zenon
  <2>5. next(r) \in Worker
    <3> HIDE DEF B, res, out
    <3> QED BY <1>w, <2>2, <2>3, <2>4, BatchFields
  <2>6. w' \in [Procs -> Worker]
    BY <2>1, <2>5, BecomeTyped
  <2> QED BY <2>1, <2>6, <1>1 DEF Resolve, TypeOK, db, txn
<1>2. CASE StartCands(p)
  <2>1. cand' \in [Names -> CandRow]
    BY <1>2, CandUpdates DEF StartCands, TypeOK, Status
  <2>2. w' \in [Procs -> Worker]
    BY <1>2, MoveTyped DEF StartCands, PCs
  <2> QED BY <2>1, <2>2, <1>2 DEF StartCands, TypeOK, txn, history
<1>3. CASE StartSeeds(p)
  <2>1. seed' \in [Names -> SeedRow]
    BY <1>3, SeedUpdates DEF StartSeeds, TypeOK, Status
  <2>2. w' \in [Procs -> Worker]
    BY <1>3, MoveTyped DEF StartSeeds, PCs
  <2> QED BY <2>1, <2>2, <1>3 DEF StartSeeds, TypeOK, txn, history
<1>4. CASE UnstartSeeds(p)
  <2>1. seed' \in [Names -> SeedRow]
    BY <1>4, SeedUpdates DEF UnstartSeeds, TypeOK, Status
  <2>2. (IF Hosts(p, {"nonexistent", "wildcard"}) = {} THEN "journal" ELSE "proof") \in PCs
    BY DEF PCs
  <2>3. w' \in [Procs -> Worker]
    BY <1>4, <2>2, MoveTyped DEF UnstartSeeds
  <2> QED BY <2>1, <2>3, <1>4 DEF UnstartSeeds, TypeOK, txn, history
<1>5. CASE Journal(p)
  <2>1. verdict' \in [Names -> Verdicts]
    BY <1>5 DEF Journal, TypeOK, Verdicts
  <2>2. cache' \in [Names -> CacheState]
    BY <1>5 DEF Journal, TypeOK, CacheState
  <2>3. failed' \in [Names -> Nat]
    BY <1>5 DEF Journal, TypeOK
  <2>4. w' \in [Procs -> Worker]
    BY <1>5, MoveTyped DEF Journal, PCs
  <2> QED BY <2>1, <2>2, <2>3, <2>4, <1>5 DEF Journal, TypeOK, txn
<1>6. CASE JournalDiscovery(p)
  <2>1. verdict' \in [Names -> Verdicts]
    BY <1>6 DEF JournalDiscovery, TypeOK, Recorded, Verdicts
  <2>2. w' \in [Procs -> Worker]
    BY <1>6, MoveTyped DEF JournalDiscovery, PCs
  <2> QED BY <2>1, <2>2, <1>6 DEF JournalDiscovery, TypeOK, txn, history
<1>7. CASE PersistFindings(p)
  <2>1. PICK F \in SUBSET Names, pc \in PCs :
            /\ live' = live \cup F
            /\ Become(p, [w[p] EXCEPT !.ans = @ \cup F, !.cur = {}, !.pc = pc])
    BY <1>7, <1>w DEF PersistFindings, Hosts, Worker, PCs
  <2>2. [w[p] EXCEPT !.ans = @ \cup F, !.cur = {}, !.pc = pc] \in Worker
    BY <1>w DEF Worker
  <2>3. w' \in [Procs -> Worker]
    BY <2>1, <2>2, BecomeTyped
  <2> QED BY <2>1, <2>3, <1>7 DEF PersistFindings, TypeOK, txn, history
<1>8. CASE QuarantineNonexistent(p)
  <2>1. verdict' \in [Names -> Verdicts] /\ cache' \in [Names -> CacheState]
    BY <1>8 DEF QuarantineNonexistent, TypeOK, Recorded, Forgotten, Verdicts, CacheState
  <2>2. w' \in [Procs -> Worker]
    BY <1>8, MoveTyped DEF QuarantineNonexistent, PCs
  <2> QED BY <2>1, <2>2, <1>8 DEF QuarantineNonexistent, TypeOK, txn, history
<1>9. CASE RecordWildcardMatches(p)
  <2>1. verdict' \in [Names -> Verdicts]
    BY <1>9 DEF RecordWildcardMatches, TypeOK, Recorded, Verdicts
  <2>2. w' \in [Procs -> Worker]
    BY <1>9, MoveTyped DEF RecordWildcardMatches, PCs
  <2> QED BY <2>1, <2>2, <1>9 DEF RecordWildcardMatches, TypeOK, txn, history
<1>10. CASE PurgeWildcards(p)
  <2>1. cache' \in [Names -> CacheState]
    BY <1>10 DEF PurgeWildcards, TypeOK, Forgotten, CacheState
  <2>2. w' \in [Procs -> Worker]
    BY <1>10, MoveTyped DEF PurgeWildcards, PCs
  <2> QED BY <2>1, <2>2, <1>10 DEF PurgeWildcards, TypeOK, txn, history
<1> QED BY <1>1, <1>2, <1>3, <1>4, <1>5, <1>6, <1>7, <1>8, <1>9, <1>10 DEF Batch

\* After the waves: late CT names, enrichment, the end of a run.
LEMMA TailTyped == ASSUME TypeOK, NEW p \in Procs, Closing(p) PROVE TypeOK'
<1>w. w[p] \in Worker
    BY DEF TypeOK
<1>c. w[p].calls + 1 \in Nat
    BY <1>w DEF Worker
<1>1. CASE JoinLateCt(p)
  <2>1. [w[p] EXCEPT !.mode = "late", !.pc = "persist", !.calls = @ + 1] \in Worker
    BY <1>w, <1>c, CallFields DEF Modes
  <2>2. [w[p] EXCEPT !.pc = "enrich"] \in Worker
    BY <1>w DEF Worker, PCs
  <2>3. w' \in [Procs -> Worker]
    BY <2>1, <2>2, <1>1, BecomeTyped DEF JoinLateCt
  <2> QED BY <2>3, <1>1 DEF JoinLateCt, TypeOK, db, txn, history
<1>2. CASE DrainClaim(p)
  <2>1. PICK S \in SUBSET Names, pc \in PCs :
            /\ seed' = SetStatus(seed, S, "processing")
            /\ Become(p, [w[p] EXCEPT !.seeds = S, !.cands = {}, !.res = EmptyRes, !.pc = pc])
    BY <1>2 DEF DrainClaim, PCs
  <2>2. seed' \in [Names -> SeedRow]
    BY <2>1, SeedUpdates DEF TypeOK, Status
  <2>3. [w[p] EXCEPT !.seeds = S, !.cands = {}, !.res = EmptyRes, !.pc = pc] \in Worker
    BY <1>w DEF Worker, EmptyRes
  <2> QED BY <2>1, <2>2, <2>3, <1>2, BecomeTyped DEF DrainClaim, TypeOK, txn, history
<1>3. CASE MarkAnswered(p)
  <2>1. seed' \in [Names -> SeedRow]
    BY <1>3, SettledSeedsTyped DEF MarkAnswered
  <2>2. [w[p] EXCEPT !.seeds = @ \ w[p].ans, !.todo = w[p].seeds \ w[p].ans,
                     !.pc = IF w[p].seeds \subseteq w[p].ans THEN "drain" ELSE "resolve"] \in Worker
    BY <1>w DEF Worker, PCs
  <2>3. w' \in [Procs -> Worker]
    BY <2>2, <1>3, BecomeTyped DEF MarkAnswered
  <2> QED BY <2>1, <2>3, <1>3 DEF MarkAnswered, TypeOK, txn, history
<1>4. CASE Enrich(p)
  <2>1. [w[p] EXCEPT !.mode = "named", !.pc = "persist", !.calls = @ + 1] \in Worker
    BY <1>w, <1>c, CallFields DEF Modes
  <2>2. [w[p] EXCEPT !.pc = "final"] \in Worker
    BY <1>w DEF Worker, PCs
  <2>3. w' \in [Procs -> Worker]
    BY <2>1, <2>2, <1>4, BecomeTyped DEF Enrich
  <2> QED BY <2>3, <1>4 DEF Enrich, TypeOK, db, txn, history
<1>5. CASE ClaimNamed(p)
  <2>1. PICK S \in SUBSET Names, pc \in PCs :
            /\ seed' = SetStatus(seed, S, "processing")
            /\ Become(p, [w[p] EXCEPT !.seeds = S, !.cands = {}, !.todo = S, !.names = {},
                                      !.res = EmptyRes, !.pc = pc])
    BY <1>5, <1>w DEF ClaimNamed, PCs, Claimable
  <2>2. seed' \in [Names -> SeedRow]
    BY <2>1, SeedUpdates DEF TypeOK, Status
  <2>3. [w[p] EXCEPT !.seeds = S, !.cands = {}, !.todo = S, !.names = {},
                     !.res = EmptyRes, !.pc = pc] \in Worker
    BY <1>w DEF Worker, EmptyRes
  <2> QED BY <2>1, <2>2, <2>3, <1>5, BecomeTyped DEF ClaimNamed, TypeOK, txn, history
<1>6. CASE BoundedRequeue(p)
  <2>1. seed' \in [Names -> SeedRow]
    BY <1>6, SeedUpdates DEF BoundedRequeue, TypeOK, Status
  <2>2. w' \in [Procs -> Worker]
    BY <1>6, MoveTyped DEF BoundedRequeue, PCs
  <2> QED BY <2>1, <2>2, <1>6 DEF BoundedRequeue, TypeOK, txn, history
<1>7. CASE BoundedDone(p)
  <2>1. seed' \in [Names -> SeedRow]
    BY <1>7, SettledSeedsTyped DEF BoundedDone
  <2>2. [w[p] EXCEPT !.seeds = {}, !.res = EmptyRes,
                     !.pc = IF w[p].mode = "drain" THEN "drain" ELSE "enrich"] \in Worker
    BY <1>w DEF Worker, PCs, EmptyRes
  <2>3. w' \in [Procs -> Worker]
    BY <2>2, <1>7, BecomeTyped DEF BoundedDone
  <2> QED BY <2>1, <2>3, <1>7 DEF BoundedDone, TypeOK, txn, history
<1>8. CASE Pause(p)
  <2>1. w' \in [Procs -> Worker]
    BY <1>8, OffTyped, BecomeTyped DEF Pause
  <2> QED BY <2>1, <1>8 DEF Pause, TypeOK, db, txn, history
<1>9. CASE Finalize(p)
  <2>1. w' \in [Procs -> Worker]
    BY <1>9, OffTyped, BecomeTyped DEF Finalize
  <2>2. seed' \in [Names -> SeedRow]
    BY <1>9, EmptySeedsTyped DEF Finalize, TypeOK
  <2>3. cand' \in [Names -> CandRow]
    <3>1. NoCand \in CandRow
        BY DEF NoCand, CandRow, Status
    <3>2. \A S : [n \in Names |-> IF n \in S THEN NoCand ELSE cand[n]] \in [Names -> CandRow]
        BY <3>1 DEF TypeOK
    <3>3. cand' = cand \/ \E S : cand' = [n \in Names |-> IF n \in S THEN NoCand ELSE cand[n]]
        BY <1>9, Zenon DEF Finalize
    <3> QED BY <3>2, <3>3 DEF TypeOK
  <2>4. applied' \in BOOLEAN
    BY <1>9 DEF Finalize, TypeOK
  <2> QED BY <2>1, <2>2, <2>3, <2>4, <1>9 DEF Finalize, TypeOK, txn, history
<1> QED BY <1>1, <1>2, <1>3, <1>4, <1>5, <1>6, <1>7, <1>8, <1>9 DEF Closing

LEMMA StepTyped == TypeOK /\ [Next]_vars => TypeOK'
<1> SUFFICES ASSUME TypeOK, [Next]_vars PROVE TypeOK'
    OBVIOUS
<1>1. CASE UNCHANGED vars
    BY <1>1 DEF TypeOK, vars, db, txn, history
<1>2. ASSUME NEW n \in Names, CacheFill(n) PROVE TypeOK'
    BY <1>2 DEF CacheFill, TypeOK, CacheState, txn, history
<1> QED
    BY <1>1, <1>2, PersistTyped, WaveTyped, BatchTyped, TailTyped DEF Next, Work

\* The queues, the journal and the runs keep their types over every interleaving
\* of runs, interruptions and answers of other scans.
THEOREM TypeCorrect == Spec => []TypeOK
<1>1. Init => TypeOK
    BY InitTyped
<1>2. TypeOK /\ [Next]_vars => TypeOK'
    BY StepTyped
<1> QED BY <1>1, <1>2, PTL DEF Spec

-----------------------------------------------------------------------------
(* The two queues are disjoint.                                            *)

\* Apart from inserts, updates keep missing rows missing.
LEMMA UpdatesKeepMissing ==
    ASSUME NEW t, NEW S, NEW n \in Names, t[n].st = "none"
    PROVE  /\ Started(t, S)[n].st = "none"
           /\ Requeued(t, S)[n].st = "none"
           /\ Reopened(t)[n].st = "none"
           /\ (\A m \in S : t[m].st # "none") => SetStatus(t, S, "processing")[n].st = "none"
BY DEF Started, Requeued, Reopened, SetStatus

\* A step that adds rows to neither queue keeps them disjoint.
LEMMA NoInsertDisjoint ==
    ASSUME Disjoint,
           \A n \in Names : seed[n].st = "none" => seed'[n].st = "none",
           \A n \in Names : cand[n].st = "none" => cand'[n].st = "none"
    PROVE  Disjoint'
BY DEF Disjoint

LEMMA StepDisjoint == TypeOK /\ Disjoint /\ [Next]_vars => Disjoint'
<1> SUFFICES ASSUME TypeOK, Disjoint, [Next]_vars PROVE Disjoint'
    OBVIOUS
<1>0. CASE UNCHANGED <<seed, cand>>
    BY <1>0 DEF Disjoint
<1>1. ASSUME NEW p \in Procs, Begin(p) PROVE Disjoint'
    BY <1>1, UpdatesKeepMissing, NoInsertDisjoint DEF Begin
<1>2. ASSUME NEW p \in Procs, CommitPersist(p) PROVE Disjoint'
  <2>1. \A n \in Names : seed'[n].st # "none" => cand'[n] = NoCand
    BY <1>2 DEF CommitPersist
  <2> QED BY <2>1 DEF Disjoint, NoCand
<1>3. ASSUME NEW p \in Procs, ClaimSeeds(p) \/ DrainClaim(p) \/ ClaimNamed(p) PROVE Disjoint'
  <2>1. PICK S \in SUBSET Claimable(seed) :
            seed' = SetStatus(seed, S, "processing") /\ cand' = cand
    BY <1>3 DEF ClaimSeeds, DrainClaim, ClaimNamed, IsPage
  <2> QED BY <2>1, UpdatesKeepMissing, NoInsertDisjoint DEF Claimable
<1>4. ASSUME NEW p \in Procs, RefillQueue(p) PROVE Disjoint'
  <2>1. PICK T \in SUBSET feed : cand' = SetStatus(cand, Fresh(T), "queued") /\ seed' = seed
    BY <1>4 DEF RefillQueue
  <2> QED BY <2>1 DEF Disjoint, SetStatus, Fresh
<1>5. ASSUME NEW p \in Procs, ClaimCands(p) PROVE Disjoint'
  <2>1. PICK S \in SUBSET Claimable(cand) :
            cand' = SetStatus(cand, S, "processing") /\ seed' = seed
    BY <1>5 DEF ClaimCands, IsPage
  <2> QED BY <2>1, UpdatesKeepMissing, NoInsertDisjoint DEF Claimable
<1>6. ASSUME NEW p \in Procs, Demote(p) PROVE Disjoint'
  <2>1. PICK D \in SUBSET (w[p].ans \cap MustRevalidate) :
            /\ seed' = [n \in Names |-> IF n \in D
                        THEN [st |-> "queued", att |-> 0, pri |-> seed[n].pri] ELSE seed[n]]
            /\ cand' = [n \in Names |-> IF n \in D THEN NoCand ELSE cand[n]]
    BY <1>6 DEF Demote
  <2> QED BY <2>1 DEF Disjoint, NoCand
<1>7. ASSUME NEW p \in Procs,
             StartSeeds(p) \/ UnstartSeeds(p) \/ RequeueSeeds(p) \/ BoundedRequeue(p)
      PROVE  Disjoint'
    BY <1>7, UpdatesKeepMissing, NoInsertDisjoint
       DEF StartSeeds, UnstartSeeds, RequeueSeeds, BoundedRequeue
<1>8. ASSUME NEW p \in Procs, StartCands(p) \/ RequeueCands(p) PROVE Disjoint'
    BY <1>8, UpdatesKeepMissing, NoInsertDisjoint DEF StartCands, RequeueCands
<1>9. ASSUME NEW p \in Procs, RecordLearning(p) PROVE Disjoint'
  <2>1. PICK C : cand' = [n \in Names |-> IF n \in C THEN [cand[n] EXCEPT !.rec = TRUE] ELSE cand[n]]
    BY <1>9 DEF RecordLearning
  <2>2. \A n \in Names : cand'[n].st = cand[n].st
    BY <2>1 DEF TypeOK, CandRow
  <2> QED BY <2>2, <1>9 DEF RecordLearning, Disjoint
<1>10. ASSUME NEW p \in Procs, DoneCands(p) PROVE Disjoint'
    BY <1>10, NoInsertDisjoint DEF DoneCands
<1>11. ASSUME NEW p \in Procs, DoneSeeds(p) \/ MarkAnswered(p) \/ BoundedDone(p) PROVE Disjoint'
  <2>1. PICK S : seed' = SettledSeeds(S) /\ cand' = cand
    BY <1>11 DEF DoneSeeds, MarkAnswered, BoundedDone
  <2> QED BY <2>1, NoInsertDisjoint DEF SettledSeeds
<1>12. ASSUME NEW p \in Procs, Finalize(p) PROVE Disjoint'
  <2>1. (seed' = seed /\ cand' = cand) \/ seed' = EmptySeeds
    BY <1>12 DEF Finalize
  <2> QED BY <2>1 DEF Disjoint, EmptySeeds, NoSeed
<1>13. ASSUME NEW p \in Procs,
              \/ Interrupt(p) \/ BeginPersist(p) \/ PersistRow(p) \/ ReadCapacity(p) \/ Resolve(p)
              \/ QuarantineNonexistent(p) \/ RecordWildcardMatches(p) \/ PurgeWildcards(p)
              \/ Journal(p) \/ JournalDiscovery(p) \/ PersistFindings(p)
              \/ JoinLateCt(p) \/ Enrich(p) \/ Pause(p)
       PROVE  UNCHANGED <<seed, cand>>
    BY <1>13 DEF Interrupt, BeginPersist, PersistRow, ReadCapacity, Resolve, Journal,
       QuarantineNonexistent, RecordWildcardMatches, PurgeWildcards, JournalDiscovery, PersistFindings, JoinLateCt, Enrich, Pause, db
<1>14. (\E n \in Names : CacheFill(n)) \/ UNCHANGED vars => UNCHANGED <<seed, cand>>
    BY DEF CacheFill, vars, db
<1> QED
    BY <1>0, <1>1, <1>2, <1>3, <1>4, <1>5, <1>6, <1>7, <1>8, <1>9, <1>10, <1>11, <1>12, <1>13,
       <1>14 DEF Next, Work, Wave, Batch, Persist, Closing

\* A name is never in both queues, whatever runs overlap and wherever they are
\* interrupted.
THEOREM QueuesDisjoint == Spec => []Disjoint
<1>1. Init => Disjoint
    BY DEF Init, EmptySeeds, NoSeed, Disjoint
<1>2. TypeOK /\ Disjoint /\ [Next]_vars => Disjoint'
    BY StepDisjoint
<1> QED BY <1>1, <1>2, TypeCorrect, PTL DEF Spec

-----------------------------------------------------------------------------
(* Where a run stands.                                                     *)

\* The wave is being claimed; a group of its hosts is resolved; its rows are
\* resolved or about to be.
Claiming == {"capacity", "refill", "claimc"}
InBatch == {"startc", "starts", "unstart", "proof", "match", "purge", "journal", "djournal",
            "findings"}
Working == {"demote", "resolve"} \cup InBatch
Settling == {"record", "donec", "requeuec", "requeues", "dones"}

\* A run that is not stopped is alone, unless leases may expire under a run.
Alone ==
    ~Overlap => \A p, q \in Procs : w[p].pc # "off" /\ w[q].pc # "off" => p = q

\* The mode of a run follows its control point; a refill is the only use of a
\* capacity; the hosts being resolved are no longer to do; the bounded batches
\* hold no active candidate.
ShapeOf(r) ==
    /\ r.pc # "refill" => r.cap = 0
    /\ r.pc \in {"persist", "row"} => r.mode # "wave"
    /\ r.pc \in {"claim", "demote"} \cup Claiming \cup Settling => r.mode \in {"first", "wave"}
    /\ r.pc \in {"drain", "answered"} => r.mode = "drain"
    /\ r.pc = "named" => r.mode = "named"
    /\ r.pc \in {"resolve"} \cup InBatch => r.mode # "late"
    /\ r.pc \in {"brequeue", "bdone"} => r.mode \in {"drain", "named"}
    /\ r.pc \in {"answered", "resolve", "brequeue", "bdone"} \cup InBatch
         => r.mode \notin {"drain", "named"} \/ r.cands = {}
    /\ r.pc \in InBatch => r.cur \cap r.todo = {}
Shape == \A p \in Procs : ShapeOf(w[p])

\* A missing row has no attempts.
BlankRows(t) == \A n \in Names : t[n].st = "none" => t[n].att = 0
Blank == BlankRows(seed) /\ BlankRows(cand) /\ BlankRows(wk)

-----------------------------------------------------------------------------
(* The open transaction of a persist.                                      *)

\* A new row that no name still to be persisted can displace beats priority k.
Beaten(k) ==
    \E m \in Names : /\ seed[m].st = "none" /\ wk[m].st # "none" /\ wk[m].pri > k
                     /\ \A r \in w[lock].pay : w[lock].pri[r] <= wk[m].pri

KeptRow(n) ==
    seed[n].st # "none" /\ wk[n].st # "none" =>
        /\ wk[n].st = seed[n].st /\ wk[n].att = seed[n].att
        /\ wk[n].pri >= seed[n].pri \/ Beaten(seed[n].pri)
AddedRow(n) ==
    seed[n].st = "none" /\ wk[n].st # "none" => wk[n].st = "queued" /\ wk[n].att = 0
EvictedRow(n) ==
    seed[n].st # "none" /\ wk[n].st = "none" =>
        seed[n].st = "queued" /\ seed[n].att = 0 /\ Beaten(seed[n].pri)

Persisting ==
    lock # NoProc =>
        /\ w[lock].pc = "row"
        /\ \A n \in Names : KeptRow(n) /\ AddedRow(n) /\ EvictedRow(n)

-----------------------------------------------------------------------------
(* Claims and charges.                                                     *)

\* The claims of a run that is alone, by control point.
HoldsSeed(p, n) ==
    \/ /\ w[p].pc \in Claiming \cup Working
                        \cup {"record", "donec", "requeuec", "requeues", "answered", "brequeue"}
       /\ n \in w[p].seeds
    \/ w[p].pc = "dones" /\ n \in Terminal(p)
    \/ w[p].pc = "bdone" /\ n \in w[p].seeds \ Outstanding(p)
HoldsCand(p, n) ==
    \/ w[p].pc \in Working \cup {"record", "donec"} /\ n \in w[p].cands
    \/ w[p].pc = "requeuec" /\ n \in NotStarted(p)

\* A run that is alone holds every row in 'processing'; what it holds has a row,
\* and its active rows are open.
Holding(p) ==
    \A n \in Names :
        /\ seed[n].st = "processing" => HoldsSeed(p, n)
        /\ cand[n].st = "processing" => HoldsCand(p, n)
        /\ w[p].pc \in Claiming \cup Working \cup {"record", "donec", "answered"} /\ n \in w[p].seeds
             => seed[n].st # "none"
        /\ w[p].pc \in Working \cup {"record", "donec"} /\ n \in w[p].cands
             => cand[n].st \in {"processing", "none"}
ClaimsHeld == ~Overlap => \A p \in Procs : w[p].pc # "off" => Holding(p)

\* A run that has claimed a name and not yet charged it: it may still do so once.
MayCharge(p, n) ==
    \/ w[p].pc \in Claiming \cup {"answered"} /\ n \in w[p].seeds
    \/ w[p].pc \in Working /\ n \in w[p].todo
    \/ w[p].pc = "startc" /\ n \in w[p].cur
MayChargeSeed(p, n) == MayCharge(p, n) \/ (w[p].pc = "starts" /\ n \in w[p].cur)
CandChargers(n) == {p \in Procs : MayCharge(p, n)}
SeedChargers(n) == {p \in Procs : MayChargeSeed(p, n)}

\* Runs that may be alive at once.
Width == IF Overlap \/ Procs = {} THEN Cardinality(Procs) ELSE 1

\* A claim needs budget, so only the runs that claimed a row before it was spent
\* can charge it beyond, each once.
Charged ==
    \A n \in Names :
        /\ seed[n].att + Cardinality(SeedChargers(n)) <= MaxAttempts - 1 + Width
        /\ cand[n].att + Cardinality(CandChargers(n)) <= MaxAttempts - 1 + Width

-----------------------------------------------------------------------------
(* The budget of generated names.                                          *)

Uncounted == {n \in Names : cand[n].st # "none" /\ ~cand[n].rec}

\* The capacity a run has read is still free when it uses it.
Counted ==
    ~Overlap => /\ stats + Cardinality(Uncounted) <= MaxWords
                /\ \A p \in Procs : stats + Cardinality(Uncounted) + w[p].cap <= MaxWords

-----------------------------------------------------------------------------
(* The row that is evicted.                                                *)

\* m is evicted before n.
Sooner(t, m, n) == t[m].pri < t[n].pri \/ (t[m].pri = t[n].pri /\ m > n)

\* CHOOSE finds a row: the finite sets of rows that go before a given one have a
\* minimum for inclusion, which is empty.
LEMMA LowestEvictable ==
    ASSUME NEW t \in [Names -> SeedRow], Evictable(t) # {}
    PROVE  Lowest(t) \in Evictable(t)
<1> DEFINE E == Evictable(t)
           Prior(n) == {m \in E : Sooner(t, m, n)}
           T == {Prior(n) : n \in E}
<1>1. E \subseteq Names /\ E # {} /\ IsFiniteSet(E)
    BY NamesAssumption, FS_Subset DEF Evictable
<1>2. \A n \in E : n \in Nat /\ t[n].pri \in Nat
    BY <1>1, NamesAssumption DEF SeedRow
<1> HIDE DEF E
<1>3. T # {} /\ T \subseteq FiniteSubsetsOf(E)
  <2>1. \A n \in E : Prior(n) \subseteq E /\ IsFiniteSet(Prior(n))
    BY <1>1, FS_Subset
  <2> QED BY <1>1, <2>1 DEF FiniteSubsetsOf
<1>4. PICK x \in T : \A y \in T : <<y, x>> \notin StrictSubsetOrdering(E)
    BY <1>3, FS_StrictSubsetOrderingWellFounded, WFMin
<1>5. PICK n \in E : x = Prior(n)
    BY <1>4
<1>6. ASSUME NEW m \in E, Sooner(t, m, n) PROVE FALSE
  <2>1. Prior(m) \subseteq Prior(n)
    BY <1>2, <1>6 DEF Sooner
  <2>2. m \in Prior(n) /\ m \notin Prior(m)
    BY <1>2, <1>6 DEF Sooner
  <2>3. <<Prior(m), x>> \in StrictSubsetOrdering(E)
    BY <1>5, <2>1, <2>2 DEF StrictSubsetOrdering
  <2> QED BY <1>4, <2>3
<1>7. \A m \in E : t[n].pri < t[m].pri \/ (t[n].pri = t[m].pri /\ n >= m)
    BY <1>2, <1>6 DEF Sooner
<1> QED BY <1>7 DEF Lowest, E

-----------------------------------------------------------------------------
(* One step moves one run.                                                 *)

\* A step that sets the state of a run leaves the others as they were.
LEMMA BecomeMoves ==
    ASSUME TypeOK, NEW p \in Procs, NEW r, Become(p, r)
    PROVE  w'[p] = r /\ \A q \in Procs \ {p} : w'[q] = w[q]
BY DEF TypeOK, Become

\* A run that works or is interrupted had been started, and moves alone.
LEMMA OneMoves ==
    ASSUME TypeOK, NEW p \in Procs, Work(p) \/ Interrupt(p)
    PROVE  w[p].pc # "off" /\ \A q \in Procs \ {p} : w'[q] = w[q]
<1>1. CASE Interrupt(p)
    BY <1>1, BecomeMoves DEF Interrupt, At
<1>2. CASE Wave(p)
    BY <1>2, BecomeMoves DEF Wave, ClaimSeeds, ReadCapacity, RefillQueue, ClaimCands, Demote,
       RecordLearning, DoneCands, RequeueCands, RequeueSeeds, DoneSeeds, At
<1>3. CASE Batch(p)
    BY <1>3, BecomeMoves DEF Batch, Resolve, StartCands, StartSeeds, UnstartSeeds,
       QuarantineNonexistent, RecordWildcardMatches, PurgeWildcards, Journal, JournalDiscovery,
       PersistFindings, At
<1>4. CASE Persist(p)
    BY <1>4, BecomeMoves DEF Persist, BeginPersist, PersistRow, CommitPersist, At
<1>5. CASE Closing(p)
    BY <1>5, BecomeMoves DEF Closing, JoinLateCt, DrainClaim, MarkAnswered, Enrich, ClaimNamed,
       BoundedRequeue, BoundedDone, Pause, Finalize, At
<1> QED BY <1>1, <1>2, <1>3, <1>4, <1>5 DEF Work

\* Begin waits for the other runs to stop, so exclusive runs stay alone.
LEMMA StepAlone == TypeOK /\ Alone /\ [Next]_vars => Alone'
<1> SUFFICES ASSUME TypeOK, Alone, [Next]_vars, ~Overlap PROVE Alone'
    BY DEF Alone
<1>1. ASSUME NEW p \in Procs, Begin(p) PROVE Alone'
  <2>1. \A q \in Procs : w[q].pc = "off"
    BY <1>1 DEF Begin, At
  <2>2. \A q \in Procs \ {p} : w'[q] = w[q]
    BY <1>1, BecomeMoves DEF Begin
  <2> QED BY <2>1, <2>2 DEF Alone
<1>2. ASSUME NEW p \in Procs, Work(p) \/ Interrupt(p) PROVE Alone'
    BY <1>2, OneMoves DEF Alone
<1>3. CASE w' = w
    BY <1>3 DEF Alone
<1> QED BY <1>1, <1>2, <1>3 DEF Next, CacheFill, vars

\* In an exclusive scan a run that works is the only one that is not off.
LEMMA OthersOff ==
    ASSUME Alone, ~Overlap, NEW p \in Procs, w[p].pc # "off"
    PROVE  \A q \in Procs \ {p} : w[q].pc = "off"
BY DEF Alone


\* What the two steps that store conditions in the state of a run do to its other
\* fields: a claim of seeds, ...
LEMMA ClaimFields ==
    ASSUME NEW r \in Worker, NEW S, NEW g \in BOOLEAN, NEW a \in BOOLEAN, NEW d \in BOOLEAN
    PROVE  LET u == [r EXCEPT !.pc = "capacity", !.seeds = S, !.cands = {}, !.res = EmptyRes,
                              !.gen = g, !.nat = a, !.draining = d] IN
           /\ u.pc = "capacity" /\ u.seeds = S /\ u.cands = {}
           /\ u.mode = r.mode /\ u.cap = r.cap /\ u.ans = r.ans
BY DEF Worker

\* The whole step of a claim of seeds.
LEMMA ClaimSeedsMoves ==
    ASSUME TypeOK, NEW p \in Procs, ClaimSeeds(p)
    PROVE  /\ w[p].pc = "claim" /\ w'[p].pc = "capacity" /\ w'[p].cands = {}
           /\ w'[p].mode = w[p].mode /\ w'[p].cap = w[p].cap /\ w'[p].ans = w[p].ans
           /\ \E S \in SUBSET Names : /\ S \subseteq Claimable(seed) /\ w'[p].seeds = S
                                     /\ seed' = SetStatus(seed, S, "processing")
<1> DEFINE g(stop) == w[p].gen /\ ~stop /\ ~w[p].out
           a(stop) == w[p].nat \/ stop
           d == w[p].draining /\ (w[p].mode = "wave" /\ ~w[p].out => Claimable(cand) # {})
<1>1. PICK S \in SUBSET Names, stop \in BOOLEAN :
        /\ IsPage(S, Claimable(seed), SeedPriority, SeedLimit)
        /\ seed' = SetStatus(seed, S, "processing")
        /\ Become(p, [w[p] EXCEPT !.pc = "capacity", !.seeds = S, !.cands = {}, !.res = EmptyRes,
                                  !.gen = g(stop), !.nat = a(stop), !.draining = d])
    BY Zenon DEF ClaimSeeds
<1>2. g(stop) \in BOOLEAN /\ a(stop) \in BOOLEAN /\ d \in BOOLEAN
    BY Zenon
<1> HIDE DEF g, a, d
<1>3. w[p] \in Worker
    BY DEF TypeOK
<1>4. w'[p] = [w[p] EXCEPT !.pc = "capacity", !.seeds = S, !.cands = {}, !.res = EmptyRes,
                           !.gen = g(stop), !.nat = a(stop), !.draining = d]
    BY <1>1, BecomeMoves, Zenon
<1>5. /\ w'[p].pc = "capacity" /\ w'[p].seeds = S /\ w'[p].cands = {}
      /\ w'[p].mode = w[p].mode /\ w'[p].cap = w[p].cap /\ w'[p].ans = w[p].ans
    BY <1>2, <1>3, <1>4, ClaimFields
<1> QED BY <1>1, <1>5, Zenon DEF IsPage, ClaimSeeds, At

\* ... and the resolution of a group of hosts.
LEMMA ResolveFields ==
    ASSUME NEW r \in Worker, NEW B, NEW T, NEW f, NEW o \in BOOLEAN
    PROVE  LET u == [r EXCEPT !.pc = "startc", !.cur = B, !.todo = T, !.res = f, !.out = o] IN
           /\ u.pc = "startc" /\ u.cur = B /\ u.todo = T /\ u.res = f /\ u.ans = r.ans
           /\ u.seeds = r.seeds /\ u.cands = r.cands /\ u.mode = r.mode /\ u.cap = r.cap
BY DEF Worker

\* The whole step of a resolution.
LEMMA ResolveMoves ==
    ASSUME TypeOK, NEW p \in Procs, Resolve(p)
    PROVE  /\ w[p].pc = "resolve" /\ w'[p].pc = "startc"
           /\ w'[p].seeds = w[p].seeds /\ w'[p].cands = w[p].cands
           /\ w'[p].mode = w[p].mode /\ w'[p].cap = w[p].cap
           /\ w'[p].cur \subseteq w[p].todo /\ w'[p].todo = w[p].todo \ w'[p].cur
           /\ seed' = seed /\ cand' = cand /\ w'[p].ans = w[p].ans
           /\ \A n \in Names : IF n \in w'[p].cur THEN Possible(p, n, w'[p].res[n])
                                                ELSE w'[p].res[n] = w[p].res[n]
<1> DEFINE B == IF w[p].todo \cap w[p].seeds # {} THEN w[p].todo \cap w[p].seeds ELSE w[p].todo
           f(r) == [n \in Names |-> IF n \in B THEN r[n] ELSE w[p].res[n]]
           o(r) == w[p].out \/ \E n \in B : r[n] = "unstarted"
<1>1. PICK r : /\ \A n \in B : Possible(p, n, r[n])
               /\ Become(p, [w[p] EXCEPT !.pc = "startc", !.cur = B, !.todo = w[p].todo \ B,
                                         !.res = f(r), !.out = o(r)])
    BY Zenon DEF Resolve
<1>2. o(r) \in BOOLEAN /\ B \subseteq w[p].todo
    BY Zenon
<1>6. \A n \in Names : f(r)[n] = IF n \in B THEN r[n] ELSE w[p].res[n]
    BY Zenon
<1> HIDE DEF B, f, o
<1>3. w[p] \in Worker
    BY DEF TypeOK
<1>4. w'[p] = [w[p] EXCEPT !.pc = "startc", !.cur = B, !.todo = w[p].todo \ B, !.res = f(r),
                           !.out = o(r)]
    BY <1>1, BecomeMoves, Zenon
<1>5. /\ w'[p].pc = "startc" /\ w'[p].cur = B /\ w'[p].todo = w[p].todo \ B
      /\ w'[p].res = f(r) /\ w'[p].ans = w[p].ans
      /\ w'[p].seeds = w[p].seeds /\ w'[p].cands = w[p].cands
      /\ w'[p].mode = w[p].mode /\ w'[p].cap = w[p].cap
    BY <1>2, <1>3, <1>4, ResolveFields
<1>7. \A n \in Names : IF n \in w'[p].cur THEN Possible(p, n, w'[p].res[n])
                                         ELSE w'[p].res[n] = w[p].res[n]
    BY <1>1, <1>5, <1>6, Zenon
<1> QED BY <1>2, <1>5, <1>7, Zenon DEF Resolve, At, db
-----------------------------------------------------------------------------
(* The mode and the fields of a run follow its control point.              *)

\* The control points that only pass the state of the run on.
LEMMA MovesShaped ==
    ASSUME NEW r \in Worker, ShapeOf(r), NEW pc \in PCs,
           \/ r.pc \in InBatch \ {"findings"} /\ pc \in InBatch
           \/ r.pc \in Settling /\ pc \in Settling
           \/ r.pc = "brequeue" /\ pc = "bdone"
    PROVE  ShapeOf([r EXCEPT !.pc = pc])
BY DEF ShapeOf, Worker, Claiming, InBatch, Settling

\* A stopped run and one that has just started have their shape.
LEMMA OffShaped == ShapeOf(Off) /\ ShapeOf([Off EXCEPT !.pc = "persist"])
BY DEF ShapeOf, Off, Claiming, InBatch, Settling

\* The start, the end and the persists of a run keep its shape.
LEMMA PersistShaped ==
    ASSUME TypeOK, Shape, NEW p \in Procs, Begin(p) \/ Interrupt(p) \/ Persist(p)
    PROVE  ShapeOf(w'[p])
<1>w. w[p] \in Worker /\ ShapeOf(w[p])
    BY DEF TypeOK, Shape
<1>1. CASE Begin(p) \/ Interrupt(p)
    BY <1>1, BecomeMoves, OffShaped DEF Begin, Interrupt
<1>2. CASE BeginPersist(p)
  <2>1. PICK S, f : w'[p] = [w[p] EXCEPT !.pc = "row", !.pay = S, !.pri = f, !.names = S]
    BY <1>2, BecomeMoves DEF BeginPersist
  <2> QED BY <1>w, <1>2, <2>1 DEF BeginPersist, At, ShapeOf, Worker, Claiming, InBatch, Settling
<1>3. CASE PersistRow(p)
  <2>1. PICK S : w'[p] = [w[p] EXCEPT !.pay = S]
    BY <1>3, BecomeMoves DEF PersistRow
  <2> QED BY <1>w, <2>1 DEF ShapeOf, Worker
<1>4. CASE CommitPersist(p)
  <2>1. w'[p] = [w[p] EXCEPT
        !.pri = [n \in Names |-> 0],
        !.names = IF w[p].mode = "named" THEN @ ELSE {},
        !.mode = IF @ = "late" THEN "drain" ELSE @,
        !.pc = CASE w[p].mode = "first" -> "claim"
                    [] w[p].mode = "late" -> "persist"
                    [] w[p].mode = "drain" -> "drain"
                    [] OTHER -> "named",
        !.ans = IF w[p].mode = "first" THEN LiveAnswers ELSE @,
        !.draining = IF w[p].mode = "first" THEN Claimable(cand') # {} ELSE @]
    BY <1>4, BecomeMoves DEF CommitPersist
  <2>2. /\ w'[p].mode = IF w[p].mode = "late" THEN "drain" ELSE w[p].mode
        /\ w'[p].pc = CASE w[p].mode = "first" -> "claim"
                         [] w[p].mode = "late" -> "persist"
                         [] w[p].mode = "drain" -> "drain"
                         [] OTHER -> "named"
        /\ w'[p].cap = w[p].cap
    BY <1>w, <2>1 DEF Worker
  <2>3. w[p].mode \in {"first", "late", "drain", "named"} /\ w[p].cap = 0
    BY <1>w, <1>4 DEF CommitPersist, At, ShapeOf, Worker, Modes
  <2> QED BY <2>2, <2>3 DEF ShapeOf, Claiming, InBatch, Settling
<1> QED BY <1>1, <1>2, <1>3, <1>4 DEF Persist

\* So do the transactions of a wave,
LEMMA WaveShaped == ASSUME TypeOK, Shape, NEW p \in Procs, Wave(p) PROVE ShapeOf(w'[p])
<1>w. w[p] \in Worker /\ ShapeOf(w[p])
    BY DEF TypeOK, Shape
<1> USE DEF At, Claiming, InBatch, Settling
<1>1. CASE ClaimSeeds(p)
    BY <1>w, <1>1, ClaimSeedsMoves DEF ShapeOf
<1>2. CASE ReadCapacity(p)
  <2>1. PICK c : w'[p] = [w[p] EXCEPT !.pc = "refill", !.cap = c]
    BY <1>2, BecomeMoves, Zenon DEF ReadCapacity
  <2> QED BY <1>w, <1>2, <2>1 DEF ReadCapacity, ShapeOf, Worker
<1>3. CASE RefillQueue(p)
  <2>1. w'[p] = [w[p] EXCEPT !.pc = "claimc", !.cap = 0]
    BY <1>3, BecomeMoves DEF RefillQueue
  <2> QED BY <1>w, <1>3, <2>1 DEF RefillQueue, ShapeOf, Worker
<1>4. CASE ClaimCands(p)
  <2>1. PICK S : w'[p] = [w[p] EXCEPT !.cands = S, !.todo = w[p].seeds \cup S,
            !.pc = CASE w[p].mode = "first" -> "demote"
                        [] w[p].mode = "wave" /\ w[p].seeds \cup S # {} -> "resolve"
                        [] w[p].mode = "wave" /\ w[p].seeds \cup S = {} /\ ~w[p].out
                              /\ w[p].gen /\ FeedsMore -> "claim"
                        [] OTHER -> "late"]
    BY <1>4, BecomeMoves DEF ClaimCands
  <2>2. w'[p].mode = w[p].mode /\ w'[p].cap = w[p].cap
        /\ w'[p].pc \in {"late", IF w[p].mode = "first" THEN "demote" ELSE "resolve", "claim"}
    BY <1>w, <2>1 DEF Worker
  <2>3. w[p].mode \in {"first", "wave"} /\ w[p].cap = 0
    BY <1>w, <1>4 DEF ClaimCands, ShapeOf
  <2> QED BY <2>2, <2>3 DEF ShapeOf
<1>5. CASE Demote(p)
  <2>1. PICK D : w'[p] = [w[p] EXCEPT !.ans = @ \ D,
                     !.pc = IF w[p].todo = {} THEN "record" ELSE "resolve"]
    BY <1>5, BecomeMoves DEF Demote
  <2> QED BY <1>w, <1>5, <2>1 DEF Demote, ShapeOf, Worker
<1>6. CASE RecordLearning(p) \/ DoneCands(p) \/ RequeueCands(p) \/ RequeueSeeds(p)
  <2>1. PICK pc \in Settling : w'[p] = [w[p] EXCEPT !.pc = pc]
    BY <1>6, BecomeMoves DEF RecordLearning, DoneCands, RequeueCands, RequeueSeeds
  <2>2. w[p].pc \in Settling
    BY <1>6 DEF RecordLearning, DoneCands, RequeueCands, RequeueSeeds
  <2>3. pc \in PCs
    BY <2>1 DEF PCs
  <2> QED BY <1>w, <2>1, <2>2, <2>3, MovesShaped
<1>7. CASE DoneSeeds(p)
  <2>1. w'[p] = [w[p] EXCEPT !.pc = "claim", !.mode = "wave", !.seeds = {}, !.cands = {},
                             !.res = EmptyRes]
    BY <1>7, BecomeMoves DEF DoneSeeds
  <2> QED BY <1>w, <1>7, <2>1 DEF DoneSeeds, ShapeOf, Worker
<1> QED BY <1>1, <1>2, <1>3, <1>4, <1>5, <1>6, <1>7 DEF Wave

\* those of a group of hosts,
LEMMA BatchShaped == ASSUME TypeOK, Shape, NEW p \in Procs, Batch(p) PROVE ShapeOf(w'[p])
<1>w. w[p] \in Worker /\ ShapeOf(w[p])
    BY DEF TypeOK, Shape
<1> USE DEF At, Claiming, InBatch, Settling
<1>1. CASE Resolve(p)
    BY <1>w, <1>1, ResolveMoves DEF ShapeOf
<1>2. CASE \/ StartCands(p) \/ StartSeeds(p) \/ UnstartSeeds(p) \/ QuarantineNonexistent(p)
           \/ RecordWildcardMatches(p) \/ PurgeWildcards(p) \/ Journal(p) \/ JournalDiscovery(p)
  <2>1. PICK pc \in InBatch : w'[p] = [w[p] EXCEPT !.pc = pc]
    BY <1>2, BecomeMoves DEF StartCands, StartSeeds, UnstartSeeds, QuarantineNonexistent,
       RecordWildcardMatches, PurgeWildcards, Journal, JournalDiscovery
  <2>2. w[p].pc \in InBatch \ {"findings"}
    BY <1>2 DEF StartCands, StartSeeds, UnstartSeeds, QuarantineNonexistent,
       RecordWildcardMatches, PurgeWildcards, Journal, JournalDiscovery
  <2> QED BY <1>w, <2>1, <2>2, MovesShaped DEF PCs
<1>3. CASE PersistFindings(p)
  <2>1. PICK F : w'[p] = [w[p] EXCEPT !.ans = @ \cup F, !.cur = {},
            !.pc = CASE w[p].todo # {} -> "resolve"
                        [] w[p].todo = {} /\ Bounded(p) -> "brequeue"
                        [] OTHER -> "record"]
    BY <1>3, BecomeMoves DEF PersistFindings
  <2>2. /\ w'[p].mode = w[p].mode /\ w'[p].cap = w[p].cap /\ w'[p].cands = w[p].cands
        /\ w'[p].pc = "resolve" \/ (w'[p].pc = "brequeue" /\ Bounded(p))
             \/ (w'[p].pc = "record" /\ ~Bounded(p))
    BY <1>w, <2>1 DEF Worker
  <2>3. w[p].mode \in {"first", "wave", "drain", "named"} /\ w[p].cap = 0
        /\ (Bounded(p) => w[p].cands = {})
    BY <1>w, <1>3 DEF PersistFindings, ShapeOf, Worker, Modes, Bounded
  <2> QED BY <2>2, <2>3 DEF ShapeOf, Bounded
<1> QED BY <1>1, <1>2, <1>3 DEF Batch

\* and those that follow the waves.
LEMMA ClosingShaped == ASSUME TypeOK, Shape, NEW p \in Procs, Closing(p) PROVE ShapeOf(w'[p])
<1>w. w[p] \in Worker /\ ShapeOf(w[p])
    BY DEF TypeOK, Shape
<1> USE DEF At, Claiming, InBatch, Settling
<1>1. CASE JoinLateCt(p) \/ Enrich(p)
  <2>1. \/ \E m \in {"late", "named"} :
                w'[p] = [w[p] EXCEPT !.mode = m, !.pc = "persist", !.calls = w[p].calls + 1]
        \/ \E pc \in {"enrich", "final"} : w'[p] = [w[p] EXCEPT !.pc = pc]
    BY <1>1, BecomeMoves DEF JoinLateCt, Enrich
  <2>2. w'[p].cap = w[p].cap /\ w[p].pc \in {"late", "enrich"}
        /\ (w'[p].pc \in {"enrich", "final"} \/ (w'[p].pc = "persist" /\ w'[p].mode # "wave"))
    BY <1>w, <1>1, <2>1 DEF JoinLateCt, Enrich, Worker
  <2> QED BY <1>w, <2>2 DEF ShapeOf
<1>2. CASE DrainClaim(p)
  <2>1. PICK S \in SUBSET Names, pc \in {"enrich", "answered"} :
            w'[p] = [w[p] EXCEPT !.seeds = S, !.cands = {}, !.res = EmptyRes, !.pc = pc]
    BY <1>2, BecomeMoves DEF DrainClaim
  <2> QED BY <1>w, <1>2, <2>1 DEF DrainClaim, ShapeOf, Worker
<1>3. CASE MarkAnswered(p)
  <2>1. w'[p] = [w[p] EXCEPT !.seeds = @ \ w[p].ans, !.todo = w[p].seeds \ w[p].ans,
                             !.pc = IF w[p].seeds \subseteq w[p].ans THEN "drain" ELSE "resolve"]
    BY <1>3, BecomeMoves DEF MarkAnswered
  <2> QED BY <1>w, <1>3, <2>1 DEF MarkAnswered, ShapeOf, Worker
<1>4. CASE ClaimNamed(p)
  <2>1. PICK S : w'[p] = [w[p] EXCEPT !.seeds = S, !.cands = {}, !.todo = S, !.names = {},
                              !.res = EmptyRes, !.pc = IF S = {} THEN "enrich" ELSE "resolve"]
    BY <1>4, BecomeMoves DEF ClaimNamed
  <2> QED BY <1>w, <1>4, <2>1 DEF ClaimNamed, ShapeOf, Worker
<1>5. CASE BoundedRequeue(p)
    BY <1>5, <1>w, BecomeMoves, MovesShaped DEF BoundedRequeue, PCs
<1>6. CASE BoundedDone(p)
  <2>1. w'[p] = [w[p] EXCEPT !.seeds = {}, !.res = EmptyRes,
                     !.pc = IF w[p].mode = "drain" THEN "drain" ELSE "enrich"]
    BY <1>6, BecomeMoves DEF BoundedDone
  <2> QED BY <1>w, <1>6, <2>1 DEF BoundedDone, ShapeOf, Worker
<1>7. CASE Pause(p) \/ Finalize(p)
    BY <1>7, BecomeMoves, OffShaped DEF Pause, Finalize
<1> QED BY <1>1, <1>2, <1>3, <1>4, <1>5, <1>6, <1>7 DEF Closing

\* Shape is inductive.
LEMMA StepShape == TypeOK /\ Shape /\ [Next]_vars => Shape'
<1> SUFFICES ASSUME TypeOK, Shape, [Next]_vars PROVE Shape'
    OBVIOUS
<1>1. ASSUME NEW p \in Procs, Begin(p) \/ Work(p) \/ Interrupt(p) PROVE Shape'
  <2>1. ShapeOf(w'[p])
    BY <1>1, PersistShaped, WaveShaped, BatchShaped, ClosingShaped DEF Work
  <2>2. \A q \in Procs \ {p} : w'[q] = w[q]
    BY <1>1, OneMoves, BecomeMoves DEF Begin
  <2> QED BY <2>1, <2>2 DEF Shape
<1>2. CASE w' = w
    BY <1>2 DEF Shape
<1> QED BY <1>1, <1>2 DEF Next, CacheFill, vars

-----------------------------------------------------------------------------
(* What an update does to one row.                                         *)

\* A claim of passive rows,
LEMMA SetSeedRow ==
    ASSUME NEW t \in [Names -> SeedRow], NEW S, NEW st, NEW n \in Names
    PROVE  /\ SetStatus(t, S, st)[n].st = (IF n \in S THEN st ELSE t[n].st)
           /\ SetStatus(t, S, st)[n].att = t[n].att
BY DEF SetStatus, SeedRow

\* the charge of a sent query,
LEMMA StartSeedRow ==
    ASSUME NEW t \in [Names -> SeedRow], NEW S, NEW n \in Names
    PROVE  /\ Started(t, S)[n].st = t[n].st
           /\ Started(t, S)[n].att =
                (IF n \in S /\ t[n].st = "processing" THEN t[n].att + 1 ELSE t[n].att)
BY DEF Started, SeedRow

\* the return of a reservation,
LEMMA RequeueSeedRow ==
    ASSUME NEW t \in [Names -> SeedRow], NEW S, NEW n \in Names
    PROVE  /\ Requeued(t, S)[n].st =
                (IF n \in S /\ t[n].st = "processing" THEN "queued" ELSE t[n].st)
           /\ Requeued(t, S)[n].att = t[n].att
BY DEF Requeued, SeedRow

\* and the reopening of a scan, row by row.
LEMMA ReopenSeedRow ==
    ASSUME NEW t \in [Names -> SeedRow], NEW n \in Names
    PROVE  /\ Reopened(t)[n].st = (IF t[n].st \in {"queued", "processing"}
                                   THEN IF t[n].att >= MaxAttempts THEN "done" ELSE "queued"
                                   ELSE t[n].st)
           /\ Reopened(t)[n].att = t[n].att
BY DEF Reopened, SeedRow

\* The same updates of active rows: claim or insertion,
LEMMA SetCandRow ==
    ASSUME NEW t \in [Names -> CandRow], NEW S, NEW st, NEW n \in Names
    PROVE  /\ SetStatus(t, S, st)[n].st = (IF n \in S THEN st ELSE t[n].st)
           /\ SetStatus(t, S, st)[n].att = t[n].att
           /\ SetStatus(t, S, st)[n].rec = t[n].rec
BY DEF SetStatus, CandRow

\* charge,
LEMMA StartCandRow ==
    ASSUME NEW t \in [Names -> CandRow], NEW S, NEW n \in Names
    PROVE  /\ Started(t, S)[n].st = t[n].st
           /\ Started(t, S)[n].att =
                (IF n \in S /\ t[n].st = "processing" THEN t[n].att + 1 ELSE t[n].att)
           /\ Started(t, S)[n].rec = t[n].rec
BY DEF Started, CandRow

\* return
LEMMA RequeueCandRow ==
    ASSUME NEW t \in [Names -> CandRow], NEW S, NEW n \in Names
    PROVE  /\ Requeued(t, S)[n].st =
                (IF n \in S /\ t[n].st = "processing" THEN "queued" ELSE t[n].st)
           /\ Requeued(t, S)[n].att = t[n].att
           /\ Requeued(t, S)[n].rec = t[n].rec
BY DEF Requeued, CandRow

\* and reopening.
LEMMA ReopenCandRow ==
    ASSUME NEW t \in [Names -> CandRow], NEW n \in Names
    PROVE  /\ Reopened(t)[n].st = (IF t[n].st \in {"queued", "processing"}
                                   THEN IF t[n].att >= MaxAttempts THEN "done" ELSE "queued"
                                   ELSE t[n].st)
           /\ Reopened(t)[n].att = t[n].att
           /\ Reopened(t)[n].rec = t[n].rec
BY DEF Reopened, CandRow

\* A settled row is done or, with budget left, queued; its attempts stay.
LEMMA SettledRow ==
    ASSUME NEW n, NEW row \in SeedRow \cup CandRow
    PROVE  /\ Settle(n, row).st \in {"queued", "done"} /\ Settle(n, row).att = row.att
           /\ row \in CandRow => Settle(n, row).rec = row.rec
<1>1. CASE row \in SeedRow /\ row \notin CandRow
    BY <1>1 DEF Settle, SeedRow
<1>2. CASE row \in CandRow
    BY <1>2 DEF Settle, CandRow
<1> QED BY <1>1, <1>2

\* mark_scan_seed_candidates_done on one row.
LEMMA SettledSeedRow ==
    ASSUME TypeOK, NEW S, NEW n \in Names
    PROVE  /\ ~(n \in S /\ seed[n].st = "processing") => SettledSeeds(S)[n] = seed[n]
           /\ n \in S /\ seed[n].st = "processing" => SettledSeeds(S)[n].st \in {"queued", "done"}
           /\ SettledSeeds(S)[n].att = seed[n].att
<1>1. seed[n] \in SeedRow
    BY DEF TypeOK
<1>2. Settle(n, seed[n]).st \in {"queued", "done"} /\ Settle(n, seed[n]).att = seed[n].att
    BY <1>1, SettledRow
<1> QED BY <1>2 DEF SettledSeeds

\* The three outcomes of one iteration of the persist loop: the priority of the
\* row is raised, the row is inserted and may displace another of lower
\* priority, or nothing happens.
LEMMA PersistOneRow ==
    ASSUME NEW t \in [Names -> SeedRow], NEW n \in Names, NEW k \in Nat, NEW max
    PROVE  LET u == PersistOne(t, n, k, max) IN
           \/ u = t
           \/ /\ t[n].st # "none" /\ u[n].st = t[n].st /\ u[n].att = t[n].att /\ u[n].pri >= t[n].pri
              /\ \A m \in Names \ {n} : u[m] = t[m]
           \/ /\ t[n].st = "none"
              /\ u[n].st = "queued" /\ u[n].att = 0 /\ u[n].pri = k
              /\ \A m \in Names \ {n} : u[m] = t[m]
           \/ /\ t[n].st = "none"
              /\ u[n].st = "queued" /\ u[n].att = 0 /\ u[n].pri = k
              /\ \E v \in Evictable(t) \ {n} :
                    /\ k > t[v].pri /\ u[v] = NoSeed
                    /\ \A m \in Names \ {n, v} : u[m] = t[m]
<1> DEFINE row == [st |-> "queued", att |-> 0, pri |-> k]
           v == Lowest(t)
<1>1. CASE t[n].st # "none"
  <2>1. PersistOne(t, n, k, max) = [t EXCEPT ![n].pri = IF t[n].pri < k THEN k ELSE t[n].pri]
    BY <1>1 DEF PersistOne
  <2> QED BY <1>1, <2>1 DEF SeedRow
<1>2. CASE t[n].st = "none" /\ HasRoom(t, max)
  <2>1. PersistOne(t, n, k, max) = [t EXCEPT ![n] = row]
    BY <1>2 DEF PersistOne, Insert
  <2> QED BY <1>2, <2>1
<1>3. CASE t[n].st = "none" /\ ~HasRoom(t, max) /\ Evictable(t) # {} /\ k > t[v].pri
  <2>1. PersistOne(t, n, k, max) = [[t EXCEPT ![v] = NoSeed] EXCEPT ![n] = row]
    BY <1>3 DEF PersistOne, Insert
  <2>2. v \in Evictable(t) /\ v \in Names /\ v # n
    BY <1>3, LowestEvictable DEF Evictable
  <2>3. PersistOne(t, n, k, max)[n] = row /\ PersistOne(t, n, k, max)[v] = NoSeed
    BY <2>1, <2>2
  <2>4. \A m \in Names \ {n, v} : PersistOne(t, n, k, max)[m] = t[m]
    BY <2>1, <2>2
  <2> HIDE DEF v
  <2> QED BY <1>3, <2>2, <2>3, <2>4
<1>4. CASE t[n].st = "none" /\ ~HasRoom(t, max) /\ ~(Evictable(t) # {} /\ k > t[v].pri)
    BY <1>4 DEF PersistOne
<1> QED BY <1>1, <1>2, <1>3, <1>4


-----------------------------------------------------------------------------
(* Which updates a step can make.                                          *)

\* The passive table.
LEMMA SeedSteps ==
    ASSUME NEW p \in Procs, Begin(p) \/ Work(p) \/ Interrupt(p)
    PROVE  \/ seed' = seed
           \/ seed' = Reopened(seed)
           \/ \E S : \/ seed' = SetStatus(seed, S, "processing") /\ S \subseteq Claimable(seed)
                     \/ seed' = Started(seed, S)
                     \/ seed' = Requeued(seed, S)
                     \/ seed' = SettledSeeds(S)
           \/ Demote(p)
           \/ CommitPersist(p)
           \/ Finalize(p) /\ seed' = EmptySeeds /\ applied'
<1>1. CASE Begin(p) \/ Interrupt(p)
    BY <1>1, Zenon DEF Begin, Interrupt, db
<1>2. CASE ClaimSeeds(p)
    BY <1>2, Zenon DEF ClaimSeeds, IsPage
<1>3. CASE \/ ReadCapacity(p) \/ RefillQueue(p) \/ ClaimCands(p) \/ RecordLearning(p)
           \/ DoneCands(p) \/ RequeueCands(p)
    BY <1>3, Zenon DEF ReadCapacity, RefillQueue, ClaimCands, RecordLearning, DoneCands,
       RequeueCands, db
<1>4. CASE RequeueSeeds(p) \/ DoneSeeds(p) \/ BoundedRequeue(p) \/ BoundedDone(p)
           \/ MarkAnswered(p) \/ StartSeeds(p) \/ UnstartSeeds(p)
    BY <1>4, Zenon DEF RequeueSeeds, DoneSeeds, BoundedRequeue, BoundedDone, MarkAnswered,
       StartSeeds, UnstartSeeds
<1>5. CASE \/ Resolve(p) \/ StartCands(p) \/ QuarantineNonexistent(p) \/ RecordWildcardMatches(p)
           \/ PurgeWildcards(p) \/ Journal(p) \/ JournalDiscovery(p) \/ PersistFindings(p)
    BY <1>5, Zenon DEF Resolve, StartCands, QuarantineNonexistent, RecordWildcardMatches,
       PurgeWildcards, Journal, JournalDiscovery, PersistFindings, db
<1>6. CASE BeginPersist(p) \/ PersistRow(p) \/ JoinLateCt(p) \/ Enrich(p) \/ Pause(p)
    BY <1>6, Zenon DEF BeginPersist, PersistRow, JoinLateCt, Enrich, Pause, db
<1>7. CASE DrainClaim(p)
  <2>1. PICK S \in SUBSET Names :
            /\ IsPage(S, IF w[p].out THEN {} ELSE Claimable(seed), SeedPriority, WaveLimit)
            /\ seed' = SetStatus(seed, S, "processing")
    BY <1>7, Zenon DEF DrainClaim
  <2>2. S \subseteq Claimable(seed)
    BY <2>1 DEF IsPage
  <2> QED BY <2>1, <2>2, Zenon
<1>8. CASE ClaimNamed(p)
  <2>1. w[p].names \cap Claimable(seed) \subseteq Claimable(seed)
    OBVIOUS
  <2> QED BY <1>8, <2>1, Zenon DEF ClaimNamed
<1>9. CASE Finalize(p)
    BY <1>9, Zenon DEF Finalize
<1> QED BY <1>1, <1>2, <1>3, <1>4, <1>5, <1>6, <1>7, <1>8, <1>9, Zenon
    DEF Work, Wave, Batch, Persist, Closing

\* The active table.
LEMMA CandSteps ==
    ASSUME NEW p \in Procs, Begin(p) \/ Work(p) \/ Interrupt(p)
    PROVE  \/ cand' = cand
           \/ cand' = Reopened(cand)
           \/ cand' = Requeued(cand, NotStarted(p))
           \/ RefillQueue(p) \/ ClaimCands(p) \/ StartCands(p) \/ RecordLearning(p) \/ DoneCands(p)
           \/ \E D : cand' = [n \in Names |-> IF n \in D THEN NoCand ELSE cand[n]]
<1>1. CASE Begin(p) \/ Interrupt(p)
    BY <1>1, Zenon DEF Begin, Interrupt, db
<1>2. CASE ClaimSeeds(p) \/ ReadCapacity(p) \/ RequeueCands(p) \/ RequeueSeeds(p) \/ DoneSeeds(p)
    BY <1>2, Zenon DEF ClaimSeeds, ReadCapacity, RequeueCands, RequeueSeeds, DoneSeeds, db
<1>3. CASE \/ Resolve(p) \/ StartSeeds(p) \/ UnstartSeeds(p) \/ QuarantineNonexistent(p)
           \/ RecordWildcardMatches(p) \/ PurgeWildcards(p) \/ Journal(p) \/ JournalDiscovery(p)
           \/ PersistFindings(p)
    BY <1>3, Zenon DEF Resolve, StartSeeds, UnstartSeeds, QuarantineNonexistent,
       RecordWildcardMatches, PurgeWildcards, Journal, JournalDiscovery, PersistFindings, db
<1>4. CASE \/ BeginPersist(p) \/ PersistRow(p) \/ JoinLateCt(p) \/ DrainClaim(p)
           \/ MarkAnswered(p) \/ Enrich(p) \/ ClaimNamed(p) \/ BoundedRequeue(p)
           \/ BoundedDone(p) \/ Pause(p)
    BY <1>4, Zenon DEF BeginPersist, PersistRow, JoinLateCt, DrainClaim, MarkAnswered, Enrich,
       ClaimNamed, BoundedRequeue, BoundedDone, Pause, db
<1>5. CASE Demote(p)
    BY <1>5, Zenon DEF Demote
<1>6. CASE CommitPersist(p)
  <2>1. cand' = [n \in Names |-> IF n \in Rows(wk) THEN NoCand ELSE cand[n]]
    BY <1>6 DEF CommitPersist, Rows
  <2> QED BY <2>1, Zenon
<1>7. CASE Finalize(p)
    BY <1>7, Zenon DEF Finalize
<1> QED BY <1>1, <1>2, <1>3, <1>4, <1>5, <1>6, <1>7, Zenon DEF Work, Wave, Batch, Persist, Closing

-----------------------------------------------------------------------------
(* A missing row has no attempts.                                          *)

\* No update gives attempts to a passive row that is missing,
LEMMA StepBlankSeeds ==
    ASSUME TypeOK, Blank, NEW p \in Procs, Begin(p) \/ Work(p) \/ Interrupt(p)
    PROVE  BlankRows(seed')
<1>t. seed \in [Names -> SeedRow]
    BY DEF TypeOK
<1>b. \A n \in Names : seed[n].st = "none" => seed[n].att = 0
    BY DEF Blank, BlankRows
<1>1. CASE seed' = seed
    BY <1>1 DEF Blank, BlankRows
<1>2. CASE seed' = Reopened(seed)
    BY <1>t, <1>b, <1>2, SetSeedRow, StartSeedRow, RequeueSeedRow, ReopenSeedRow DEF BlankRows
<1>3. ASSUME NEW S, seed' = SetStatus(seed, S, "processing") PROVE BlankRows(seed')
  <2>1. ASSUME NEW n \in Names PROVE seed'[n].st = "none" => seed'[n].att = 0
    <3>1. /\ seed'[n].st = (IF n \in S THEN "processing" ELSE seed[n].st)
          /\ seed'[n].att = seed[n].att
      BY <1>t, <1>3, SetSeedRow, StartSeedRow, RequeueSeedRow, ReopenSeedRow
    <3> QED BY <1>b, <3>1
  <2> QED BY <2>1 DEF BlankRows
<1>4. ASSUME NEW S, seed' = Started(seed, S) \/ seed' = Requeued(seed, S) PROVE BlankRows(seed')
    BY <1>t, <1>b, <1>4, SetSeedRow, StartSeedRow, RequeueSeedRow, ReopenSeedRow DEF BlankRows
<1>5. ASSUME NEW S, seed' = SettledSeeds(S) PROVE BlankRows(seed')
    BY <1>t, <1>b, <1>5, SettledSeedRow DEF BlankRows
<1>6. CASE Demote(p)
    BY <1>t, <1>b, <1>6 DEF Demote, BlankRows
<1>7. CASE CommitPersist(p)
    BY <1>7 DEF CommitPersist, Blank
<1>8. CASE seed' = EmptySeeds
    BY <1>8 DEF EmptySeeds, NoSeed, BlankRows
<1> QED BY <1>1, <1>2, <1>3, <1>4, <1>5, <1>6, <1>7, <1>8, SeedSteps

\* nor to an active one.
LEMMA StepBlankCands ==
    ASSUME TypeOK, Blank, NEW p \in Procs, Begin(p) \/ Work(p) \/ Interrupt(p)
    PROVE  BlankRows(cand')
<1>t. cand \in [Names -> CandRow]
    BY DEF TypeOK
<1>b. \A n \in Names : cand[n].st = "none" => cand[n].att = 0
    BY DEF Blank, BlankRows
<1>1. CASE cand' = cand
    BY <1>1 DEF Blank, BlankRows
<1>2. CASE cand' = Reopened(cand) \/ cand' = Requeued(cand, NotStarted(p))
  <2>1. ASSUME NEW n \in Names PROVE cand'[n].st = "none" => cand'[n].att = 0
    BY <1>t, <1>b, <1>2, SetCandRow, StartCandRow, RequeueCandRow, ReopenCandRow
  <2> QED BY <2>1 DEF BlankRows
<1>3. CASE RefillQueue(p)
  <2>1. PICK S : cand' = SetStatus(cand, S, "queued")
    BY <1>3 DEF RefillQueue
  <2> QED BY <1>t, <1>b, <2>1, SetCandRow, StartCandRow, RequeueCandRow, ReopenCandRow DEF BlankRows
<1>4. CASE ClaimCands(p)
  <2>1. PICK S : cand' = SetStatus(cand, S, "processing")
    BY <1>4 DEF ClaimCands
  <2> QED BY <1>t, <1>b, <2>1, SetCandRow, StartCandRow, RequeueCandRow, ReopenCandRow DEF BlankRows
<1>5. CASE StartCands(p)
    BY <1>t, <1>b, <1>5, SetCandRow, StartCandRow, RequeueCandRow, ReopenCandRow
       DEF StartCands, BlankRows
<1>6. CASE RecordLearning(p)
    BY <1>t, <1>b, <1>6 DEF RecordLearning, BlankRows, CandRow
<1>7. CASE DoneCands(p)
  <2>1. ASSUME NEW n \in Names PROVE cand'[n].st = "none" => cand'[n].att = 0
    BY <1>t, <1>b, <1>7, SettledRow DEF DoneCands
  <2> QED BY <2>1 DEF BlankRows
<1>8. ASSUME NEW D, cand' = [n \in Names |-> IF n \in D THEN NoCand ELSE cand[n]]
      PROVE  BlankRows(cand')
    BY <1>b, <1>8 DEF NoCand, BlankRows
<1> QED BY <1>1, <1>2, <1>3, <1>4, <1>5, <1>6, <1>7, <1>8, CandSteps

\* While a seed transaction is open the committed tables of the queue and of the
\* transaction are written by its process only.
LEMMA LockSteps ==
    ASSUME NEW p \in Procs, Begin(p) \/ Work(p) \/ Interrupt(p)
    PROVE  \/ Unlocked /\ (BeginPersist(p) \/ UNCHANGED txn)
           \/ PersistRow(p) \/ CommitPersist(p)
           \/ Interrupt(p) /\ seed' = seed
           \/ seed' = seed /\ txn' = txn /\ w[p].pc \in {"resolve", "late", "enrich"}
<1>1. CASE Begin(p) \/ Interrupt(p)
    BY <1>1, Zenon DEF Begin, Interrupt, db
<1>2. CASE Wave(p)
    BY <1>2, Zenon DEF Wave, ClaimSeeds, ReadCapacity, RefillQueue, ClaimCands, Demote,
       RecordLearning, DoneCands, RequeueCands, RequeueSeeds, DoneSeeds
<1>3. CASE Batch(p) /\ ~Resolve(p)
    BY <1>3, Zenon DEF Batch, StartCands, StartSeeds, UnstartSeeds,
       QuarantineNonexistent, RecordWildcardMatches, PurgeWildcards, Journal, JournalDiscovery,
       PersistFindings
<1>4. CASE Persist(p)
    BY <1>4, Zenon DEF Persist, BeginPersist
<1>5. CASE JoinLateCt(p) \/ Enrich(p) \/ Resolve(p)
    BY <1>5 DEF JoinLateCt, Enrich, Resolve, At, db
<1>6. CASE Closing(p) /\ ~JoinLateCt(p) /\ ~Enrich(p)
    BY <1>6, Zenon DEF Closing, DrainClaim, MarkAnswered, ClaimNamed, BoundedRequeue,
       BoundedDone, Pause, Finalize
<1> QED BY <1>1, <1>2, <1>3, <1>4, <1>5, <1>6, Zenon DEF Work, Batch

\* Blank is inductive: the uncommitted table comes from the committed one.
LEMMA StepBlank == TypeOK /\ TypeOK' /\ Blank /\ [Next]_vars => Blank'
<1> SUFFICES ASSUME TypeOK, TypeOK', Blank, [Next]_vars PROVE Blank'
    OBVIOUS
<1>t. wk \in [Names -> SeedRow] /\ \A n \in Names : wk[n].st = "none" => wk[n].att = 0
    BY DEF TypeOK, Blank, BlankRows
<1>1. ASSUME NEW p \in Procs, Begin(p) \/ Work(p) \/ Interrupt(p) PROVE Blank'
  <2>1. BlankRows(seed') /\ BlankRows(cand')
    BY <1>1, StepBlankSeeds, StepBlankCands
  <2>2. CASE wk' \in {wk, seed, EmptySeeds}
    BY <2>1, <2>2 DEF Blank, BlankRows, EmptySeeds, NoSeed
  <2>3. CASE PersistRow(p)
    <3>1. PICK n \in w[p].pay : wk' = PersistOne(wk, n, w[p].pri[n], PersistLimit(p))
      BY <2>3 DEF PersistRow
    <3>2. n \in Names /\ w[p].pri[n] \in Nat
      BY DEF TypeOK, Worker
    <3>3. BlankRows(wk')
      BY <1>t, <3>1, <3>2, PersistOneRow DEF BlankRows, NoSeed
    <3> QED BY <2>1, <3>3 DEF Blank
  <2>4. wk' \in {wk, seed, EmptySeeds} \/ PersistRow(p)
    BY <1>1, LockSteps DEF BeginPersist, CommitPersist, Interrupt, txn
  <2> QED BY <2>2, <2>3, <2>4
<1>2. CASE UNCHANGED <<seed, cand, wk>>
    BY <1>2 DEF Blank, BlankRows
<1> QED BY <1>1, <1>2 DEF Next, CacheFill, vars, db, txn

-----------------------------------------------------------------------------
(* The open transaction.                                                   *)

\* The row of one name, by whether it is in the committed table, in the
\* transaction, or in both.
LEMMA PersistingRow ==
    ASSUME Persisting, lock # NoProc, NEW n \in Names
    PROVE  KeptRow(n) /\ AddedRow(n) /\ EvictedRow(n)
BY DEF Persisting

\* One iteration keeps what it says of the rows: the name that is inserted has
\* the highest priority left, and a row that is evicted was either there before
\* or, as Beaten tells, has a better successor.
LEMMA PersistRowKeeps ==
    ASSUME TypeOK, TypeOK', Persisting, NEW p \in Procs, PersistRow(p)
    PROVE  Persisting'
<1>1. PICK n \in w[p].pay :
        /\ IsPage({n}, w[p].pay, w[p].pri, 1)
        /\ wk' = PersistOne(wk, n, w[p].pri[n], PersistLimit(p))
        /\ Become(p, [w[p] EXCEPT !.pay = @ \ {n}])
    BY DEF PersistRow
<1> DEFINE k == w[p].pri[n]
<1>2. lock = p /\ lock' = p /\ p # NoProc /\ w[p].pc = "row" /\ seed' = seed
    BY ProcsAssumption DEF PersistRow, At, db
<1>3. /\ w'[p].pc = "row" /\ w'[p].pri = w[p].pri /\ w'[p].pay = w[p].pay \ {n}
      /\ w[p].pay \subseteq Names /\ n \in Names /\ w[p].pri \in [Names -> Nat]
  <2>1. w[p] \in Worker
    BY DEF TypeOK
  <2>2. w'[p] = [w[p] EXCEPT !.pay = @ \ {n}]
    BY <1>1, BecomeMoves
  <2> QED BY <1>2, <2>1, <2>2 DEF Worker
<1>4. k \in Nat /\ \A r \in w[p].pay : w[p].pri[r] \in Nat /\ w[p].pri[r] <= k
  <2>1. \A r \in w[p].pay \ {n} : k > w[p].pri[r] \/ k = w[p].pri[r]
    BY <1>1 DEF IsPage
  <2> QED BY <1>3, <2>1
<1>5. wk \in [Names -> SeedRow] /\ wk' \in [Names -> SeedRow] /\ seed \in [Names -> SeedRow]
    BY DEF TypeOK
<1>6. \/ wk' = wk
      \/ /\ wk[n].st # "none" /\ wk'[n].st = wk[n].st /\ wk'[n].att = wk[n].att
         /\ wk'[n].pri >= wk[n].pri
         /\ \A m \in Names \ {n} : wk'[m] = wk[m]
      \/ /\ wk[n].st = "none"
         /\ wk'[n].st = "queued" /\ wk'[n].att = 0 /\ wk'[n].pri = k
         /\ \A m \in Names \ {n} : wk'[m] = wk[m]
      \/ /\ wk[n].st = "none"
         /\ wk'[n].st = "queued" /\ wk'[n].att = 0 /\ wk'[n].pri = k
         /\ \E v \in Evictable(wk) \ {n} :
                /\ k > wk[v].pri /\ wk'[v] = NoSeed
                /\ \A m \in Names \ {n, v} : wk'[m] = wk[m]
    BY <1>1, <1>3, <1>4, <1>5, PersistOneRow
<1>7. ASSUME NEW j \in Nat, NEW m \in Names,
             seed[m].st = "none", wk[m].st # "none", wk[m].pri > j,
             \A r \in w[p].pay : w[p].pri[r] <= wk[m].pri
      PROVE  Beaten(j)'
  <2>1. wk'[m].st # "none" /\ wk'[m].pri >= wk[m].pri
    <3>1. wk[m].pri \in Nat /\ k <= wk[m].pri
      BY <1>1, <1>5, <1>7 DEF SeedRow
    <3>2. CASE wk'[m] = wk[m]
      BY <1>7, <3>1, <3>2
    <3>3. ASSUME NEW v \in Names, k > wk[v].pri PROVE m # v
      BY <1>4, <3>1, <3>3
    <3> QED BY <1>3, <1>6, <1>7, <3>2, <3>3 DEF Evictable
  <2>2. \A r \in w'[p].pay : w'[p].pri[r] <= wk'[m].pri
    BY <1>3, <1>4, <1>5, <1>7, <2>1 DEF SeedRow
  <2>3. wk'[m].pri > j
    BY <1>5, <1>7, <2>1 DEF SeedRow
  <2> QED BY <1>2, <1>7, <2>1, <2>2, <2>3 DEF Beaten
<1>8. ASSUME NEW j \in Nat, Beaten(j) PROVE Beaten(j)'
    BY <1>2, <1>7, <1>8 DEF Beaten
<1>9. ASSUME NEW x \in Names PROVE (KeptRow(x) /\ AddedRow(x) /\ EvictedRow(x))'
  <2>1. KeptRow(x) /\ AddedRow(x) /\ EvictedRow(x)
    BY <1>2, PersistingRow
  <2>2. seed[x].pri \in Nat /\ seed[x].att \in Nat /\ wk[x].pri \in Nat /\ wk'[x].pri \in Nat
    BY <1>5 DEF SeedRow
  <2>3. CASE wk'[x] = wk[x]
    BY <1>2, <1>8, <2>1, <2>2, <2>3 DEF KeptRow, AddedRow, EvictedRow
  <2>4. CASE /\ x = n /\ wk[x].st # "none" /\ wk'[x].st = wk[x].st /\ wk'[x].att = wk[x].att
             /\ wk'[x].pri >= wk[x].pri
    BY <1>2, <1>8, <2>1, <2>2, <2>4 DEF KeptRow, AddedRow, EvictedRow
  <2>5. CASE x = n /\ wk[x].st = "none" /\ wk'[x].st = "queued" /\ wk'[x].att = 0
    BY <1>2, <1>8, <2>1, <2>2, <2>5 DEF KeptRow, AddedRow, EvictedRow
  <2>6. CASE x \in Evictable(wk) /\ x # n /\ wk'[x] = NoSeed /\ k > wk[x].pri
             /\ wk[n].st = "none" /\ wk'[n].st = "queued" /\ wk'[n].pri = k
    <3>1. wk'[x].st = "none" /\ wk[x].st = "queued" /\ wk[x].att = 0
      BY <2>6 DEF NoSeed, Evictable
    <3>2. ASSUME seed[x].st # "none"
          PROVE  seed[x].st = "queued" /\ seed[x].att = 0 /\ Beaten(seed[x].pri)'
      <4>1. seed[x].st = "queued" /\ seed[x].att = 0
            /\ (wk[x].pri >= seed[x].pri \/ Beaten(seed[x].pri))
        BY <2>1, <3>1, <3>2 DEF KeptRow
      <4>2. CASE Beaten(seed[x].pri)
        BY <1>2, <1>8, <2>2, <4>1, <4>2
      <4>3. CASE wk[x].pri >= seed[x].pri /\ seed[n].st = "none"
        <5>1. k > seed[x].pri
          BY <1>4, <2>2, <2>6, <4>3
        <5>2. wk'[n].st # "none" /\ wk'[n].pri > seed[x].pri
              /\ \A r \in w'[p].pay : w'[p].pri[r] <= wk'[n].pri
          BY <1>3, <1>4, <2>6, <5>1
        <5> QED BY <1>2, <1>3, <4>1, <4>3, <5>2 DEF Beaten
      <4>4. CASE wk[x].pri >= seed[x].pri /\ seed[n].st # "none"
        <5>1. Beaten(seed[n].pri)
          BY <1>2, <1>3, <2>6, <4>4, PersistingRow DEF EvictedRow
        <5>2. PICK m \in Names :
                /\ seed[m].st = "none" /\ wk[m].st # "none"
                /\ \A r \in w[p].pay : w[p].pri[r] <= wk[m].pri
          BY <1>2, <5>1 DEF Beaten
        <5>3. wk[m].pri > seed[x].pri
          BY <1>4, <1>5, <2>2, <2>6, <4>4, <5>2 DEF SeedRow
        <5> QED BY <1>2, <1>7, <2>2, <4>1, <5>2, <5>3
      <4> QED BY <4>1, <4>2, <4>3, <4>4
    <3> QED BY <1>2, <3>1, <3>2 DEF KeptRow, AddedRow, EvictedRow
  <2> QED BY <1>6, <2>3, <2>4, <2>5, <2>6
<1> QED BY <1>2, <1>3, <1>9 DEF Persisting

\* Persisting is inductive: the table under an open transaction does not move.
LEMMA StepPersisting == TypeOK /\ TypeOK' /\ Persisting /\ [Next]_vars => Persisting'
<1> SUFFICES ASSUME TypeOK, TypeOK', Persisting, [Next]_vars PROVE Persisting'
    OBVIOUS
<1>t. seed \in [Names -> SeedRow]
    BY DEF TypeOK
<1>1. ASSUME NEW p \in Procs, Begin(p) \/ Work(p) \/ Interrupt(p) PROVE Persisting'
  <2>1. CASE PersistRow(p)
    BY <2>1, PersistRowKeeps
  <2>2. CASE BeginPersist(p)
    <3>1. seed' = seed /\ wk' = seed /\ lock' = p
      BY <2>2 DEF BeginPersist, db
    <3>2. w'[p].pc = "row"
      <4>1. PICK S, f : w'[p] = [w[p] EXCEPT !.pc = "row", !.pay = S, !.pri = f, !.names = S]
        BY <2>2, BecomeMoves DEF BeginPersist
      <4> QED BY <4>1 DEF TypeOK, Worker
    <3>3. ASSUME NEW n \in Names PROVE (KeptRow(n) /\ AddedRow(n) /\ EvictedRow(n))'
      <4>1. seed[n].pri \in Nat /\ seed[n].pri >= seed[n].pri
        BY <1>t DEF SeedRow
      <4> QED BY <3>1, <4>1 DEF KeptRow, AddedRow, EvictedRow
    <3> QED BY <3>1, <3>2, <3>3 DEF Persisting
  <2>3. CASE lock' = NoProc
    BY <2>3 DEF Persisting
  <2>4. CASE lock # NoProc /\ seed' = seed /\ txn' = txn /\ w'[lock] = w[lock]
    <3>1. lock' = lock /\ wk' = wk
      BY <2>4 DEF txn
    <3>2. ASSUME NEW n \in Names PROVE (KeptRow(n) /\ AddedRow(n) /\ EvictedRow(n))'
      BY <2>4, <3>1, PersistingRow DEF KeptRow, AddedRow, EvictedRow, Beaten
    <3> QED BY <2>4, <3>1, <3>2 DEF Persisting
  <2>5. CASE Interrupt(p) /\ lock # p
    <3>1. seed' = seed /\ txn' = txn
      BY <2>5 DEF Interrupt, db, txn
    <3>2. lock # NoProc => w'[lock] = w[lock]
      BY <2>5, BecomeMoves DEF Interrupt, TypeOK
    <3> QED BY <2>3, <2>4, <3>1, <3>2 DEF txn
  <2>6. CASE Interrupt(p) /\ lock = p
    BY <2>3, <2>6 DEF Interrupt
  <2>7. CASE seed' = seed /\ txn' = txn /\ w[p].pc \in {"resolve", "late", "enrich"} /\ Work(p)
    <3>1. lock # NoProc => lock # p /\ lock \in Procs
      BY <2>7 DEF Persisting, TypeOK
    <3> QED BY <2>3, <2>4, <2>7, <3>1, OneMoves DEF txn
  <2> QED BY <1>1, <2>1, <2>2, <2>3, <2>5, <2>6, <2>7, LockSteps
      DEF Unlocked, CommitPersist, txn, Begin, At
<1>2. CASE UNCHANGED <<seed, txn, w>>
    BY <1>2 DEF Persisting, KeptRow, AddedRow, EvictedRow, Beaten, txn
<1> QED BY <1>1, <1>2 DEF Next, CacheFill, vars, db

-----------------------------------------------------------------------------
(* The claims of a run that is alone.                                      *)

\* A row that neither gains nor loses its claim.
LEMMA PassHolding ==
    ASSUME NEW p \in Procs, TypeOK, Holding(p),
           w'[p].seeds = w[p].seeds, w'[p].cands = w[p].cands, w'[p].res = w[p].res,
           \A n \in Names : /\ seed'[n].st = "processing" => seed[n].st = "processing"
                            /\ seed[n].st # "none" => seed'[n].st # "none"
                            /\ cand'[n].st = "processing" => cand[n].st = "processing"
                            /\ cand[n].st \in {"processing", "none"} => cand'[n].st \in {"processing", "none"},
           \/ w[p].pc \in Claiming /\ w'[p].pc \in Claiming
           \/ w[p].pc \in Working /\ w'[p].pc \in Working \cup {"record"}
           \/ w[p].pc = "record" /\ w'[p].pc = "donec"
    PROVE  Holding(p)'
BY DEF Holding, HoldsSeed, HoldsCand, Claiming, Working, InBatch

\* A wave gives back or settles what it claimed before it ends.
LEMMA WaveHolding ==
    ASSUME NEW p \in Procs, TypeOK, Shape, Holding(p), Wave(p)
    PROVE  Holding(p)'
<1>w. /\ w[p] \in Worker /\ ShapeOf(w[p])
      /\ seed \in [Names -> SeedRow] /\ cand \in [Names -> CandRow]
    BY DEF TypeOK, Shape
<1>h. \A n \in Names :
        /\ seed[n].st = "processing" => HoldsSeed(p, n)
        /\ cand[n].st = "processing" => HoldsCand(p, n)
    BY DEF Holding
<1> USE DEF At
<1>1. CASE ClaimSeeds(p)
  <2>1. PICK S \in SUBSET Names :
            /\ seed' = SetStatus(seed, S, "processing")
            /\ w'[p].pc = "capacity" /\ w'[p].seeds = S
    BY <1>1, ClaimSeedsMoves
  <2>2. \A n \in Names : seed[n].st # "processing" /\ cand[n].st # "processing" /\ cand' = cand
    BY <1>1, <1>h DEF ClaimSeeds, HoldsSeed, HoldsCand, Claiming, Working, InBatch
  <2> QED BY <1>w, <2>1, <2>2, SetSeedRow, StartSeedRow, RequeueSeedRow, ReopenSeedRow
     DEF Holding, HoldsSeed, Claiming, Working, InBatch
<1>2. CASE ReadCapacity(p)
  <2>1. PICK c : w'[p] = [w[p] EXCEPT !.pc = "refill", !.cap = c]
    BY <1>2, BecomeMoves, Zenon DEF ReadCapacity
  <2>2. seed' = seed /\ cand' = cand /\ w[p].pc = "capacity"
    BY <1>2 DEF ReadCapacity, db
  <2>3. w'[p].seeds = w[p].seeds /\ w'[p].cands = w[p].cands /\ w'[p].res = w[p].res
        /\ w'[p].pc = "refill"
    BY <1>w, <2>1 DEF Worker
  <2> QED BY <2>2, <2>3, PassHolding DEF Claiming
<1>3. CASE RefillQueue(p)
  <2>1. w'[p] = [w[p] EXCEPT !.pc = "claimc", !.cap = 0]
    BY <1>3, BecomeMoves DEF RefillQueue
  <2>2. w'[p].seeds = w[p].seeds /\ w'[p].pc = "claimc"
    BY <1>w, <2>1 DEF Worker
  <2>3. PICK S : cand' = SetStatus(cand, S, "queued")
    BY <1>3 DEF RefillQueue
  <2>4. \A n \in Names : cand[n].st # "processing" /\ cand'[n].st # "processing"
    BY <1>w, <1>3, <1>h, <2>3, SetCandRow, StartCandRow, RequeueCandRow, ReopenCandRow
       DEF RefillQueue, HoldsCand, Working, InBatch
  <2>5. seed' = seed /\ w[p].pc = "refill"
    BY <1>3 DEF RefillQueue
  <2> QED BY <2>2, <2>4, <2>5 DEF Holding, HoldsSeed, Claiming, Working, InBatch
<1>4. CASE ClaimCands(p)
  <2>1. PICK S \in SUBSET Names :
            /\ cand' = SetStatus(cand, S, "processing")
            /\ w'[p] = [w[p] EXCEPT !.cands = S, !.todo = w[p].seeds \cup S,
                !.pc = CASE w[p].mode = "first" -> "demote"
                        [] w[p].mode = "wave" /\ w[p].seeds \cup S # {} -> "resolve"
                        [] w[p].mode = "wave" /\ w[p].seeds \cup S = {} /\ ~w[p].out
                              /\ w[p].gen /\ FeedsMore -> "claim"
                        [] OTHER -> "late"]
    BY <1>4, BecomeMoves DEF ClaimCands
  <2>2. /\ w'[p].seeds = w[p].seeds /\ w'[p].cands = S
        /\ w'[p].pc = CASE w[p].mode = "first" -> "demote"
                        [] w[p].mode = "wave" /\ w[p].seeds \cup S # {} -> "resolve"
                        [] w[p].mode = "wave" /\ w[p].seeds \cup S = {} /\ ~w[p].out
                              /\ w[p].gen /\ FeedsMore -> "claim"
                        [] OTHER -> "late"
    BY <1>w, <2>1 DEF Worker
  <2>3. seed' = seed /\ w[p].pc = "claimc" /\ w[p].mode \in {"first", "wave"}
    BY <1>w, <1>4 DEF ClaimCands, ShapeOf, Claiming
  <2>4. w'[p].pc \in {"demote", "resolve"}
        \/ (w'[p].pc \in {"claim", "late"} /\ w[p].seeds = {} /\ S = {})
    BY <2>2, <2>3
  <2>5. \A n \in Names : cand[n].st # "processing" /\ (seed[n].st = "processing" => n \in w[p].seeds)
    BY <1>h, <2>3 DEF HoldsCand, HoldsSeed, Working, InBatch
  <2>6. \A n \in Names : n \in w[p].seeds => seed[n].st # "none"
    BY <2>3 DEF Holding, Claiming
  <2>7. \A n \in Names : cand'[n].st = (IF n \in S THEN "processing" ELSE cand[n].st)
    BY <1>w, <2>1, SetCandRow, StartCandRow, RequeueCandRow, ReopenCandRow
  <2> QED BY <2>2, <2>3, <2>4, <2>5, <2>6, <2>7 DEF Holding, HoldsSeed, HoldsCand, Claiming,
          Working, InBatch
<1>5. CASE Demote(p)
  <2>1. PICK D :
            /\ seed' = [n \in Names |-> IF n \in D
                          THEN [st |-> "queued", att |-> 0, pri |-> seed[n].pri] ELSE seed[n]]
            /\ cand' = [n \in Names |-> IF n \in D THEN NoCand ELSE cand[n]]
            /\ w'[p] = [w[p] EXCEPT !.ans = @ \ D,
                          !.pc = IF w[p].todo = {} THEN "record" ELSE "resolve"]
    BY <1>5, BecomeMoves DEF Demote
  <2>2. w'[p].seeds = w[p].seeds /\ w'[p].cands = w[p].cands /\ w'[p].res = w[p].res
        /\ w'[p].pc \in {"record", "resolve"} /\ w[p].pc = "demote"
    BY <1>w, <1>5, <2>1 DEF Worker, Demote
  <2>3. \A n \in Names :
            /\ seed'[n].st = IF n \in D THEN "queued" ELSE seed[n].st
            /\ cand'[n].st = IF n \in D THEN "none" ELSE cand[n].st
    BY <2>1 DEF NoCand
  <2> QED BY <2>2, <2>3, PassHolding DEF Working
<1>6. CASE RecordLearning(p)
  <2>1. w'[p] = [w[p] EXCEPT !.pc = "donec"] /\ w[p].pc = "record" /\ seed' = seed
    BY <1>6, BecomeMoves DEF RecordLearning
  <2>2. w'[p].seeds = w[p].seeds /\ w'[p].cands = w[p].cands /\ w'[p].res = w[p].res
        /\ w'[p].pc = "donec"
    BY <1>w, <2>1 DEF Worker
  <2>3. \A n \in Names : cand'[n].st = cand[n].st
    BY <1>w, <1>6 DEF RecordLearning, CandRow
  <2> QED BY <2>1, <2>2, <2>3, PassHolding
<1>7. CASE DoneCands(p)
  <2>1. w'[p] = [w[p] EXCEPT !.pc = "requeuec"] /\ w[p].pc = "donec" /\ seed' = seed
    BY <1>7, BecomeMoves DEF DoneCands
  <2>2. /\ w'[p].seeds = w[p].seeds /\ w'[p].cands = w[p].cands /\ w'[p].res = w[p].res
        /\ w'[p].pc = "requeuec"
    BY <1>w, <2>1 DEF Worker
  <2>3. NotStarted(p)' = NotStarted(p)
    BY <2>2 DEF NotStarted, WaveHosts
  <2>4. \A n \in Names : cand'[n].st = "processing" => n \in NotStarted(p)
    <3> SUFFICES ASSUME NEW n \in Names, cand'[n].st = "processing" PROVE n \in NotStarted(p)
      OBVIOUS
    <3>1. ~(n \in Terminal(p) /\ cand[n].st # "none") /\ cand[n].st = "processing"
      <4>1. cand[n] \in CandRow /\ cand'[n] = IF n \in Terminal(p) /\ cand[n].st # "none"
                                              THEN Settle(n, cand[n]) ELSE cand[n]
        BY <1>w, <1>7 DEF DoneCands
      <4> QED BY <4>1, SettledRow
    <3>2. n \in w[p].cands
      BY <1>h, <2>1, <3>1 DEF HoldsCand, Working, InBatch
    <3> QED BY <3>1, <3>2 DEF Terminal, WaveHosts
  <2> QED BY <1>h, <2>1, <2>2, <2>3, <2>4 DEF Holding, HoldsSeed, HoldsCand, Claiming, Working,
          InBatch
<1>8. CASE RequeueCands(p)
  <2>1. w'[p] = [w[p] EXCEPT !.pc = "requeues"] /\ w[p].pc = "requeuec" /\ seed' = seed
    BY <1>8, BecomeMoves DEF RequeueCands
  <2>2. w'[p].seeds = w[p].seeds /\ w'[p].pc = "requeues"
    BY <1>w, <2>1 DEF Worker
  <2>3. ASSUME NEW n \in Names PROVE cand'[n].st # "processing"
    <3>1. cand[n].st = "processing" => n \in NotStarted(p)
      BY <1>h, <2>1 DEF HoldsCand, Working, InBatch
    <3>2. cand'[n].st = (IF n \in NotStarted(p) /\ cand[n].st = "processing" THEN "queued"
                                                                           ELSE cand[n].st)
      BY <1>w, <1>8, SetCandRow, StartCandRow, RequeueCandRow, ReopenCandRow DEF RequeueCands
    <3> QED BY <3>1, <3>2
  <2> QED BY <1>h, <2>1, <2>2, <2>3 DEF Holding, HoldsSeed, HoldsCand, Claiming, Working, InBatch
<1>9. CASE RequeueSeeds(p)
  <2>1. w'[p] = [w[p] EXCEPT !.pc = "dones"] /\ w[p].pc = "requeues" /\ cand' = cand
    BY <1>9, BecomeMoves DEF RequeueSeeds
  <2>2. /\ w'[p].seeds = w[p].seeds /\ w'[p].cands = w[p].cands /\ w'[p].res = w[p].res
        /\ w'[p].pc = "dones"
    BY <1>w, <2>1 DEF Worker
  <2>3. Terminal(p)' = Terminal(p)
    BY <2>2 DEF Terminal, NotStarted, WaveHosts
  <2>4. \A n \in Names : seed'[n].st = "processing" => n \in Terminal(p)
    <3> SUFFICES ASSUME NEW n \in Names, seed'[n].st = "processing" PROVE n \in Terminal(p)
      OBVIOUS
    <3>1. seed[n].st = "processing" => n \in w[p].seeds
      BY <1>h, <2>1 DEF HoldsSeed, Claiming, Working, InBatch
    <3>2. seed'[n].st = (IF n \in NotStarted(p) /\ seed[n].st = "processing" THEN "queued"
                                                                           ELSE seed[n].st)
      BY <1>w, <1>9, SetSeedRow, StartSeedRow, RequeueSeedRow, ReopenSeedRow DEF RequeueSeeds
    <3> QED BY <3>1, <3>2 DEF Terminal, WaveHosts
  <2> QED BY <1>h, <2>1, <2>2, <2>3, <2>4 DEF Holding, HoldsSeed, HoldsCand, Claiming, Working,
          InBatch
<1>10. CASE DoneSeeds(p)
  <2>1. w'[p] = [w[p] EXCEPT !.pc = "claim", !.mode = "wave", !.seeds = {}, !.cands = {},
                             !.res = EmptyRes]
        /\ w[p].pc = "dones" /\ cand' = cand
    BY <1>10, BecomeMoves DEF DoneSeeds
  <2>2. w'[p].pc = "claim"
    BY <1>w, <2>1 DEF Worker
  <2>3. \A n \in Names : seed'[n].st # "processing" /\ cand[n].st # "processing"
    <3> SUFFICES ASSUME NEW n \in Names PROVE seed'[n].st # "processing" /\ cand[n].st # "processing"
      OBVIOUS
    <3>1. cand[n].st # "processing" /\ (seed[n].st = "processing" => n \in Terminal(p))
      BY <1>h, <2>1 DEF HoldsSeed, HoldsCand, Claiming, Working, InBatch
    <3> QED BY <1>10, <3>1, SettledSeedRow DEF DoneSeeds
  <2> QED BY <2>1, <2>2, <2>3 DEF Holding, Claiming, Working, InBatch
<1> QED BY <1>1, <1>2, <1>3, <1>4, <1>5, <1>6, <1>7, <1>8, <1>9, <1>10 DEF Wave

\* Resolving a group of hosts keeps the claims of its run.
LEMMA BatchHolding ==
    ASSUME NEW p \in Procs, TypeOK, Shape, Holding(p), Batch(p)
    PROVE  Holding(p)'
<1>w. /\ w[p] \in Worker /\ ShapeOf(w[p])
      /\ seed \in [Names -> SeedRow] /\ cand \in [Names -> CandRow]
    BY DEF TypeOK, Shape
<1> USE DEF At
<1>1. CASE Resolve(p)
  <2>1. /\ w'[p].seeds = w[p].seeds /\ w'[p].cands = w[p].cands
        /\ w[p].pc = "resolve" /\ w'[p].pc = "startc" /\ seed' = seed /\ cand' = cand
    BY <1>1, ResolveMoves
  <2> QED BY <2>1 DEF Holding, HoldsSeed, HoldsCand, Claiming, Working, InBatch
<1>2. CASE \/ StartCands(p) \/ StartSeeds(p) \/ UnstartSeeds(p) \/ QuarantineNonexistent(p)
           \/ RecordWildcardMatches(p) \/ PurgeWildcards(p) \/ Journal(p) \/ JournalDiscovery(p)
  <2>1. PICK pc \in InBatch : w'[p] = [w[p] EXCEPT !.pc = pc]
    BY <1>2, BecomeMoves DEF StartCands, StartSeeds, UnstartSeeds, QuarantineNonexistent,
       RecordWildcardMatches, PurgeWildcards, Journal, JournalDiscovery, InBatch
  <2>2. w[p].pc \in InBatch
    BY <1>2 DEF StartCands, StartSeeds, UnstartSeeds, QuarantineNonexistent,
       RecordWildcardMatches, PurgeWildcards, Journal, JournalDiscovery, InBatch
  <2>3. /\ w'[p].seeds = w[p].seeds /\ w'[p].cands = w[p].cands /\ w'[p].res = w[p].res
        /\ w'[p].pc = pc
    BY <1>w, <2>1 DEF Worker
  <2>4. PICK S, T : /\ seed' \in {seed, Started(seed, S), Requeued(seed, T)}
                    /\ cand' \in {cand, Started(cand, S)}
    BY <1>2 DEF StartCands, StartSeeds, UnstartSeeds, QuarantineNonexistent,
       RecordWildcardMatches, PurgeWildcards, Journal, JournalDiscovery
  <2>5. ASSUME NEW n \in Names
        PROVE  /\ seed'[n].st = "processing" => seed[n].st = "processing"
               /\ seed[n].st # "none" => seed'[n].st # "none"
               /\ cand'[n].st = cand[n].st
    <3>1. seed'[n].st \in {seed[n].st, "queued"} /\ (seed[n].st = "none" => seed'[n].st = "none")
      BY <1>w, <2>4, SetSeedRow, StartSeedRow, RequeueSeedRow, ReopenSeedRow
    <3>2. seed'[n].st = "queued" => seed[n].st # "none"
      BY <3>1
    <3>3. cand'[n].st = cand[n].st
      BY <1>w, <2>4, SetCandRow, StartCandRow, RequeueCandRow, ReopenCandRow
    <3> QED BY <3>1, <3>2, <3>3
  <2> QED BY <2>1, <2>2, <2>3, <2>5, PassHolding DEF Working
<1>3. CASE PersistFindings(p)
  <2>1. PICK F : w'[p] = [w[p] EXCEPT !.ans = @ \cup F, !.cur = {},
            !.pc = CASE w[p].todo # {} -> "resolve"
                        [] w[p].todo = {} /\ Bounded(p) -> "brequeue"
                        [] OTHER -> "record"]
    BY <1>3, BecomeMoves DEF PersistFindings
  <2>2. /\ w'[p].seeds = w[p].seeds /\ w'[p].cands = w[p].cands /\ w'[p].res = w[p].res
        /\ w'[p].pc \in {"resolve", "record"} \/ (w'[p].pc = "brequeue" /\ Bounded(p))
    BY <1>w, <2>1 DEF Worker
  <2>3. seed' = seed /\ cand' = cand /\ w[p].pc = "findings"
    BY <1>3 DEF PersistFindings
  <2>4. CASE w'[p].pc \in {"resolve", "record"}
    BY <2>2, <2>3, <2>4, PassHolding DEF Working, InBatch
  <2>5. CASE w'[p].pc = "brequeue" /\ Bounded(p)
    <3>1. w[p].cands = {}
      BY <1>w, <2>3, <2>5 DEF Bounded, ShapeOf, InBatch
    <3> QED BY <2>2, <2>3, <2>5, <3>1 DEF Holding, HoldsSeed, HoldsCand, Claiming, Working, InBatch
  <2> QED BY <2>2, <2>4, <2>5
<1> QED BY <1>1, <1>2, <1>3 DEF Batch

\* The bounded batches give back or settle what they claimed, or the run stops.
LEMMA ClosingHolding ==
    ASSUME NEW p \in Procs, TypeOK, Shape, Holding(p), Closing(p)
    PROVE  w'[p].pc = "off" \/ Holding(p)'
<1>w. /\ w[p] \in Worker /\ ShapeOf(w[p])
      /\ seed \in [Names -> SeedRow] /\ cand \in [Names -> CandRow]
    BY DEF TypeOK, Shape
<1>h. \A n \in Names :
        /\ seed[n].st = "processing" => HoldsSeed(p, n)
        /\ cand[n].st = "processing" => HoldsCand(p, n)
    BY DEF Holding
<1> USE DEF At
<1>1. CASE JoinLateCt(p) \/ Enrich(p)
  <2>1. \/ \E m \in {"late", "named"} :
                w'[p] = [w[p] EXCEPT !.mode = m, !.pc = "persist", !.calls = w[p].calls + 1]
        \/ \E pc \in {"enrich", "final"} : w'[p] = [w[p] EXCEPT !.pc = pc]
    BY <1>1, BecomeMoves DEF JoinLateCt, Enrich
  <2>2. w'[p].pc \in {"persist", "enrich", "final"}
    BY <1>w, <2>1 DEF Worker
  <2>3. seed' = seed /\ cand' = cand /\ w[p].pc \in {"late", "enrich"}
    BY <1>1 DEF JoinLateCt, Enrich, db
  <2> QED BY <1>h, <2>2, <2>3 DEF Holding, HoldsSeed, HoldsCand, Claiming, Working, InBatch
<1>2. CASE DrainClaim(p)
  <2>1. PICK S :
            /\ seed' = SetStatus(seed, S, "processing")
            /\ w'[p] = [w[p] EXCEPT !.seeds = S, !.cands = {}, !.res = EmptyRes,
                                    !.pc = IF S = {} THEN "enrich" ELSE "answered"]
    BY <1>2, BecomeMoves DEF DrainClaim
  <2>2. w'[p].seeds = S /\ w'[p].cands = {} /\ w'[p].pc = IF S = {} THEN "enrich" ELSE "answered"
    BY <1>w, <2>1 DEF Worker
  <2>3. cand' = cand /\ w[p].pc = "drain"
    BY <1>2 DEF DrainClaim
  <2>4. \A n \in Names : seed[n].st # "processing" /\ cand[n].st # "processing"
    BY <1>h, <2>3 DEF HoldsSeed, HoldsCand, Claiming, Working, InBatch
  <2>5. \A n \in Names : seed'[n].st = (IF n \in S THEN "processing" ELSE seed[n].st)
    BY <1>w, <2>1, SetSeedRow
  <2> QED BY <2>2, <2>3, <2>4, <2>5 DEF Holding, HoldsSeed, Claiming, Working, InBatch
<1>3. CASE MarkAnswered(p)
  <2>1. w'[p] = [w[p] EXCEPT !.seeds = @ \ w[p].ans, !.todo = w[p].seeds \ w[p].ans,
                             !.pc = IF w[p].seeds \subseteq w[p].ans THEN "drain" ELSE "resolve"]
    BY <1>3, BecomeMoves DEF MarkAnswered
  <2>2. /\ w'[p].seeds = w[p].seeds \ w[p].ans /\ w'[p].cands = w[p].cands
        /\ w'[p].pc = IF w[p].seeds \subseteq w[p].ans THEN "drain" ELSE "resolve"
    BY <1>w, <2>1 DEF Worker
  <2>3. cand' = cand /\ w[p].pc = "answered" /\ w[p].cands = {}
    BY <1>w, <1>3 DEF MarkAnswered, ShapeOf
  <2>4. ASSUME NEW n \in Names
        PROVE  /\ cand[n].st # "processing"
               /\ seed'[n].st = "processing" => n \in w[p].seeds \ w[p].ans
               /\ n \in w[p].seeds => seed'[n].st # "none"
    <3>1. cand[n].st # "processing" /\ (seed[n].st = "processing" => n \in w[p].seeds)
      BY <1>h, <2>3 DEF HoldsSeed, HoldsCand, Claiming, Working, InBatch
    <3>2. n \in w[p].seeds => seed[n].st # "none"
      BY <2>3 DEF Holding
    <3>3. LET S == w[p].seeds \cap w[p].ans IN
          /\ ~(n \in S /\ seed[n].st = "processing") => seed'[n] = seed[n]
          /\ n \in S /\ seed[n].st = "processing" => seed'[n].st \in {"queued", "done"}
      BY <1>3, SettledSeedRow DEF MarkAnswered
    <3> QED BY <3>1, <3>2, <3>3
  <2> QED BY <2>2, <2>3, <2>4 DEF Holding, HoldsSeed, Claiming, Working, InBatch
<1>4. CASE ClaimNamed(p)
  <2>1. PICK S :
            /\ seed' = SetStatus(seed, S, "processing")
            /\ w'[p] = [w[p] EXCEPT !.seeds = S, !.cands = {}, !.todo = S, !.names = {},
                              !.res = EmptyRes, !.pc = IF S = {} THEN "enrich" ELSE "resolve"]
    BY <1>4, BecomeMoves DEF ClaimNamed
  <2>2. w'[p].seeds = S /\ w'[p].cands = {} /\ w'[p].pc = IF S = {} THEN "enrich" ELSE "resolve"
    BY <1>w, <2>1 DEF Worker
  <2>3. cand' = cand /\ w[p].pc = "named"
    BY <1>4 DEF ClaimNamed
  <2>4. \A n \in Names : seed[n].st # "processing" /\ cand[n].st # "processing"
    BY <1>h, <2>3 DEF HoldsSeed, HoldsCand, Claiming, Working, InBatch
  <2>5. \A n \in Names : seed'[n].st = (IF n \in S THEN "processing" ELSE seed[n].st)
    BY <1>w, <2>1, SetSeedRow
  <2> QED BY <2>2, <2>3, <2>4, <2>5 DEF Holding, HoldsSeed, Claiming, Working, InBatch
<1>5. CASE BoundedRequeue(p)
  <2>1. w'[p] = [w[p] EXCEPT !.pc = "bdone"] /\ w[p].pc = "brequeue" /\ cand' = cand
    BY <1>5, BecomeMoves DEF BoundedRequeue
  <2>2. w'[p].seeds = w[p].seeds /\ w'[p].res = w[p].res /\ w'[p].pc = "bdone"
    BY <1>w, <2>1 DEF Worker
  <2>3. Outstanding(p)' = Outstanding(p)
    BY <2>2 DEF Outstanding
  <2>4. ASSUME NEW n \in Names
        PROVE  /\ cand[n].st # "processing"
               /\ seed'[n].st = "processing" => n \in w[p].seeds \ Outstanding(p)
    <3>1. cand[n].st # "processing" /\ (seed[n].st = "processing" => n \in w[p].seeds)
      BY <1>h, <2>1 DEF HoldsSeed, HoldsCand, Claiming, Working, InBatch
    <3>2. seed'[n].st = (IF n \in Outstanding(p) /\ seed[n].st = "processing" THEN "queued"
                                                                            ELSE seed[n].st)
      BY <1>w, <1>5, RequeueSeedRow DEF BoundedRequeue
    <3> QED BY <3>1, <3>2
  <2> QED BY <2>1, <2>2, <2>3, <2>4 DEF Holding, HoldsSeed, Claiming, Working, InBatch
<1>6. CASE BoundedDone(p)
  <2>1. w'[p] = [w[p] EXCEPT !.seeds = {}, !.res = EmptyRes,
                     !.pc = IF w[p].mode = "drain" THEN "drain" ELSE "enrich"]
        /\ w[p].pc = "bdone" /\ cand' = cand
    BY <1>6, BecomeMoves DEF BoundedDone
  <2>2. w'[p].pc \in {"drain", "enrich"}
    BY <1>w, <2>1 DEF Worker
  <2>3. ASSUME NEW n \in Names PROVE cand[n].st # "processing" /\ seed'[n].st # "processing"
    <3>1. cand[n].st # "processing"
          /\ (seed[n].st = "processing" => n \in w[p].seeds \ Outstanding(p))
      BY <1>h, <2>1 DEF HoldsSeed, HoldsCand, Claiming, Working, InBatch
    <3> QED BY <1>6, <3>1, SettledSeedRow DEF BoundedDone
  <2> QED BY <2>1, <2>2, <2>3 DEF Holding, Claiming, Working, InBatch
<1>7. CASE Pause(p) \/ Finalize(p)
    BY <1>7, BecomeMoves DEF Pause, Finalize, Off
<1> QED BY <1>1, <1>2, <1>3, <1>4, <1>5, <1>6, <1>7 DEF Closing

\* Outside a wave nothing is claimed, and a commit brings no claim.
LEMMA PersistHolding ==
    ASSUME NEW p \in Procs, TypeOK, Persisting, Shape, Holding(p), Persist(p)
    PROVE  Holding(p)'
<1>w. w[p] \in Worker
    BY DEF TypeOK
<1>1. w[p].pc \in {"persist", "row"}
    BY DEF Persist, BeginPersist, PersistRow, CommitPersist, At
<1>2. \A n \in Names : seed[n].st # "processing" /\ cand[n].st # "processing"
    BY <1>1 DEF Holding, HoldsSeed, HoldsCand, Claiming, Working, InBatch
<1>3. w'[p].pc \in {"row", "claim", "persist", "drain", "named"}
  <2>1. CASE BeginPersist(p)
    <3>1. PICK S, f : w'[p] = [w[p] EXCEPT !.pc = "row", !.pay = S, !.pri = f, !.names = S]
      BY <2>1, BecomeMoves DEF BeginPersist
    <3> QED BY <1>w, <3>1 DEF Worker
  <2>2. CASE PersistRow(p)
    <3>1. PICK S : w'[p] = [w[p] EXCEPT !.pay = S]
      BY <2>2, BecomeMoves DEF PersistRow
    <3> QED BY <1>w, <2>2, <3>1 DEF PersistRow, At, Worker
  <2>3. CASE CommitPersist(p)
    <3>1. w'[p] = [w[p] EXCEPT
        !.pri = [n \in Names |-> 0],
        !.names = IF w[p].mode = "named" THEN @ ELSE {},
        !.mode = IF @ = "late" THEN "drain" ELSE @,
        !.pc = CASE w[p].mode = "first" -> "claim"
                    [] w[p].mode = "late" -> "persist"
                    [] w[p].mode = "drain" -> "drain"
                    [] OTHER -> "named",
        !.ans = IF w[p].mode = "first" THEN LiveAnswers ELSE @,
        !.draining = IF w[p].mode = "first" THEN Claimable(cand') # {} ELSE @]
      BY <2>3, BecomeMoves DEF CommitPersist
    <3> QED BY <1>w, <3>1 DEF Worker
  <2> QED BY <2>1, <2>2, <2>3 DEF Persist
<1>4. \A n \in Names : seed'[n].st # "processing" /\ cand'[n].st # "processing"
  <2>1. CASE BeginPersist(p) \/ PersistRow(p)
    BY <1>2, <2>1 DEF BeginPersist, PersistRow, db
  <2>2. CASE CommitPersist(p)
    <3>1. lock # NoProc /\ seed' = wk
          /\ cand' = [n \in Names |-> IF wk[n].st # "none" THEN NoCand ELSE cand[n]]
      BY <2>2, ProcsAssumption DEF CommitPersist
    <3>2. ASSUME NEW n \in Names PROVE seed'[n].st # "processing" /\ cand'[n].st # "processing"
      BY <1>2, <3>1, PersistingRow DEF KeptRow, AddedRow, NoCand
    <3> QED BY <3>2
  <2> QED BY <2>1, <2>2 DEF Persist
<1> QED BY <1>3, <1>4 DEF Holding, Claiming, Working, InBatch

\* ClaimsHeld is inductive: a resumed run reopens every row of a run that died.
LEMMA StepClaimsHeld ==
    TypeOK /\ Alone /\ Shape /\ Persisting /\ ClaimsHeld /\ [Next]_vars => ClaimsHeld'
<1> SUFFICES ASSUME TypeOK, Alone, Shape, Persisting, ClaimsHeld, [Next]_vars, ~Overlap,
                    NEW q \in Procs, w'[q].pc # "off"
             PROVE  Holding(q)'
    BY DEF ClaimsHeld
<1>1. ASSUME NEW p \in Procs, Begin(p) PROVE Holding(q)'
  <2>1. \A x \in Procs : w[x].pc = "off"
    BY <1>1 DEF Begin, At
  <2>2. w'[p] = [Off EXCEPT !.pc = "persist"] /\ \A x \in Procs \ {p} : w'[x] = w[x]
    BY <1>1, BecomeMoves DEF Begin
  <2>3. w'[q].pc = "persist"
    BY <2>1, <2>2 DEF Off
  <2>4. ASSUME NEW n \in Names PROVE seed'[n].st # "processing" /\ cand'[n].st # "processing"
    <3>1. seed \in [Names -> SeedRow] /\ cand \in [Names -> CandRow]
      BY DEF TypeOK
    <3>2. seed' = Reopened(seed) /\ cand' = Reopened(cand)
      BY <1>1 DEF Begin
    <3>3. seed'[n].st # "processing"
      BY <3>1, <3>2, ReopenSeedRow
    <3>4. cand'[n].st # "processing"
      BY <3>1, <3>2, ReopenCandRow
    <3> QED BY <3>3, <3>4
  <2> QED BY <2>3, <2>4 DEF Holding, Claiming, Working, InBatch
<1>2. ASSUME NEW p \in Procs, Work(p) \/ Interrupt(p) PROVE Holding(q)'
  <2>1. w[p].pc # "off" /\ \A x \in Procs \ {p} : w'[x] = w[x]
    BY <1>2, OneMoves
  <2>2. q = p
    BY <2>1, OthersOff
  <2>3. Holding(p)
    BY <2>1 DEF ClaimsHeld
  <2>4. ~Interrupt(p)
    BY <2>2, BecomeMoves DEF Interrupt, Off
  <2> QED BY <1>2, <2>2, <2>3, <2>4, WaveHolding, BatchHolding, PersistHolding, ClosingHolding
     DEF Work
<1>3. CASE UNCHANGED <<seed, cand, w>>
  <2>1. Holding(q)
    BY <1>3 DEF ClaimsHeld
  <2> QED BY <1>3, <2>1
     DEF Holding, HoldsSeed, HoldsCand, NotStarted, Terminal, WaveHosts, Outstanding
<1> QED BY <1>1, <1>2, <1>3 DEF Next, CacheFill, vars, db

-----------------------------------------------------------------------------
(* Charges.                                                                *)

\* A table and the runs that may still charge a row of it, before and after a
\* step of p: either the row is charged no more and p cannot charge it anew, or
\* the row has budget left, or p has just used the charge it had.
LEMMA ChargeKept ==
    ASSUME NEW a \in Nat, NEW b \in Nat, NEW A \in SUBSET Procs, NEW B \in SUBSET Procs,
           NEW p \in Procs, B \ {p} \subseteq A \ {p}, ~Overlap => B \subseteq {p},
           a + Cardinality(A) <= MaxAttempts - 1 + Width,
           \/ b <= a /\ (p \in B => p \in A)
           \/ b <= MaxAttempts - 1
           \/ b = a + 1 /\ p \in A /\ p \notin B
    PROVE  b + Cardinality(B) <= MaxAttempts - 1 + Width
<1>1. /\ IsFiniteSet(A) /\ IsFiniteSet(B) /\ IsFiniteSet(Procs) /\ MaxAttempts \in Nat
      /\ Cardinality(A) \in Nat /\ Cardinality(B) \in Nat /\ Cardinality(Procs) \in Nat
    BY ProcsAssumption, LimitsAssumption, FS_Subset, FS_CardinalityType
<1>2. Width \in Nat /\ Cardinality(B) <= Width
  <2>1. CASE Overlap
    <3>1. Cardinality(B) <= Cardinality(Procs)
      BY <1>1, FS_Subset
    <3> QED BY <1>1, <2>1, <3>1 DEF Width
  <2>2. CASE ~Overlap
    <3>1. IsFiniteSet({p}) /\ Cardinality({p}) = 1
      BY FS_Singleton
    <3>2. Cardinality(B) <= 1
      BY <2>2, <3>1, FS_Subset
    <3> QED BY <2>2, <3>2 DEF Width
  <2> QED BY <2>1, <2>2
<1>3. CASE b <= a /\ (p \in B => p \in A)
  <2>1. B \subseteq A
    BY <1>3
  <2>2. Cardinality(B) <= Cardinality(A)
    BY <1>1, <2>1, FS_Subset
  <2> QED BY <1>1, <1>2, <1>3, <2>2
<1>4. CASE b <= MaxAttempts - 1
    BY <1>1, <1>2, <1>4
<1>5. CASE b = a + 1 /\ p \in A /\ p \notin B
  <2>1. B \subseteq A \ {p} /\ IsFiniteSet(A \ {p}) /\ Cardinality(A \ {p}) = Cardinality(A) - 1
    BY <1>1, <1>5, FS_RemoveElement
  <2>2. Cardinality(B) <= Cardinality(A \ {p})
    BY <2>1, FS_Subset
  <2> QED BY <1>1, <1>2, <1>5, <2>1, <2>2
<1> QED BY <1>3, <1>4, <1>5

\* What a step of p does to one row of each table and to the charges of p.
SeedCharge(p, n) ==
    \/ seed'[n].att <= seed[n].att /\ (MayChargeSeed(p, n)' => MayChargeSeed(p, n))
    \/ seed'[n].att <= MaxAttempts - 1
    \/ seed'[n].att = seed[n].att + 1 /\ MayChargeSeed(p, n) /\ ~MayChargeSeed(p, n)'
CandCharge(p, n) ==
    \/ cand'[n].att <= cand[n].att /\ (MayCharge(p, n)' => MayCharge(p, n))
    \/ cand'[n].att <= MaxAttempts - 1
    \/ cand'[n].att = cand[n].att + 1 /\ MayCharge(p, n) /\ ~MayCharge(p, n)'

\* A claimable row has budget left, and the other queue has no charge for its name.
LEMMA BudgetLeft ==
    ASSUME TypeOK, Disjoint, Blank, NEW n \in Names
    PROVE  /\ n \in Claimable(seed) => seed[n].att <= MaxAttempts - 1 /\ cand[n].att = 0
           /\ n \in Claimable(cand) => cand[n].att <= MaxAttempts - 1 /\ seed[n].att = 0
           /\ seed[n].att \in Nat /\ cand[n].att \in Nat /\ 0 <= MaxAttempts - 1
<1>1. seed[n].att \in Nat /\ cand[n].att \in Nat
    BY DEF TypeOK, SeedRow, CandRow
<1>2. MaxAttempts \in Nat /\ MaxAttempts # 0
    BY LimitsAssumption
<1> QED BY <1>1, <1>2 DEF Claimable, Disjoint, Blank, BlankRows

\* A run that claims seeds, in any of the three ways.
LEMMA ClaimCharges ==
    ASSUME TypeOK, Disjoint, Blank, NEW p \in Procs, NEW S, S \subseteq Claimable(seed),
           seed' = SetStatus(seed, S, "processing"), cand' = cand,
           \A n \in Names : MayCharge(p, n)' => n \in S,
           w'[p].pc # "starts"
    PROVE  \A n \in Names : SeedCharge(p, n) /\ CandCharge(p, n)
<1> SUFFICES ASSUME NEW n \in Names PROVE SeedCharge(p, n) /\ CandCharge(p, n)
    OBVIOUS
<1>1. seed'[n].att = seed[n].att /\ cand'[n].att = cand[n].att
    BY SetSeedRow DEF TypeOK
<1>2. CASE n \in S
  <2>1. seed[n].att <= MaxAttempts - 1 /\ cand[n].att = 0 /\ 0 <= MaxAttempts - 1
    BY <1>2, BudgetLeft
  <2> QED BY <1>1, <2>1 DEF SeedCharge, CandCharge
<1>3. CASE n \notin S
  <2>1. ~MayCharge(p, n)' /\ ~MayChargeSeed(p, n)'
    BY <1>3 DEF MayChargeSeed
  <2> QED BY <1>1, <2>1, BudgetLeft DEF SeedCharge, CandCharge
<1> QED BY <1>2, <1>3

\* A run that charges nothing and can charge no name that it could not before.
LEMMA PassCharges ==
    ASSUME TypeOK, Disjoint, Blank, NEW p \in Procs,
           \A n \in Names : /\ seed'[n].att = seed[n].att \/ seed'[n].att = 0
                            /\ cand'[n].att = cand[n].att \/ cand'[n].att = 0
                            /\ MayCharge(p, n)' => MayCharge(p, n),
           w'[p].pc # "starts"
    PROVE  \A n \in Names : SeedCharge(p, n) /\ CandCharge(p, n)
BY BudgetLeft DEF SeedCharge, CandCharge, MayChargeSeed

\* The transactions of a wave charge nothing; a claim allows one charge.
LEMMA WaveCharges ==
    ASSUME TypeOK, Shape, Disjoint, Blank, NEW p \in Procs, Wave(p)
    PROVE  \A n \in Names : SeedCharge(p, n) /\ CandCharge(p, n)
<1>w. /\ w[p] \in Worker /\ ShapeOf(w[p])
      /\ seed \in [Names -> SeedRow] /\ cand \in [Names -> CandRow]
    BY DEF TypeOK, Shape
<1> USE DEF At
<1>1. CASE ClaimSeeds(p)
  <2>1. PICK S \in SUBSET Names : /\ S \subseteq Claimable(seed) /\ w'[p].seeds = S
                                  /\ seed' = SetStatus(seed, S, "processing")
                                  /\ w'[p].pc = "capacity"
    BY <1>1, ClaimSeedsMoves
  <2>2. cand' = cand
    BY <1>1 DEF ClaimSeeds
  <2>3. \A n \in Names : MayCharge(p, n)' => n \in S
    BY <2>1 DEF MayCharge, Claiming, Working, InBatch
  <2> QED BY <2>1, <2>2, <2>3, ClaimCharges
<1>2. CASE ReadCapacity(p)
  <2>1. PICK c : w'[p] = [w[p] EXCEPT !.pc = "refill", !.cap = c]
    BY <1>2, BecomeMoves, Zenon DEF ReadCapacity
  <2>2. w'[p].seeds = w[p].seeds /\ w'[p].pc = "refill" /\ w[p].pc = "capacity"
    BY <1>w, <1>2, <2>1 DEF Worker, ReadCapacity
  <2>3. \A n \in Names : MayCharge(p, n)' => MayCharge(p, n)
    BY <2>2 DEF MayCharge, Claiming, Working, InBatch
  <2>4. seed' = seed /\ cand' = cand
    BY <1>2 DEF ReadCapacity, db
  <2> QED BY <2>2, <2>3, <2>4, PassCharges
<1>3. CASE RefillQueue(p)
  <2>1. w'[p] = [w[p] EXCEPT !.pc = "claimc", !.cap = 0]
    BY <1>3, BecomeMoves, Zenon DEF RefillQueue
  <2>2. w'[p].seeds = w[p].seeds /\ w'[p].pc = "claimc" /\ w[p].pc = "refill"
    BY <1>w, <1>3, <2>1 DEF Worker, RefillQueue
  <2>3. \A n \in Names : MayCharge(p, n)' => MayCharge(p, n)
    BY <2>2 DEF MayCharge, Claiming, Working, InBatch
  <2>4. PICK S : seed' = seed /\ cand' = SetStatus(cand, S, "queued")
    BY <1>3, Zenon DEF RefillQueue
  <2>5. \A n \in Names : seed'[n].att = seed[n].att /\ cand'[n].att = cand[n].att
    BY <1>w, <2>4, SetCandRow
  <2> QED BY <2>2, <2>3, <2>5, PassCharges
<1>4. CASE ClaimCands(p)
  <2>1. PICK S \in SUBSET Names :
            /\ S \subseteq Claimable(cand)
            /\ cand' = SetStatus(cand, S, "processing")
            /\ w'[p] = [w[p] EXCEPT !.cands = S, !.todo = w[p].seeds \cup S,
                !.pc = CASE w[p].mode = "first" -> "demote"
                        [] w[p].mode = "wave" /\ w[p].seeds \cup S # {} -> "resolve"
                        [] w[p].mode = "wave" /\ w[p].seeds \cup S = {} /\ ~w[p].out
                              /\ w[p].gen /\ FeedsMore -> "claim"
                        [] OTHER -> "late"]
    <3>1. PICK S \in SUBSET Names :
            /\ IsPage(S, IF w[p].out THEN {} ELSE Claimable(cand), CandPriority,
                      WaveLimit - Cardinality(w[p].seeds))
            /\ cand' = SetStatus(cand, S, "processing")
            /\ Become(p, [w[p] EXCEPT !.cands = S, !.todo = w[p].seeds \cup S,
                !.pc = CASE w[p].mode = "first" -> "demote"
                        [] w[p].mode = "wave" /\ w[p].seeds \cup S # {} -> "resolve"
                        [] w[p].mode = "wave" /\ w[p].seeds \cup S = {} /\ ~w[p].out
                              /\ w[p].gen /\ FeedsMore -> "claim"
                        [] OTHER -> "late"])
      BY <1>4, Zenon DEF ClaimCands
    <3>2. S \subseteq Claimable(cand)
      BY <3>1 DEF IsPage
    <3> QED BY <3>1, <3>2, BecomeMoves, Zenon
  <2>2. w'[p].todo = w[p].seeds \cup S /\ w'[p].pc \in {"demote", "resolve", "claim", "late"}
    BY <1>w, <2>1 DEF Worker
  <2>3. seed' = seed /\ w[p].pc = "claimc"
    BY <1>4 DEF ClaimCands
  <2>4. ASSUME NEW n \in Names PROVE SeedCharge(p, n) /\ CandCharge(p, n)
    <3>1. cand'[n].att = cand[n].att /\ seed'[n].att = seed[n].att
      BY <1>w, <2>1, <2>3, SetCandRow
    <3>2. CASE n \in S
      <4>1. cand[n].att <= MaxAttempts - 1 /\ seed[n].att = 0 /\ 0 <= MaxAttempts - 1
        BY <2>1, <3>2, BudgetLeft
      <4> QED BY <3>1, <4>1 DEF SeedCharge, CandCharge
    <3>3. CASE n \notin S
      <4>1. MayCharge(p, n)' => n \in w[p].seeds
        BY <2>2, <3>3 DEF MayCharge, Claiming, Working, InBatch
      <4>2. n \in w[p].seeds => MayCharge(p, n)
        BY <2>3 DEF MayCharge, Claiming
      <4>3. MayChargeSeed(p, n)' => MayCharge(p, n)'
        BY <2>2 DEF MayChargeSeed
      <4> QED BY <3>1, <4>1, <4>2, <4>3, BudgetLeft DEF SeedCharge, CandCharge, MayChargeSeed
    <3> QED BY <3>2, <3>3
  <2> QED BY <2>4
<1>5. CASE Demote(p)
  <2>1. PICK D :
            /\ seed' = [n \in Names |-> IF n \in D
                          THEN [st |-> "queued", att |-> 0, pri |-> seed[n].pri] ELSE seed[n]]
            /\ cand' = [n \in Names |-> IF n \in D THEN NoCand ELSE cand[n]]
            /\ w'[p] = [w[p] EXCEPT !.ans = @ \ D,
                          !.pc = IF w[p].todo = {} THEN "record" ELSE "resolve"]
    BY <1>5, BecomeMoves DEF Demote
  <2>2. w'[p].todo = w[p].todo /\ w'[p].pc \in {"record", "resolve"} /\ w[p].pc = "demote"
    BY <1>w, <1>5, <2>1 DEF Worker, Demote
  <2>3. \A n \in Names : MayCharge(p, n)' => MayCharge(p, n)
    BY <2>2 DEF MayCharge, Claiming, Working, InBatch
  <2>4. \A n \in Names : /\ seed'[n].att = seed[n].att \/ seed'[n].att = 0
                         /\ cand'[n].att = cand[n].att \/ cand'[n].att = 0
    BY <2>1 DEF NoCand
  <2> QED BY <2>2, <2>3, <2>4, PassCharges
<1>6. CASE RecordLearning(p) \/ DoneCands(p) \/ RequeueCands(p) \/ RequeueSeeds(p) \/ DoneSeeds(p)
  <2>1. w'[p].pc \in {"donec", "requeuec", "requeues", "dones", "claim"}
    <3>1. CASE DoneSeeds(p)
      <4>1. w'[p] = [w[p] EXCEPT !.pc = "claim", !.mode = "wave", !.seeds = {}, !.cands = {},
                                 !.res = EmptyRes]
        BY <3>1, BecomeMoves DEF DoneSeeds
      <4> QED BY <1>w, <4>1 DEF Worker
    <3>2. CASE ~DoneSeeds(p)
      <4>1. PICK pc \in {"donec", "requeuec", "requeues", "dones"} :
                w'[p] = [w[p] EXCEPT !.pc = pc]
        BY <1>6, <3>2, BecomeMoves DEF RecordLearning, DoneCands, RequeueCands, RequeueSeeds
      <4> QED BY <1>w, <4>1 DEF Worker
    <3> QED BY <3>1, <3>2
  <2>2. \A n \in Names : ~MayCharge(p, n)'
    BY <2>1 DEF MayCharge, Claiming, Working, InBatch
  <2>3. ASSUME NEW n \in Names PROVE seed'[n].att = seed[n].att
    BY <1>w, <1>6, RequeueSeedRow, SettledSeedRow
       DEF RecordLearning, DoneCands, RequeueCands, RequeueSeeds, DoneSeeds
  <2>4. ASSUME NEW n \in Names PROVE cand'[n].att = cand[n].att
    <3>1. cand[n] \in CandRow
      BY <1>w
    <3>2. CASE RecordLearning(p)
      BY <3>1, <3>2 DEF RecordLearning, CandRow
    <3>3. CASE DoneCands(p)
      BY <3>1, <3>3, SettledRow DEF DoneCands
    <3>4. CASE RequeueCands(p)
      BY <1>w, <3>4, RequeueCandRow DEF RequeueCands
    <3> QED BY <1>6, <3>2, <3>3, <3>4 DEF RequeueSeeds, DoneSeeds
  <2> QED BY <2>1, <2>2, <2>3, <2>4, PassCharges
<1> QED BY <1>1, <1>2, <1>3, <1>4, <1>5, <1>6 DEF Wave

\* The two started transactions use the one charge of each host they find claimed.
LEMMA BatchCharges ==
    ASSUME TypeOK, Shape, Disjoint, Blank, NEW p \in Procs, Batch(p)
    PROVE  \A n \in Names : SeedCharge(p, n) /\ CandCharge(p, n)
<1>w. /\ w[p] \in Worker /\ ShapeOf(w[p])
      /\ seed \in [Names -> SeedRow] /\ cand \in [Names -> CandRow]
    BY DEF TypeOK, Shape
<1> USE DEF At
<1>1. CASE Resolve(p)
  <2>1. /\ w'[p].cur \subseteq w[p].todo /\ w'[p].todo = w[p].todo \ w'[p].cur
        /\ w[p].pc = "resolve" /\ w'[p].pc = "startc" /\ seed' = seed /\ cand' = cand
    BY <1>1, ResolveMoves
  <2>2. \A n \in Names : MayCharge(p, n)' => MayCharge(p, n)
    BY <2>1 DEF MayCharge, Claiming, Working, InBatch
  <2> QED BY <2>1, <2>2, PassCharges
<1>2. CASE StartCands(p)
  <2>1. w'[p] = [w[p] EXCEPT !.pc = "starts"] /\ w[p].pc = "startc" /\ seed' = seed
        /\ cand' = Started(cand, Hosts(p, Network))
    BY <1>2, BecomeMoves DEF StartCands
  <2>2. w'[p].todo = w[p].todo /\ w'[p].cur = w[p].cur /\ w'[p].pc = "starts"
        /\ w[p].cur \cap w[p].todo = {}
    BY <1>w, <2>1 DEF Worker, ShapeOf, InBatch
  <2>3. ASSUME NEW n \in Names PROVE SeedCharge(p, n) /\ CandCharge(p, n)
    <3>1. /\ MayCharge(p, n) <=> n \in w[p].todo \/ n \in w[p].cur
          /\ MayCharge(p, n)' <=> n \in w[p].todo
          /\ MayChargeSeed(p, n) <=> n \in w[p].todo \/ n \in w[p].cur
          /\ MayChargeSeed(p, n)' <=> n \in w[p].todo \/ n \in w[p].cur
      BY <2>1, <2>2 DEF MayCharge, MayChargeSeed, Claiming, Working, InBatch
    <3>2. cand'[n].att = cand[n].att \/ (cand'[n].att = cand[n].att + 1 /\ n \in w[p].cur)
      BY <1>w, <2>1, StartCandRow DEF Hosts
    <3>3. seed[n].att \in Nat /\ cand[n].att \in Nat
      BY BudgetLeft
    <3> QED BY <2>1, <2>2, <3>1, <3>2, <3>3 DEF SeedCharge, CandCharge
  <2> QED BY <2>3
<1>3. CASE StartSeeds(p)
  <2>1. w'[p] = [w[p] EXCEPT !.pc = "unstart"] /\ w[p].pc = "starts" /\ cand' = cand
        /\ seed' = Started(seed, Hosts(p, Network))
    BY <1>3, BecomeMoves DEF StartSeeds
  <2>2. w'[p].todo = w[p].todo /\ w'[p].pc = "unstart" /\ w[p].cur \cap w[p].todo = {}
    BY <1>w, <2>1 DEF Worker, ShapeOf, InBatch
  <2>3. ASSUME NEW n \in Names PROVE SeedCharge(p, n) /\ CandCharge(p, n)
    <3>1. /\ MayCharge(p, n) <=> n \in w[p].todo
          /\ MayCharge(p, n)' <=> n \in w[p].todo
          /\ MayChargeSeed(p, n) <=> n \in w[p].todo \/ n \in w[p].cur
          /\ MayChargeSeed(p, n)' <=> n \in w[p].todo
      BY <2>1, <2>2 DEF MayCharge, MayChargeSeed, Claiming, Working, InBatch
    <3>2. seed'[n].att = seed[n].att \/ (seed'[n].att = seed[n].att + 1 /\ n \in w[p].cur)
      BY <1>w, <2>1, StartSeedRow DEF Hosts
    <3>3. seed[n].att \in Nat /\ cand[n].att \in Nat
      BY BudgetLeft
    <3> QED BY <2>1, <2>2, <3>1, <3>2, <3>3 DEF SeedCharge, CandCharge
  <2> QED BY <2>3
<1>4. CASE \/ UnstartSeeds(p) \/ QuarantineNonexistent(p) \/ RecordWildcardMatches(p)
           \/ PurgeWildcards(p) \/ Journal(p) \/ JournalDiscovery(p)
  <2>1. PICK pc \in InBatch \ {"startc", "starts"} : w'[p] = [w[p] EXCEPT !.pc = pc]
    BY <1>4, BecomeMoves DEF UnstartSeeds, QuarantineNonexistent, RecordWildcardMatches,
       PurgeWildcards, Journal, JournalDiscovery, InBatch
  <2>2. w'[p].todo = w[p].todo /\ w'[p].pc = pc
    BY <1>w, <2>1 DEF Worker
  <2>3. w[p].pc \in InBatch /\ cand' = cand
    BY <1>4 DEF UnstartSeeds, QuarantineNonexistent, RecordWildcardMatches,
       PurgeWildcards, Journal, JournalDiscovery, InBatch
  <2>4. \A n \in Names : MayCharge(p, n)' => MayCharge(p, n)
    BY <2>1, <2>2, <2>3 DEF MayCharge, Claiming, Working, InBatch
  <2>5. ASSUME NEW n \in Names PROVE seed'[n].att = seed[n].att
    BY <1>w, <1>4, RequeueSeedRow DEF UnstartSeeds, QuarantineNonexistent, RecordWildcardMatches,
       PurgeWildcards, Journal, JournalDiscovery
  <2> QED BY <2>1, <2>2, <2>3, <2>4, <2>5, PassCharges
<1>5. CASE PersistFindings(p)
  <2>1. PICK F : w'[p] = [w[p] EXCEPT !.ans = @ \cup F, !.cur = {},
            !.pc = CASE w[p].todo # {} -> "resolve"
                        [] w[p].todo = {} /\ Bounded(p) -> "brequeue"
                        [] OTHER -> "record"]
    BY <1>5, BecomeMoves DEF PersistFindings
  <2>2. w'[p].todo = w[p].todo /\ w'[p].pc \in {"resolve", "brequeue", "record"}
    BY <1>w, <2>1 DEF Worker
  <2>3. seed' = seed /\ cand' = cand /\ w[p].pc = "findings"
    BY <1>5 DEF PersistFindings
  <2>4. \A n \in Names : MayCharge(p, n)' => MayCharge(p, n)
    BY <2>2, <2>3 DEF MayCharge, Claiming, Working, InBatch
  <2> QED BY <2>2, <2>3, <2>4, PassCharges
<1> QED BY <1>1, <1>2, <1>3, <1>4, <1>5 DEF Batch

\* The steps after the waves charge nothing; a bounded claim allows one charge.
LEMMA ClosingCharges ==
    ASSUME TypeOK, Shape, Disjoint, Blank, NEW p \in Procs, Closing(p)
    PROVE  \A n \in Names : SeedCharge(p, n) /\ CandCharge(p, n)
<1>w. /\ w[p] \in Worker /\ ShapeOf(w[p])
      /\ seed \in [Names -> SeedRow] /\ cand \in [Names -> CandRow]
    BY DEF TypeOK, Shape
<1> USE DEF At
<1>1. CASE JoinLateCt(p) \/ Enrich(p)
  <2>1. \/ \E m \in {"late", "named"} :
                w'[p] = [w[p] EXCEPT !.mode = m, !.pc = "persist", !.calls = w[p].calls + 1]
        \/ \E pc \in {"enrich", "final"} : w'[p] = [w[p] EXCEPT !.pc = pc]
    BY <1>1, BecomeMoves DEF JoinLateCt, Enrich
  <2>2. w'[p].pc \in {"persist", "enrich", "final"}
    BY <1>w, <2>1 DEF Worker
  <2>3. seed' = seed /\ cand' = cand
    BY <1>1 DEF JoinLateCt, Enrich, db
  <2>4. \A n \in Names : ~MayCharge(p, n)'
    BY <2>2 DEF MayCharge, Claiming, Working, InBatch
  <2> QED BY <2>2, <2>3, <2>4, PassCharges
<1>2. CASE DrainClaim(p)
  <2>1. PICK S \in SUBSET Names :
            /\ IsPage(S, IF w[p].out THEN {} ELSE Claimable(seed), SeedPriority, WaveLimit)
            /\ seed' = SetStatus(seed, S, "processing")
            /\ Become(p, [w[p] EXCEPT !.seeds = S, !.cands = {}, !.res = EmptyRes,
                                    !.pc = IF S = {} THEN "enrich" ELSE "answered"])
    BY <1>2, Zenon DEF DrainClaim
  <2>2. S \subseteq Claimable(seed)
    BY <2>1 DEF IsPage
  <2>3. w'[p] = [w[p] EXCEPT !.seeds = S, !.cands = {}, !.res = EmptyRes,
                             !.pc = IF S = {} THEN "enrich" ELSE "answered"]
    BY <2>1, BecomeMoves
  <2>4. w'[p].seeds = S /\ w'[p].pc \in {"enrich", "answered"}
    BY <1>w, <2>3 DEF Worker
  <2>5. \A n \in Names : MayCharge(p, n)' => n \in S
    BY <2>4 DEF MayCharge, Claiming, Working, InBatch
  <2>6. cand' = cand
    BY <1>2 DEF DrainClaim
  <2> QED BY <2>1, <2>2, <2>4, <2>5, <2>6, ClaimCharges
<1>3. CASE MarkAnswered(p)
  <2>1. w'[p] = [w[p] EXCEPT !.seeds = @ \ w[p].ans, !.todo = w[p].seeds \ w[p].ans,
                             !.pc = IF w[p].seeds \subseteq w[p].ans THEN "drain" ELSE "resolve"]
    BY <1>3, BecomeMoves DEF MarkAnswered
  <2>2. /\ w'[p].todo = w[p].seeds \ w[p].ans /\ w'[p].pc \in {"drain", "resolve"}
        /\ w[p].pc = "answered" /\ cand' = cand
    BY <1>w, <1>3, <2>1 DEF Worker, MarkAnswered
  <2>3. \A n \in Names : MayCharge(p, n)' => MayCharge(p, n)
    BY <2>2 DEF MayCharge, Claiming, Working, InBatch
  <2>4. \A n \in Names : seed'[n].att = seed[n].att
    BY <1>3, SettledSeedRow DEF MarkAnswered
  <2> QED BY <2>2, <2>3, <2>4, PassCharges
<1>4. CASE ClaimNamed(p)
  <2>1. PICK S :
            /\ seed' = SetStatus(seed, S, "processing") /\ S \subseteq Claimable(seed)
            /\ w'[p] = [w[p] EXCEPT !.seeds = S, !.cands = {}, !.todo = S, !.names = {},
                              !.res = EmptyRes, !.pc = IF S = {} THEN "enrich" ELSE "resolve"]
    BY <1>4, BecomeMoves DEF ClaimNamed
  <2>2. w'[p].todo = S /\ w'[p].pc \in {"enrich", "resolve"}
    BY <1>w, <2>1 DEF Worker
  <2>3. \A n \in Names : MayCharge(p, n)' => n \in S
    BY <2>2 DEF MayCharge, Claiming, Working, InBatch
  <2>4. cand' = cand
    BY <1>4 DEF ClaimNamed
  <2> QED BY <2>1, <2>2, <2>3, <2>4, ClaimCharges
<1>5. CASE BoundedRequeue(p) \/ BoundedDone(p)
  <2>1. w'[p].pc \in {"bdone", "drain", "enrich"}
    <3>1. CASE BoundedRequeue(p)
      <4>1. w'[p] = [w[p] EXCEPT !.pc = "bdone"]
        BY <3>1, BecomeMoves DEF BoundedRequeue
      <4> QED BY <1>w, <4>1 DEF Worker
    <3>2. CASE BoundedDone(p)
      <4>1. w'[p] = [w[p] EXCEPT !.seeds = {}, !.res = EmptyRes,
                         !.pc = IF w[p].mode = "drain" THEN "drain" ELSE "enrich"]
        BY <3>2, BecomeMoves DEF BoundedDone
      <4> QED BY <1>w, <4>1 DEF Worker
    <3> QED BY <1>5, <3>1, <3>2
  <2>2. \A n \in Names : ~MayCharge(p, n)'
    BY <2>1 DEF MayCharge, Claiming, Working, InBatch
  <2>3. ASSUME NEW n \in Names PROVE seed'[n].att = seed[n].att /\ cand' = cand
    BY <1>w, <1>5, RequeueSeedRow, SettledSeedRow DEF BoundedRequeue, BoundedDone
  <2> QED BY <2>1, <2>2, <2>3, PassCharges
<1>6. CASE Pause(p) \/ Finalize(p)
  <2>1. w'[p].pc = "off"
    BY <1>6, BecomeMoves DEF Pause, Finalize, Off
  <2>2. \A n \in Names : ~MayCharge(p, n)'
    BY <2>1 DEF MayCharge, Claiming, Working, InBatch
  <2>3. \A n \in Names : /\ seed'[n].att = seed[n].att \/ seed'[n].att = 0
                         /\ cand'[n].att = cand[n].att \/ cand'[n].att = 0
    BY <1>6 DEF Pause, Finalize, EmptySeeds, NoSeed, NoCand, db
  <2> QED BY <2>1, <2>2, <2>3, PassCharges
<1> QED BY <1>1, <1>2, <1>3, <1>4, <1>5, <1>6 DEF Closing

\* Where a run stands after its start, its interruption or a step of a persist.
LEMMA PersistEnds ==
    ASSUME TypeOK, NEW p \in Procs, Begin(p) \/ Interrupt(p) \/ Persist(p)
    PROVE  w'[p].pc \in {"off", "row", "claim", "persist", "drain", "named"}
<1>w. w[p] \in Worker
    BY DEF TypeOK
<1>1. CASE BeginPersist(p)
  <2>1. PICK S, f : w'[p] = [w[p] EXCEPT !.pc = "row", !.pay = S, !.pri = f, !.names = S]
    BY <1>1, BecomeMoves DEF BeginPersist
  <2> QED BY <1>w, <2>1 DEF Worker
<1>2. CASE PersistRow(p)
  <2>1. PICK S : w'[p] = [w[p] EXCEPT !.pay = S]
    BY <1>2, BecomeMoves DEF PersistRow
  <2> QED BY <1>w, <1>2, <2>1 DEF PersistRow, At, Worker
<1>3. CASE CommitPersist(p)
  <2>1. w'[p] = [w[p] EXCEPT
      !.pri = [n \in Names |-> 0],
      !.names = IF w[p].mode = "named" THEN @ ELSE {},
      !.mode = IF @ = "late" THEN "drain" ELSE @,
      !.pc = CASE w[p].mode = "first" -> "claim"
                  [] w[p].mode = "late" -> "persist"
                  [] w[p].mode = "drain" -> "drain"
                  [] OTHER -> "named",
      !.ans = IF w[p].mode = "first" THEN LiveAnswers ELSE @,
      !.draining = IF w[p].mode = "first" THEN Claimable(cand') # {} ELSE @]
    BY <1>3, BecomeMoves DEF CommitPersist
  <2> QED BY <1>w, <2>1 DEF Worker
<1>4. CASE Begin(p) \/ Interrupt(p)
  BY <1>4, BecomeMoves DEF Begin, Interrupt, Off
<1> QED BY <1>1, <1>2, <1>3, <1>4 DEF Persist

\* A commit keeps the attempts of the rows it keeps, and every other row has none.
LEMMA PersistCharges ==
    ASSUME TypeOK, Shape, Disjoint, Blank, Persisting, NEW p \in Procs,
           Begin(p) \/ Interrupt(p) \/ Persist(p)
    PROVE  \A n \in Names : SeedCharge(p, n) /\ CandCharge(p, n)
<1>w. /\ w[p] \in Worker /\ seed \in [Names -> SeedRow] /\ cand \in [Names -> CandRow]
    BY DEF TypeOK
<1>1. w'[p].pc \in {"off", "row", "claim", "persist", "drain", "named"}
  BY PersistEnds
<1>2. \A n \in Names : ~MayCharge(p, n)'
  BY <1>1 DEF MayCharge, Claiming, Working, InBatch
<1>3. ASSUME NEW n \in Names
      PROVE  /\ seed'[n].att = seed[n].att \/ seed'[n].att = 0
             /\ cand'[n].att = cand[n].att \/ cand'[n].att = 0
  <2>1. CASE Begin(p)
    <3>1. seed' = Reopened(seed) /\ cand' = Reopened(cand)
      BY <2>1 DEF Begin
    <3>2. seed'[n].att = seed[n].att
      BY <1>w, <3>1, ReopenSeedRow
    <3>3. cand'[n].att = cand[n].att
      BY <1>w, <3>1, ReopenCandRow
    <3> QED BY <3>2, <3>3
  <2>2. CASE Interrupt(p) \/ BeginPersist(p) \/ PersistRow(p)
    BY <2>2 DEF Interrupt, BeginPersist, PersistRow, db
  <2>3. CASE CommitPersist(p)
    <3>1. lock # NoProc /\ seed' = wk
          /\ cand' = [x \in Names |-> IF wk[x].st # "none" THEN NoCand ELSE cand[x]]
      BY <2>3, ProcsAssumption DEF CommitPersist
    <3>2. wk[n].st = "none" => wk[n].att = 0
      BY DEF Blank, BlankRows
    <3> QED BY <3>1, <3>2, PersistingRow DEF KeptRow, AddedRow, NoCand
  <2> QED BY <2>1, <2>2, <2>3 DEF Persist
<1> QED BY <1>1, <1>2, <1>3, PassCharges

\* Charged is inductive.
LEMMA StepCharged ==
    /\ TypeOK /\ TypeOK' /\ Alone /\ Shape /\ Disjoint /\ Blank /\ Persisting /\ Charged
    /\ [Next]_vars
    => Charged'
<1> SUFFICES ASSUME TypeOK, TypeOK', Alone, Shape, Disjoint, Blank, Persisting, Charged,
                    [Next]_vars
             PROVE  Charged'
    OBVIOUS
<1>1. ASSUME NEW p \in Procs, Begin(p) \/ Work(p) \/ Interrupt(p) PROVE Charged'
  <2>1. \A n \in Names : SeedCharge(p, n) /\ CandCharge(p, n)
    BY <1>1, WaveCharges, BatchCharges, ClosingCharges, PersistCharges DEF Work
  <2>2. \A q \in Procs \ {p} : w'[q] = w[q]
    BY <1>1, OneMoves, BecomeMoves DEF Begin
  <2>3. ASSUME NEW n \in Names
        PROVE  /\ SeedChargers(n)' \ {p} \subseteq SeedChargers(n) \ {p}
               /\ CandChargers(n)' \ {p} \subseteq CandChargers(n) \ {p}
    BY <2>2 DEF SeedChargers, CandChargers, MayChargeSeed, MayCharge
  <2>4. ASSUME NEW n \in Names, ~Overlap
        PROVE  SeedChargers(n)' \subseteq {p} /\ CandChargers(n)' \subseteq {p}
    <3>1. w[p].pc # "off" \/ \A q \in Procs : w[q].pc = "off"
      BY <1>1, <2>4, OneMoves DEF Begin, At
    <3>2. \A q \in Procs \ {p} : w[q].pc = "off"
      BY <2>4, <3>1, OthersOff
    <3> QED BY <2>2, <3>2 DEF SeedChargers, CandChargers, MayChargeSeed, MayCharge, Claiming,
            Working, InBatch
  <2>5. ASSUME NEW n \in Names
        PROVE  /\ seed'[n].att + Cardinality(SeedChargers(n)') <= MaxAttempts - 1 + Width
               /\ cand'[n].att + Cardinality(CandChargers(n)') <= MaxAttempts - 1 + Width
    <3>1. /\ SeedChargers(n) \in SUBSET Procs /\ SeedChargers(n)' \in SUBSET Procs
          /\ CandChargers(n) \in SUBSET Procs /\ CandChargers(n)' \in SUBSET Procs
      BY DEF SeedChargers, CandChargers
    <3>2. /\ p \in SeedChargers(n) <=> MayChargeSeed(p, n)
          /\ p \in SeedChargers(n)' <=> MayChargeSeed(p, n)'
          /\ p \in CandChargers(n) <=> MayCharge(p, n)
          /\ p \in CandChargers(n)' <=> MayCharge(p, n)'
      BY DEF SeedChargers, CandChargers
    <3>3. /\ seed[n].att \in Nat /\ seed'[n].att \in Nat
          /\ cand[n].att \in Nat /\ cand'[n].att \in Nat
      BY DEF TypeOK, SeedRow, CandRow
    <3>4. /\ seed[n].att + Cardinality(SeedChargers(n)) <= MaxAttempts - 1 + Width
          /\ cand[n].att + Cardinality(CandChargers(n)) <= MaxAttempts - 1 + Width
      BY DEF Charged
    <3>5. \/ seed'[n].att <= seed[n].att /\ (p \in SeedChargers(n)' => p \in SeedChargers(n))
          \/ seed'[n].att <= MaxAttempts - 1
          \/ seed'[n].att = seed[n].att + 1 /\ p \in SeedChargers(n) /\ p \notin SeedChargers(n)'
      BY <2>1, <3>2 DEF SeedCharge
    <3>6. \/ cand'[n].att <= cand[n].att /\ (p \in CandChargers(n)' => p \in CandChargers(n))
          \/ cand'[n].att <= MaxAttempts - 1
          \/ cand'[n].att = cand[n].att + 1 /\ p \in CandChargers(n) /\ p \notin CandChargers(n)'
      BY <2>1, <3>2 DEF CandCharge
    <3>7. seed'[n].att + Cardinality(SeedChargers(n)') <= MaxAttempts - 1 + Width
      BY <2>3, <2>4, <3>1, <3>3, <3>4, <3>5, ChargeKept
    <3>8. cand'[n].att + Cardinality(CandChargers(n)') <= MaxAttempts - 1 + Width
      BY <2>3, <2>4, <3>1, <3>3, <3>4, <3>6, ChargeKept
    <3> QED BY <3>7, <3>8
  <2> QED BY <2>5 DEF Charged, Width
<1>2. CASE UNCHANGED <<seed, cand, w>>
    BY <1>2 DEF Charged, SeedChargers, CandChargers, MayChargeSeed, MayCharge, Width
<1> QED BY <1>1, <1>2 DEF Next, CacheFill, vars, db

-----------------------------------------------------------------------------
(* Generated names.                                                        *)

\* A union is no larger than its parts together.
LEMMA AtMostSum ==
    ASSUME NEW A, NEW B, IsFiniteSet(A), IsFiniteSet(B)
    PROVE  /\ IsFiniteSet(A \cup B) /\ Cardinality(A \cup B) \in Nat
           /\ Cardinality(A \cup B) <= Cardinality(A) + Cardinality(B)
<1>1. /\ IsFiniteSet(A \cup B)
      /\ Cardinality(A \cup B) = Cardinality(A) + Cardinality(B) - Cardinality(A \cap B)
    BY FS_Union
<1>2. /\ Cardinality(A \cap B) \in Nat /\ Cardinality(A) \in Nat /\ Cardinality(B) \in Nat
      /\ Cardinality(A \cup B) \in Nat
    BY <1>1, FS_Intersection, FS_CardinalityType
<1> QED BY <1>1, <1>2

\* The budget a run reads is what the invariant counts.
LEMMA BudgetCounts == Budget = stats + Cardinality(Uncounted)
<1>1. {n \in Rows(cand) : ~cand[n].rec} = Uncounted
    BY DEF Rows, Uncounted
<1> QED BY <1>1 DEF Budget

\* Only the read of the capacity leads to the refill.
LEMMA OnlyReadRefills ==
    ASSUME TypeOK, NEW p \in Procs, Begin(p) \/ Work(p) \/ Interrupt(p), ~ReadCapacity(p)
    PROVE  w'[p].pc # "refill"
<1>w. w[p] \in Worker
    BY DEF TypeOK
<1>1. CASE Begin(p) \/ Interrupt(p) \/ Pause(p) \/ Finalize(p)
    BY <1>1, BecomeMoves DEF Begin, Interrupt, Pause, Finalize, Off
<1>2. CASE ClaimSeeds(p) \/ Resolve(p)
    BY <1>2, ClaimSeedsMoves, ResolveMoves
<1>3. CASE \/ RecordLearning(p) \/ DoneCands(p) \/ RequeueCands(p) \/ RequeueSeeds(p)
           \/ StartCands(p) \/ StartSeeds(p) \/ UnstartSeeds(p) \/ QuarantineNonexistent(p)
           \/ RecordWildcardMatches(p) \/ PurgeWildcards(p) \/ Journal(p)
           \/ JournalDiscovery(p) \/ BoundedRequeue(p)
  <2>1. PICK pc \in PCs \ {"refill"} : w'[p] = [w[p] EXCEPT !.pc = pc]
    BY <1>3, BecomeMoves DEF RecordLearning, DoneCands, RequeueCands, RequeueSeeds,
       StartCands, StartSeeds, UnstartSeeds, QuarantineNonexistent, RecordWildcardMatches,
       PurgeWildcards, Journal, JournalDiscovery, BoundedRequeue, PCs
  <2> QED BY <1>w, <2>1 DEF Worker
<1>4. CASE RefillQueue(p) \/ DoneSeeds(p) \/ BoundedDone(p)
  <2>1. \/ w'[p] = [w[p] EXCEPT !.pc = "claimc", !.cap = 0]
        \/ w'[p] = [w[p] EXCEPT !.pc = "claim", !.mode = "wave", !.seeds = {}, !.cands = {},
                                !.res = EmptyRes]
        \/ w'[p] = [w[p] EXCEPT !.seeds = {}, !.res = EmptyRes,
                         !.pc = IF w[p].mode = "drain" THEN "drain" ELSE "enrich"]
    BY <1>4, BecomeMoves, Zenon DEF RefillQueue, DoneSeeds, BoundedDone
  <2> QED BY <1>w, <2>1 DEF Worker
<1>5. CASE ClaimCands(p)
  <2>1. PICK S : Become(p, [w[p] EXCEPT !.cands = S, !.todo = w[p].seeds \cup S,
            !.pc = CASE w[p].mode = "first" -> "demote"
                        [] w[p].mode = "wave" /\ w[p].seeds \cup S # {} -> "resolve"
                        [] w[p].mode = "wave" /\ w[p].seeds \cup S = {} /\ ~w[p].out
                              /\ w[p].gen /\ FeedsMore -> "claim"
                        [] OTHER -> "late"])
    BY <1>5, Zenon DEF ClaimCands
  <2>2. \E pc \in PCs \ {"refill"} :
            w'[p] = [w[p] EXCEPT !.cands = S, !.todo = w[p].seeds \cup S, !.pc = pc]
    BY <2>1, BecomeMoves DEF PCs
  <2> QED BY <1>w, <2>2 DEF Worker
<1>6. CASE Demote(p)
  <2>1. PICK D : Become(p, [w[p] EXCEPT !.ans = @ \ D,
                              !.pc = IF w[p].todo = {} THEN "record" ELSE "resolve"])
    BY <1>6, Zenon DEF Demote
  <2>2. w'[p] = [w[p] EXCEPT !.ans = @ \ D,
                             !.pc = IF w[p].todo = {} THEN "record" ELSE "resolve"]
    BY <2>1, BecomeMoves
  <2> QED BY <1>w, <2>2 DEF Worker
<1>7. CASE PersistFindings(p)
  <2>1. PICK F : w'[p] = [w[p] EXCEPT !.ans = @ \cup F, !.cur = {},
            !.pc = CASE w[p].todo # {} -> "resolve"
                        [] w[p].todo = {} /\ Bounded(p) -> "brequeue"
                        [] OTHER -> "record"]
    BY <1>7, BecomeMoves DEF PersistFindings
  <2> QED BY <1>w, <2>1 DEF Worker
<1>8. CASE JoinLateCt(p) \/ Enrich(p) \/ MarkAnswered(p)
  <2>1. \/ \E m \in {"late", "named"} :
                w'[p] = [w[p] EXCEPT !.mode = m, !.pc = "persist", !.calls = w[p].calls + 1]
        \/ \E pc \in {"enrich", "final"} : w'[p] = [w[p] EXCEPT !.pc = pc]
        \/ w'[p] = [w[p] EXCEPT !.seeds = @ \ w[p].ans, !.todo = w[p].seeds \ w[p].ans,
                        !.pc = IF w[p].seeds \subseteq w[p].ans THEN "drain" ELSE "resolve"]
    BY <1>8, BecomeMoves DEF JoinLateCt, Enrich, MarkAnswered
  <2> QED BY <1>w, <2>1 DEF Worker
<1>9. CASE DrainClaim(p) \/ ClaimNamed(p)
  <2>1. PICK S : \/ w'[p] = [w[p] EXCEPT !.seeds = S, !.cands = {}, !.res = EmptyRes,
                                 !.pc = IF S = {} THEN "enrich" ELSE "answered"]
                 \/ w'[p] = [w[p] EXCEPT !.seeds = S, !.cands = {}, !.todo = S, !.names = {},
                              !.res = EmptyRes, !.pc = IF S = {} THEN "enrich" ELSE "resolve"]
    BY <1>9, BecomeMoves, Zenon DEF DrainClaim, ClaimNamed
  <2> QED BY <1>w, <2>1 DEF Worker
<1>10. CASE Persist(p)
    BY <1>10, PersistEnds
<1> QED BY <1>1, <1>2, <1>3, <1>4, <1>5, <1>6, <1>7, <1>8, <1>9, <1>10
        DEF Work, Wave, Batch, Closing

\* The capacity of a run after a step: read from the counts, used up, or kept.
LEMMA StepCapacity ==
    ASSUME TypeOK, Shape, NEW p \in Procs, Begin(p) \/ Work(p) \/ Interrupt(p)
    PROVE  \/ w'[p].cap = 0
           \/ ReadCapacity(p) /\ Budget < MaxWords /\ w'[p].cap = MaxWords - Budget
<1>1. w[p] \in Worker /\ ShapeOf(w'[p])
    BY PersistShaped, WaveShaped, BatchShaped, ClosingShaped DEF TypeOK, Work
<1>2. CASE ReadCapacity(p)
  <2>1. w'[p] = [w[p] EXCEPT !.pc = "refill", !.cap =
        IF /\ w[p].gen /\ ~w[p].out /\ ~w[p].draining
           /\ Cardinality(Claimable(cand)) < WaveLimit - Cardinality(w[p].seeds)
           /\ Budget < MaxWords
        THEN MaxWords - Budget ELSE 0]
    BY <1>2, BecomeMoves, Zenon DEF ReadCapacity
  <2> DEFINE ok == /\ w[p].gen /\ ~w[p].out /\ ~w[p].draining
                   /\ Cardinality(Claimable(cand)) < WaveLimit - Cardinality(w[p].seeds)
                   /\ Budget < MaxWords
             c == IF ok THEN MaxWords - Budget ELSE 0
  <2>2. w'[p] = [w[p] EXCEPT !.pc = "refill", !.cap = c]
    BY <2>1, Zenon
  <2>3. c = 0 \/ (Budget < MaxWords /\ c = MaxWords - Budget)
    BY Zenon
  <2>4. w'[p].cap = c
    <3> HIDE DEF c
    <3> QED BY <1>1, <2>2 DEF Worker
  <2> QED BY <1>2, <2>3, <2>4, Zenon
<1>3. CASE ~ReadCapacity(p)
  <2>1. w'[p].pc # "refill"
    BY <1>3, OnlyReadRefills
  <2> QED BY <1>1, <2>1 DEF ShapeOf
<1> QED BY <1>2, <1>3

\* A step leaves the rows that are not counted, but for the new rows of a refill and
\* the rows that learning moves into the statistics.
LEMMA StepUncounted ==
    ASSUME TypeOK, NEW p \in Procs, Begin(p) \/ Work(p) \/ Interrupt(p)
    PROVE  \/ /\ RefillQueue(p) /\ stats' = stats
              /\ \E new \in SUBSET Names : /\ Cardinality(new) <= w[p].cap
                                           /\ Uncounted' \subseteq Uncounted \cup new
           \/ \E counted \in SUBSET Uncounted : /\ Uncounted' \subseteq Uncounted \ counted
                                                /\ stats' = stats + Cardinality(counted)
           \/ Uncounted' \subseteq Uncounted /\ stats' \in {stats, 0}
<1>w. w[p] \in Worker /\ cand \in [Names -> CandRow]
    BY DEF TypeOK
<1>1. CASE RefillQueue(p)
  <2>1. PICK T : LET new == Fresh(T) IN /\ T \in SUBSET feed
                                        /\ Cardinality(new) <= w[p].cap
                                        /\ cand' = SetStatus(cand, new, "queued")
    BY <1>1, Zenon DEF RefillQueue
  <2>2. Fresh(T) \in SUBSET Names
    BY <2>1 DEF Fresh, TypeOK
  <2>3. Uncounted' \subseteq Uncounted \cup Fresh(T)
    BY <1>w, <2>1, SetCandRow DEF Uncounted
  <2>4. stats' = stats
    BY <1>1 DEF RefillQueue
  <2> QED BY <1>1, <2>1, <2>2, <2>3, <2>4
<1>2. CASE RecordLearning(p)
  <2> DEFINE counted == {n \in w[p].cands :
                         /\ w[p].res[n] \notin Held \cup Indeterminate
                         /\ cand[n].st # "none" /\ ~cand[n].rec
                         /\ cand[n].att >= MaxAttempts \/ verdict[n] # "error"}
  <2>1. /\ cand' = [n \in Names |-> IF n \in counted THEN [cand[n] EXCEPT !.rec = TRUE] ELSE cand[n]]
        /\ stats' = stats + Cardinality(counted)
    BY <1>2, Zenon DEF RecordLearning
  <2>2. counted \in SUBSET Uncounted
    BY <1>w DEF Worker, Uncounted
  <2>3. Uncounted' \subseteq Uncounted \ counted
    <3> HIDE DEF counted
    <3> SUFFICES ASSUME NEW n \in Names, cand'[n].st # "none", ~cand'[n].rec
                 PROVE  n \in Uncounted \ counted
      BY DEF Uncounted
    <3>1. CASE n \in counted
      <4>1. cand'[n] = [cand[n] EXCEPT !.rec = TRUE] /\ cand[n] \in CandRow
        BY <1>w, <2>1, <3>1
      <4>2. cand'[n].rec = TRUE
        BY <4>1 DEF CandRow
      <4> QED BY <4>2
    <3>2. CASE n \notin counted
      BY <2>1, <3>2 DEF Uncounted
    <3> QED BY <3>1, <3>2
  <2> QED BY <2>1, <2>2, <2>3
<1>3. CASE ~RefillQueue(p) /\ ~RecordLearning(p)
  <2>1. Uncounted' \subseteq Uncounted
    <3>1. CASE cand' = cand
      BY <3>1 DEF Uncounted
    <3>2. CASE cand' = Reopened(cand)
      BY <1>w, <3>2, ReopenCandRow DEF Uncounted
    <3>3. CASE cand' = Requeued(cand, NotStarted(p))
      BY <1>w, <3>3, RequeueCandRow DEF Uncounted
    <3>4. CASE ClaimCands(p)
      <4>1. PICK S : S \subseteq Claimable(cand) /\ cand' = SetStatus(cand, S, "processing")
        BY <3>4, Zenon DEF ClaimCands, IsPage
      <4> QED BY <1>w, <4>1, SetCandRow DEF Uncounted, Claimable
    <3>5. CASE StartCands(p)
      BY <1>w, <3>5, StartCandRow DEF Uncounted, StartCands
    <3>6. CASE DoneCands(p)
      <4> SUFFICES ASSUME NEW n \in Names, cand'[n].st # "none", ~cand'[n].rec
                   PROVE  cand[n].st # "none" /\ ~cand[n].rec
        BY DEF Uncounted
      <4>1. cand'[n] = (IF n \in Terminal(p) /\ cand[n].st # "none" THEN Settle(n, cand[n])
                        ELSE cand[n])
        BY <3>6 DEF DoneCands
      <4> QED BY <1>w, <4>1, SettledRow
    <3>7. ASSUME NEW D, cand' = [n \in Names |-> IF n \in D THEN NoCand ELSE cand[n]]
          PROVE  Uncounted' \subseteq Uncounted
      BY <3>7 DEF Uncounted, NoCand
    <3> QED BY <1>3, <3>1, <3>2, <3>3, <3>4, <3>5, <3>6, <3>7, CandSteps
  <2>2. stats' \in {stats, 0}
    BY <1>3 DEF Work, Wave, Batch, Persist, Closing, Begin, Interrupt, ClaimSeeds, ReadCapacity,
       ClaimCands, Demote, DoneCands, RequeueCands, RequeueSeeds, DoneSeeds, Resolve, StartCands,
       StartSeeds, UnstartSeeds, QuarantineNonexistent, RecordWildcardMatches, PurgeWildcards,
       Journal, JournalDiscovery, PersistFindings, BeginPersist, PersistRow, CommitPersist,
       JoinLateCt, DrainClaim, MarkAnswered, Enrich, ClaimNamed, BoundedRequeue, BoundedDone,
       Pause, Finalize, db
  <2> QED BY <2>1, <2>2
<1> QED BY <1>1, <1>2, <1>3

\* Counted is inductive.
LEMMA StepCounted ==
    TypeOK /\ TypeOK' /\ Alone /\ Shape /\ Shape' /\ Counted /\ [Next]_vars => Counted'
<1> SUFFICES ASSUME TypeOK, TypeOK', Alone, Shape, Shape', Counted, [Next]_vars, ~Overlap
             PROVE  /\ stats' + Cardinality(Uncounted') <= MaxWords
                    /\ \A q \in Procs : stats' + Cardinality(Uncounted') + w'[q].cap <= MaxWords
    BY DEF Counted
<1>t. /\ stats \in Nat /\ stats' \in Nat /\ MaxWords \in Nat
      /\ \A q \in Procs : w[q].cap \in Nat /\ w'[q].cap \in Nat
    BY LimitsAssumption DEF TypeOK, Worker
<1>u. /\ Uncounted \in SUBSET Names /\ IsFiniteSet(Uncounted) /\ Cardinality(Uncounted) \in Nat
      /\ Uncounted' \in SUBSET Names /\ IsFiniteSet(Uncounted') /\ Cardinality(Uncounted') \in Nat
    BY NamesAssumption, FS_Subset, FS_CardinalityType DEF Uncounted
<1>c. /\ stats + Cardinality(Uncounted) <= MaxWords
      /\ \A q \in Procs : stats + Cardinality(Uncounted) + w[q].cap <= MaxWords
    BY DEF Counted
<1>1. ASSUME NEW p \in Procs, Begin(p) \/ Work(p) \/ Interrupt(p)
      PROVE  /\ stats' + Cardinality(Uncounted') <= MaxWords
             /\ \A q \in Procs : stats' + Cardinality(Uncounted') + w'[q].cap <= MaxWords
  <2>1. stats' + Cardinality(Uncounted') <= MaxWords
    <3>1. CASE /\ RefillQueue(p) /\ stats' = stats
               /\ \E new \in SUBSET Names : /\ Cardinality(new) <= w[p].cap
                                            /\ Uncounted' \subseteq Uncounted \cup new
      <4>1. PICK new \in SUBSET Names : /\ Cardinality(new) <= w[p].cap
                                        /\ Uncounted' \subseteq Uncounted \cup new
        BY <3>1
      <4>2. IsFiniteSet(new) /\ Cardinality(new) \in Nat
        BY NamesAssumption, FS_Subset, FS_CardinalityType
      <4>3. /\ IsFiniteSet(Uncounted \cup new) /\ Cardinality(Uncounted \cup new) \in Nat
            /\ Cardinality(Uncounted \cup new) <= Cardinality(Uncounted) + Cardinality(new)
        BY <1>u, <4>2, AtMostSum
      <4>4. Cardinality(Uncounted') <= Cardinality(Uncounted \cup new)
        BY <4>1, <4>3, FS_Subset
      <4> QED BY <1>t, <1>u, <1>c, <3>1, <4>1, <4>2, <4>3, <4>4
    <3>2. ASSUME NEW counted \in SUBSET Uncounted, Uncounted' \subseteq Uncounted \ counted,
                 stats' = stats + Cardinality(counted)
          PROVE  stats' + Cardinality(Uncounted') <= MaxWords
      <4>1. IsFiniteSet(counted) /\ Cardinality(counted) \in Nat
        BY <1>u, FS_Subset, FS_CardinalityType
      <4>2. /\ IsFiniteSet(Uncounted \ counted) /\ Cardinality(Uncounted \ counted) \in Nat
            /\ Cardinality(Uncounted \ counted) = Cardinality(Uncounted) - Cardinality(Uncounted \cap counted)
        BY <1>u, FS_Difference, FS_CardinalityType
      <4>3. Cardinality(Uncounted \ counted) = Cardinality(Uncounted) - Cardinality(counted)
        <5>1. Uncounted \cap counted = counted
          OBVIOUS
        <5> QED BY <4>2, <5>1
      <4>4. Cardinality(Uncounted') <= Cardinality(Uncounted \ counted)
        BY <3>2, <4>2, FS_Subset
      <4> QED BY <1>t, <1>u, <1>c, <3>2, <4>1, <4>2, <4>3, <4>4
    <3>3. CASE Uncounted' \subseteq Uncounted /\ stats' \in {stats, 0}
      <4>1. Cardinality(Uncounted') <= Cardinality(Uncounted)
        BY <1>u, <3>3, FS_Subset
      <4> QED BY <1>t, <1>u, <1>c, <3>3, <4>1
    <3> QED BY <1>1, <3>1, <3>2, <3>3, StepUncounted
  <2>2. ASSUME NEW q \in Procs \ {p} PROVE w'[q].cap = 0
    <3>1. w[q].pc = "off"
      <4>1. w[p].pc # "off" \/ \A x \in Procs : w[x].pc = "off"
        BY <1>1, OneMoves DEF Begin, At
      <4> QED BY <4>1, OthersOff
    <3>2. w'[q] = w[q]
      BY <1>1, OneMoves, BecomeMoves DEF Begin
    <3> QED BY <3>1, <3>2 DEF Shape, ShapeOf
  <2>3. stats' + Cardinality(Uncounted') + w'[p].cap <= MaxWords
    <3>1. CASE w'[p].cap = 0
      BY <1>t, <1>u, <2>1, <3>1
    <3>2. CASE ReadCapacity(p) /\ Budget < MaxWords /\ w'[p].cap = MaxWords - Budget
      <4>1. stats' = stats /\ cand' = cand
        BY <3>2 DEF ReadCapacity, db
      <4>2. Uncounted' = Uncounted
        BY <4>1 DEF Uncounted
      <4> QED BY <1>t, <1>u, <3>2, <4>1, <4>2, BudgetCounts
    <3> QED BY <1>1, <3>1, <3>2, StepCapacity
  <2>4. ASSUME NEW q \in Procs
        PROVE  stats' + Cardinality(Uncounted') + w'[q].cap <= MaxWords
    BY <1>t, <1>u, <2>1, <2>2, <2>3
  <2> QED BY <2>1, <2>4
<1>2. CASE UNCHANGED <<cand, stats, w>>
  <2>1. Uncounted' = Uncounted
    BY <1>2 DEF Uncounted
  <2> QED BY <1>2, <1>c, <2>1
<1> QED BY <1>1, <1>2 DEF Next, CacheFill, vars, db

-----------------------------------------------------------------------------
(* The inductive invariant.                                                *)

SafeInv ==
    /\ TypeOK /\ Disjoint /\ Alone /\ Shape /\ Blank /\ Persisting
    /\ ClaimsHeld /\ Charged /\ Counted

\* No run is alive at first and the tables are empty.
LEMMA InitSafe == Init => SafeInv
<1> SUFFICES ASSUME Init PROVE SafeInv
    OBVIOUS
<1>1. /\ \A p \in Procs : w[p] = Off /\ w[p].pc = "off" /\ w[p].cap = 0
      /\ \A n \in Names : seed[n] = NoSeed /\ cand[n] = NoCand /\ wk[n] = NoSeed
      /\ lock = NoProc /\ stats = 0
    BY DEF Init, EmptySeeds, Off
<1>2. TypeOK /\ Disjoint
    BY <1>1, InitTyped DEF Disjoint, NoSeed
<1>3. Alone /\ Shape /\ ClaimsHeld
    BY <1>1, OffShaped DEF Alone, Shape, ClaimsHeld
<1>4. Blank /\ Persisting
    BY <1>1 DEF Blank, BlankRows, Persisting, NoSeed, NoCand
<1>5. Charged
  <2> SUFFICES ASSUME NEW n \in Names
               PROVE  /\ seed[n].att + Cardinality(SeedChargers(n)) <= MaxAttempts - 1 + Width
                      /\ cand[n].att + Cardinality(CandChargers(n)) <= MaxAttempts - 1 + Width
    BY DEF Charged
  <2>1. SeedChargers(n) = {} /\ CandChargers(n) = {}
    BY <1>1 DEF SeedChargers, CandChargers, MayChargeSeed, MayCharge, Claiming, Working, InBatch
  <2>2. Cardinality({}) = 0
    BY FS_EmptySet
  <2>3. seed[n].att = 0 /\ cand[n].att = 0
    BY <1>1 DEF NoSeed, NoCand
  <2>4. Width \in Nat /\ MaxAttempts \in Nat \ {0}
    BY ProcsAssumption, LimitsAssumption, FS_CardinalityType DEF Width
  <2>5. 0 + 0 <= MaxAttempts - 1 + Width
    BY <2>4
  <2> QED BY <2>1, <2>2, <2>3, <2>5
<1>6. Counted
  <2>1. Uncounted = {}
    BY <1>1 DEF Uncounted, NoCand
  <2>2. Cardinality(Uncounted) = 0
    BY <2>1, FS_EmptySet
  <2>3. MaxWords \in Nat
    BY LimitsAssumption
  <2> QED BY <1>1, <2>2, <2>3 DEF Counted
<1> QED BY <1>2, <1>3, <1>4, <1>5, <1>6 DEF SafeInv

\* Every step of every run keeps it.
LEMMA StepSafe == SafeInv /\ [Next]_vars => SafeInv'
<1> SUFFICES ASSUME SafeInv, [Next]_vars PROVE SafeInv'
    OBVIOUS
<1>1. TypeOK' /\ Disjoint'
    BY StepTyped, StepDisjoint DEF SafeInv
<1>2. Alone' /\ Shape'
    BY StepAlone, StepShape DEF SafeInv
<1>3. Blank' /\ Persisting'
    BY <1>1, StepBlank, StepPersisting DEF SafeInv
<1>4. ClaimsHeld'
    BY StepClaimsHeld DEF SafeInv
<1>5. Charged'
    BY <1>1, StepCharged DEF SafeInv
<1>6. Counted'
    BY <1>1, <1>2, StepCounted DEF SafeInv
<1> QED BY <1>1, <1>2, <1>3, <1>4, <1>5, <1>6 DEF SafeInv

\* What a run holds in memory agrees with the tables at every control point.
THEOREM QueueInvariant == Spec => []SafeInv
BY InitSafe, StepSafe, PTL DEF Spec

-----------------------------------------------------------------------------
(* What the invariant gives.                                               *)

\* The retry budget of a row is never exceeded by runs that exclude each other,
\* however they are interrupted and resumed.
THEOREM AttemptsWithinBudget == Spec => []AttemptsBounded
<1>1. SafeInv => AttemptsBounded
  <2> SUFFICES ASSUME SafeInv, ~Overlap, NEW n \in Names
               PROVE  seed[n].att <= MaxAttempts /\ cand[n].att <= MaxAttempts
    BY DEF AttemptsBounded
  <2>1. /\ seed[n].att \in Nat /\ cand[n].att \in Nat
        /\ seed[n].att + Cardinality(SeedChargers(n)) <= MaxAttempts - 1 + Width
        /\ cand[n].att + Cardinality(CandChargers(n)) <= MaxAttempts - 1 + Width
    BY DEF SafeInv, Charged, TypeOK, SeedRow, CandRow
  <2>2. /\ Cardinality(SeedChargers(n)) \in Nat /\ Cardinality(CandChargers(n)) \in Nat
        /\ Cardinality({}) = 0 /\ MaxAttempts \in Nat
    BY ProcsAssumption, LimitsAssumption, FS_Subset, FS_CardinalityType, FS_EmptySet
       DEF SeedChargers, CandChargers
  <2>3. Width = 0 \/ Width = 1
    BY <2>2 DEF Width
  <2> QED BY <2>1, <2>2, <2>3
<1> QED BY <1>1, QueueInvariant, PTL

\* When leases may expire under living runs, each further process adds at most one
\* charge to a row.
THEOREM AttemptsUnderOverlap == Spec => []AttemptsBoundedOverlap
<1>1. SafeInv => AttemptsBoundedOverlap
  <2> SUFFICES ASSUME SafeInv, NEW n \in Names
               PROVE  /\ seed[n].att <= MaxAttempts + Cardinality(Procs) - 1
                      /\ cand[n].att <= MaxAttempts + Cardinality(Procs) - 1
    BY DEF AttemptsBoundedOverlap
  <2>1. /\ seed[n].att \in Nat /\ cand[n].att \in Nat
        /\ seed[n].att + Cardinality(SeedChargers(n)) <= MaxAttempts - 1 + Width
        /\ cand[n].att + Cardinality(CandChargers(n)) <= MaxAttempts - 1 + Width
    BY DEF SafeInv, Charged, TypeOK, SeedRow, CandRow
  <2>2. /\ Cardinality(SeedChargers(n)) \in Nat /\ Cardinality(CandChargers(n)) \in Nat
        /\ Cardinality(Procs) \in Nat /\ MaxAttempts \in Nat
    BY ProcsAssumption, LimitsAssumption, FS_Subset, FS_CardinalityType
       DEF SeedChargers, CandChargers
  <2>3. Width \in Nat /\ Width <= Cardinality(Procs)
    <3>1. Procs # {} => Cardinality(Procs) >= 1
      BY <2>2, ProcsAssumption, FS_EmptySet
    <3> QED BY <2>2, <3>1 DEF Width
  <2> QED BY <2>1, <2>2, <2>3
<1> QED BY <1>1, QueueInvariant, PTL

\* Whenever an exclusive run stands outside a wave no row is left claimed, by it
\* or by a run that died before it.
THEOREM ClaimsReturned == Spec => []NoOrphanClaims
<1>1. SafeInv => NoOrphanClaims
  <2> SUFFICES ASSUME SafeInv, ~Overlap, NEW n \in Names, NEW p \in Procs,
                      w[p].pc \in {"persist", "row", "claim", "late", "drain", "enrich",
                                   "named", "final"}
               PROVE  seed[n].st # "processing" /\ cand[n].st # "processing"
    BY DEF NoOrphanClaims
  <2>1. Holding(p)
    BY DEF SafeInv, ClaimsHeld
  <2>2. ~HoldsSeed(p, n) /\ ~HoldsCand(p, n)
    BY DEF HoldsSeed, HoldsCand, Claiming, Working, InBatch
  <2> QED BY <2>1, <2>2 DEF Holding
<1> QED BY <1>1, QueueInvariant, PTL

\* Runs that exclude each other never generate more names than the budget, over all
\* the runs of a scan.
THEOREM WordsWithinBudget == ASSUME ~Overlap PROVE Spec => []BudgetWithin
<1>1. SafeInv => BudgetWithin
    BY DEF SafeInv, Counted, BudgetWithin, Uncounted
<1> QED BY <1>1, QueueInvariant, PTL

\* A passive name leaves its queue only by finalization or for a better one, and
\* never with a charge or a claim.
THEOREM EvictionsSafe == Spec => EvictionSafe
<1> DEFINE A == \A n \in Names : (seed[n].st # "none" /\ seed'[n].st = "none" /\ ~applied') =>
                    /\ seed[n].st = "queued" /\ seed[n].att = 0
                    /\ \E m \in Names : seed[m].st = "none" /\ seed'[m].pri > seed[n].pri
<1>1. SafeInv /\ [Next]_vars => [A]_vars
  <2> SUFFICES ASSUME SafeInv, [Next]_vars, NEW n \in Names,
                      seed[n].st # "none", seed'[n].st = "none", ~applied'
               PROVE  /\ seed[n].st = "queued" /\ seed[n].att = 0
                      /\ \E m \in Names : seed[m].st = "none" /\ seed'[m].pri > seed[n].pri
    OBVIOUS
  <2>t. TypeOK /\ Persisting /\ seed \in [Names -> SeedRow] /\ seed[n] \in SeedRow
    BY DEF SafeInv, TypeOK
  <2>1. ASSUME NEW p \in Procs, Begin(p) \/ Work(p) \/ Interrupt(p) PROVE CommitPersist(p)
    <3>1. CASE seed' = seed
      BY <3>1
    <3>2. CASE seed' = Reopened(seed)
      BY <2>t, <3>2, ReopenSeedRow
    <3>3. ASSUME NEW S, \/ seed' = SetStatus(seed, S, "processing")
                        \/ seed' = Started(seed, S)
                        \/ seed' = Requeued(seed, S)
                        \/ seed' = SettledSeeds(S)
          PROVE  FALSE
      <4>1. \/ seed'[n].st = SetStatus(seed, S, "processing")[n].st
            \/ seed'[n].st = Started(seed, S)[n].st
            \/ seed'[n].st = Requeued(seed, S)[n].st
            \/ seed'[n].st = SettledSeeds(S)[n].st
        BY <3>3
      <4>2. SetStatus(seed, S, "processing")[n].st # "none"
        BY <2>t, SetSeedRow
      <4>3. Started(seed, S)[n].st # "none" /\ Requeued(seed, S)[n].st # "none"
        BY <2>t, StartSeedRow, RequeueSeedRow
      <4>4. SettledSeeds(S)[n].st # "none"
        BY <2>t, SettledSeedRow
      <4> QED BY <4>1, <4>2, <4>3, <4>4
    <3>4. CASE Demote(p)
      BY <3>4 DEF Demote
    <3> QED BY <2>1, <3>1, <3>2, <3>3, <3>4, SeedSteps
  <2>2. ASSUME NEW p \in Procs, CommitPersist(p)
        PROVE  /\ seed[n].st = "queued" /\ seed[n].att = 0
               /\ \E m \in Names : seed[m].st = "none" /\ seed'[m].pri > seed[n].pri
    <3>1. lock # NoProc /\ seed' = wk
      BY <2>2, ProcsAssumption DEF CommitPersist
    <3> QED BY <2>t, <3>1, PersistingRow DEF EvictedRow, Beaten
  <2>3. CASE seed' = seed
    BY <2>3
  <2> QED BY <2>1, <2>2, <2>3 DEF Next, CacheFill, vars, db
<1> QED BY <1>1, QueueInvariant, PTL DEF Spec, EvictionSafe

\* Runs that exclude each other open no settled row again, unless the name is sent
\* back for validation.
THEOREM SettledRowsStay == Spec => SettledStays
<1> DEFINE A == ~Overlap => \A n \in Names :
        /\ seed[n].st = "done" => seed'[n].st \in {"done", "none"} \/ verdict'[n] = "unverified"
        /\ cand[n].st = "done" => cand'[n].st \in {"done", "none"}
<1>1. SafeInv /\ [Next]_vars => [A]_vars
  <2> SUFFICES ASSUME SafeInv, [Next]_vars, ~Overlap, NEW n \in Names
               PROVE  /\ seed[n].st = "done" =>
                            seed'[n].st \in {"done", "none"} \/ verdict'[n] = "unverified"
                      /\ cand[n].st = "done" => cand'[n].st \in {"done", "none"}
    OBVIOUS
  <2>t. /\ TypeOK /\ Persisting /\ seed \in [Names -> SeedRow] /\ seed[n] \in SeedRow
        /\ cand \in [Names -> CandRow] /\ cand[n] \in CandRow
    BY DEF SafeInv, TypeOK
  <2>1. ASSUME NEW p \in Procs, Begin(p) \/ Work(p) \/ Interrupt(p), seed[n].st = "done"
        PROVE  seed'[n].st \in {"done", "none"} \/ verdict'[n] = "unverified"
    <3>1. CASE seed' = seed
      BY <2>1, <3>1
    <3>2. CASE seed' = Reopened(seed)
      BY <2>t, <2>1, <3>2, ReopenSeedRow
    <3>3. ASSUME NEW S, \/ seed' = SetStatus(seed, S, "processing") /\ S \subseteq Claimable(seed)
                        \/ seed' = Started(seed, S)
                        \/ seed' = Requeued(seed, S)
                        \/ seed' = SettledSeeds(S)
          PROVE  seed'[n].st = "done"
      <4>1. CASE seed' = SetStatus(seed, S, "processing") /\ S \subseteq Claimable(seed)
        BY <2>t, <2>1, <4>1, SetSeedRow DEF Claimable
      <4>2. CASE seed' = Started(seed, S)
        BY <2>t, <2>1, <4>2, StartSeedRow
      <4>3. CASE seed' = Requeued(seed, S)
        BY <2>t, <2>1, <4>3, RequeueSeedRow
      <4>4. CASE seed' = SettledSeeds(S)
        BY <2>t, <2>1, <4>4, SettledSeedRow
      <4> QED BY <3>3, <4>1, <4>2, <4>3, <4>4
    <3>4. CASE Demote(p)
      BY <2>1, <3>4 DEF Demote
    <3>5. CASE CommitPersist(p)
      <4>1. lock # NoProc /\ seed' = wk
        BY <3>5, ProcsAssumption DEF CommitPersist
      <4> QED BY <2>t, <2>1, <4>1, PersistingRow DEF KeptRow
    <3>6. CASE seed' = EmptySeeds
      BY <3>6 DEF EmptySeeds, NoSeed
    <3> QED BY <2>1, <3>1, <3>2, <3>3, <3>4, <3>5, <3>6, SeedSteps
  <2>2. ASSUME NEW p \in Procs, Begin(p) \/ Work(p) \/ Interrupt(p), cand[n].st = "done"
        PROVE  cand'[n].st \in {"done", "none"}
    <3>1. CASE cand' = cand
      BY <2>2, <3>1
    <3>2. CASE cand' = Reopened(cand)
      BY <2>t, <2>2, <3>2, ReopenCandRow
    <3>3. CASE cand' = Requeued(cand, NotStarted(p))
      BY <2>t, <2>2, <3>3, RequeueCandRow
    <3>4. CASE RefillQueue(p)
      <4>1. PICK T : cand' = SetStatus(cand, Fresh(T), "queued")
        BY <3>4, Zenon DEF RefillQueue
      <4> QED BY <2>t, <2>2, <4>1, SetCandRow DEF Fresh
    <3>5. CASE ClaimCands(p)
      <4>1. PICK S : S \subseteq Claimable(cand) /\ cand' = SetStatus(cand, S, "processing")
        <5>1. PICK S : /\ IsPage(S, IF w[p].out THEN {} ELSE Claimable(cand), CandPriority,
                                 WaveLimit - Cardinality(w[p].seeds))
                       /\ cand' = SetStatus(cand, S, "processing")
          BY <3>5, Zenon DEF ClaimCands
        <5> QED BY <5>1 DEF IsPage
      <4> QED BY <2>t, <2>2, <4>1, SetCandRow DEF Claimable
    <3>6. CASE StartCands(p)
      BY <2>t, <2>2, <3>6, StartCandRow DEF StartCands
    <3>7. CASE RecordLearning(p)
      <4>1. PICK S : cand' = [x \in Names |->
                                IF x \in S THEN [cand[x] EXCEPT !.rec = TRUE] ELSE cand[x]]
        BY <3>7, Zenon DEF RecordLearning
      <4>2. cand'[n] = [cand[n] EXCEPT !.rec = TRUE] \/ cand'[n] = cand[n]
        BY <4>1
      <4> QED BY <2>t, <2>2, <4>2 DEF CandRow
    <3>8. CASE DoneCands(p)
      <4>1. Holding(p) /\ w[p].pc = "donec" /\ w[p] \in Worker
        BY <3>8 DEF SafeInv, ClaimsHeld, DoneCands, At, TypeOK
      <4>2. n \notin w[p].cands
        BY <2>2, <4>1 DEF Holding
      <4>3. n \notin w[p].seeds
        BY <2>2, <4>1 DEF Holding, SafeInv, Disjoint
      <4>4. n \notin Terminal(p)
        BY <4>2, <4>3 DEF Terminal, WaveHosts
      <4> QED BY <2>2, <3>8, <4>4 DEF DoneCands
    <3>9. ASSUME NEW D, cand' = [x \in Names |-> IF x \in D THEN NoCand ELSE cand[x]]
          PROVE  cand'[n].st \in {"done", "none"}
      BY <2>2, <3>9 DEF NoCand
    <3> QED BY <2>2, <3>1, <3>2, <3>3, <3>4, <3>5, <3>6, <3>7, <3>8, <3>9, CandSteps
  <2>3. CASE seed' = seed /\ cand' = cand
    BY <2>3
  <2> QED BY <2>1, <2>2, <2>3 DEF Next, CacheFill, vars, db
<1> QED BY <1>1, QueueInvariant, PTL DEF Spec, SettledStays

-----------------------------------------------------------------------------
(* The cap on passive rows.  The uncommitted table of a persist has at most  *)
(* --max-passive rows, or no more than the table it started from, which      *)
(* nobody changes while the transaction is open.                             *)

\* A set of names is finite.
LEMMA RowsFinite ==
    ASSUME NEW S \in SUBSET Names
    PROVE  IsFiniteSet(S) /\ Cardinality(S) \in Nat
BY NamesAssumption, FS_Subset, FS_CardinalityType

LEMMA FewerRows ==
    ASSUME NEW S \in SUBSET Names, NEW T \in SUBSET Names, S \subseteq T
    PROVE  Cardinality(S) <= Cardinality(T)
BY RowsFinite, FS_Subset

\* One row more, or one in place of another.
LEMMA OneMoreRow ==
    ASSUME NEW S \in SUBSET Names, NEW n \in Names \ S
    PROVE  Cardinality(S \cup {n}) = Cardinality(S) + 1
BY RowsFinite, FS_AddElement

LEMMA RowReplaced ==
    ASSUME NEW S \in SUBSET Names, NEW n \in Names \ S, NEW v \in S
    PROVE  Cardinality((S \ {v}) \cup {n}) = Cardinality(S)
<1>1. Cardinality((S \ {v}) \cup {n}) = Cardinality(S \ {v}) + 1
    <2>1. S \ {v} \in SUBSET Names /\ n \in Names \ (S \ {v})
        OBVIOUS
    <2> QED BY <2>1, OneMoreRow
<1>2. Cardinality((S \ {v}) \cup {v}) = Cardinality(S \ {v}) + 1
    <2>1. S \ {v} \in SUBSET Names /\ v \in Names \ (S \ {v})
        OBVIOUS
    <2> QED BY <2>1, OneMoreRow
<1>3. (S \ {v}) \cup {v} = S
    OBVIOUS
<1> QED BY <1>1, <1>2, <1>3

\* One iteration of the persist loop adds a row where there is room, and else replaces one.
LEMMA PersistOneCount ==
    ASSUME NEW t \in [Names -> SeedRow], NEW n \in Names, NEW k \in Nat, NEW max \in Nat
    PROVE  \/ Cardinality(Rows(PersistOne(t, n, k, max))) <= max
           \/ Cardinality(Rows(PersistOne(t, n, k, max))) <= Cardinality(Rows(t))
<1> DEFINE row == [st |-> "queued", att |-> 0, pri |-> k]
           v == Lowest(t)
           u == PersistOne(t, n, k, max)
<1>t. Rows(t) \in SUBSET Names /\ Cardinality(Rows(t)) \in Nat
    BY RowsFinite DEF Rows
<1>1. CASE t[n].st # "none"
    <2>1. u = [t EXCEPT ![n].pri = IF t[n].pri < k THEN k ELSE t[n].pri]
        BY <1>1 DEF PersistOne
    <2>2. \A m \in Names : u[m].st = t[m].st
        BY <2>1 DEF SeedRow
    <2>3. Rows(u) = Rows(t)
        BY <2>2 DEF Rows
    <2> QED BY <1>t, <2>3
<1>2. CASE t[n].st = "none" /\ HasRoom(t, max)
    <2>1. u = [t EXCEPT ![n] = row]
        BY <1>2 DEF PersistOne, Insert
    <2>2. Rows(u) = Rows(t) \cup {n} /\ n \in Names \ Rows(t)
        BY <1>2, <2>1 DEF Rows
    <2>3. Cardinality(Rows(u)) = Cardinality(Rows(t)) + 1
        BY <1>t, <2>2, OneMoreRow
    <2> QED BY <1>2, <1>t, <2>3 DEF HasRoom
<1>3. CASE t[n].st = "none" /\ ~HasRoom(t, max) /\ Evictable(t) # {} /\ k > t[v].pri
    <2>1. u = [[t EXCEPT ![v] = NoSeed] EXCEPT ![n] = row]
        BY <1>3 DEF PersistOne, Insert
    <2>2. v \in Names /\ t[v].st = "queued" /\ v # n
        BY <1>3, LowestEvictable DEF Evictable
    <2>3. u[n].st = "queued" /\ u[v].st = "none" /\ \A m \in Names \ {n, v} : u[m] = t[m]
        BY <2>1, <2>2 DEF NoSeed
    <2> HIDE DEF v, u
    <2>4. Rows(u) = (Rows(t) \ {v}) \cup {n} /\ n \in Names \ Rows(t) /\ v \in Rows(t)
        BY <1>3, <2>2, <2>3 DEF Rows
    <2>5. Cardinality(Rows(u)) = Cardinality(Rows(t))
        BY <1>t, <2>4, RowReplaced
    <2> QED BY <1>t, <2>5 DEF u
<1>4. CASE t[n].st = "none" /\ ~HasRoom(t, max) /\ ~(Evictable(t) # {} /\ k > t[v].pri)
    <2>1. u = t
        BY <1>4 DEF PersistOne
    <2> QED BY <1>t, <2>1
<1> QED BY <1>1, <1>2, <1>3, <1>4

\* The uncommitted table is within the cap, or no larger than the committed one.
Capped ==
    lock # NoProc =>
        \/ Cardinality(Rows(wk)) <= MaxPassive
        \/ Cardinality(Rows(wk)) <= Cardinality(Rows(seed))

LEMMA StepCapped == SafeInv /\ Capped /\ [Next]_vars => Capped'
<1> SUFFICES ASSUME SafeInv, Capped, [Next]_vars PROVE Capped'
    OBVIOUS
<1>t. TypeOK /\ wk \in [Names -> SeedRow] /\ w \in [Procs -> Worker]
    BY DEF SafeInv, TypeOK
<1>c. /\ Cardinality(Rows(seed)) \in Nat /\ Cardinality(Rows(wk)) \in Nat
      /\ Cardinality(Rows(wk')) \in Nat
    BY RowsFinite DEF Rows
<1>1. ASSUME NEW p \in Procs, PersistRow(p) PROVE Capped'
    <2>1. PICK n \in w[p].pay : wk' = PersistOne(wk, n, w[p].pri[n], PersistLimit(p))
        BY <1>1 DEF PersistRow
    <2>2. seed' = seed /\ lock' = lock /\ lock # NoProc
        BY <1>1, ProcsAssumption DEF PersistRow, db
    <2>3. n \in Names /\ w[p].pri[n] \in Nat
        BY <1>t, <2>1 DEF Worker
    <2>4. PersistLimit(p) \in Nat /\ PersistLimit(p) <= MaxPassive
        BY LimitsAssumption DEF PersistLimit
    <2>5. \/ Cardinality(Rows(wk')) <= PersistLimit(p)
          \/ Cardinality(Rows(wk')) <= Cardinality(Rows(wk))
        BY <1>t, <2>1, <2>3, <2>4, PersistOneCount
    <2>6. \/ Cardinality(Rows(wk)) <= MaxPassive
          \/ Cardinality(Rows(wk)) <= Cardinality(Rows(seed))
        BY <2>2 DEF Capped
    <2>7. \/ Cardinality(Rows(wk')) <= MaxPassive
          \/ Cardinality(Rows(wk')) <= Cardinality(Rows(seed))
        BY <1>c, <2>4, <2>5, <2>6, LimitsAssumption
    <2> QED BY <2>2, <2>7 DEF Capped
<1>2. ASSUME NEW p \in Procs, BeginPersist(p) PROVE Capped'
    <2>1. wk' = seed /\ seed' = seed
        BY <1>2 DEF BeginPersist, db
    <2> QED BY <1>c, <2>1 DEF Capped
<1>3. ASSUME lock' = NoProc PROVE Capped'
    BY <1>3 DEF Capped
<1>4. ASSUME lock' = lock, wk' = wk, seed' = seed PROVE Capped'
    BY <1>4 DEF Capped
<1>5. ASSUME NEW p \in Procs, Begin(p) \/ Work(p) \/ Interrupt(p) PROVE Capped'
    <2>1. CASE Unlocked /\ UNCHANGED txn
        BY <2>1, <1>3 DEF Unlocked, txn
    <2>2. CASE CommitPersist(p)
        BY <2>2, <1>3 DEF CommitPersist
    <2>3. CASE Interrupt(p) /\ seed' = seed
        <3>1. CASE lock = p
            BY <2>3, <3>1, <1>3 DEF Interrupt
        <3>2. CASE lock # p
            BY <2>3, <3>2, <1>4 DEF Interrupt
        <3> QED BY <3>1, <3>2
    <2>4. CASE seed' = seed /\ txn' = txn
        BY <2>4, <1>4 DEF txn
    <2> QED BY <1>1, <1>2, <1>5, <2>1, <2>2, <2>3, <2>4, LockSteps
<1>6. ASSUME NEW n \in Names, CacheFill(n) PROVE Capped'
    BY <1>6, <1>4 DEF CacheFill, txn
<1>7. CASE UNCHANGED vars
    BY <1>7, <1>4 DEF vars, db, txn
<1> QED BY <1>5, <1>6, <1>7 DEF Next

\* --max-passive holds for every number of names, processes, runs and interruptions: only
\* demotion adds a passive row to a full table (persist_scan_seed_candidates,
\* demote_and_requeue_scan_findings).
THEOREM SeedsCapped == Spec => SeedCap
<1> DEFINE A == \/ Cardinality(Rows(seed)') <= MaxPassive
                \/ Cardinality(Rows(seed)') <= Cardinality(Rows(seed))
                \/ \E p \in Procs : Demote(p)
<1>1. SafeInv /\ Capped /\ [Next]_vars => [A]_vars
    <2> SUFFICES ASSUME SafeInv, Capped, [Next]_vars PROVE A
        OBVIOUS
    <2>t. seed \in [Names -> SeedRow]
        BY DEF SafeInv, TypeOK
    <2>1. ASSUME \A n \in Names : seed[n].st = "none" => seed'[n].st = "none" PROVE A
        <3>1. Rows(seed') \subseteq Rows(seed) /\ Rows(seed) \in SUBSET Names
              /\ Rows(seed') \in SUBSET Names
            BY <2>1 DEF Rows
        <3> QED BY <3>1, FewerRows
    <2>2. ASSUME NEW p \in Procs, Begin(p) \/ Work(p) \/ Interrupt(p) PROVE A
        <3>1. CASE seed' = seed
            BY <3>1, <2>1
        <3>2. CASE seed' = Reopened(seed)
            BY <2>t, <2>1, <3>2, ReopenSeedRow
        <3>3. ASSUME NEW S, \/ seed' = SetStatus(seed, S, "processing") /\ S \subseteq Claimable(seed)
                            \/ seed' = Started(seed, S)
                            \/ seed' = Requeued(seed, S)
                            \/ seed' = SettledSeeds(S)
              PROVE  A
            <4> SUFFICES ASSUME NEW n \in Names, seed[n].st = "none" PROVE seed'[n].st = "none"
                BY <2>1
            <4>1. CASE seed' = SetStatus(seed, S, "processing") /\ S \subseteq Claimable(seed)
                BY <2>t, <4>1, SetSeedRow DEF Claimable
            <4>2. CASE seed' = Started(seed, S)
                BY <2>t, <4>2, StartSeedRow
            <4>3. CASE seed' = Requeued(seed, S)
                BY <2>t, <4>3, RequeueSeedRow
            <4>4. CASE seed' = SettledSeeds(S)
                BY <2>t, <4>4, SettledSeedRow, Zenon DEF SafeInv
            <4> QED BY <3>3, <4>1, <4>2, <4>3, <4>4
        <3>4. CASE Demote(p)
            BY <3>4
        <3>5. CASE CommitPersist(p)
            <4>1. seed' = wk /\ lock # NoProc
                BY <3>5, ProcsAssumption DEF CommitPersist
            <4> QED BY <4>1 DEF Capped
        <3>6. CASE seed' = EmptySeeds
            BY <2>1, <3>6 DEF EmptySeeds, NoSeed
        <3> QED BY <2>2, <3>1, <3>2, <3>3, <3>4, <3>5, <3>6, SeedSteps
    <2>3. CASE seed' = seed
        BY <2>3, <2>1
    <2> QED BY <2>2, <2>3 DEF Next, CacheFill, vars, db
<1>2. Init => Capped
    BY DEF Init, Capped
<1> QED BY <1>1, <1>2, InitSafe, StepSafe, StepCapped, PTL DEF Spec, SeedCap
-----------------------------------------------------------------------------
(* What finalization drops.  A settled row was charged, has an answer in the *)
(* cache or is a finding; what was found of a row that is still being        *)
(* processed stays until the row is settled or goes back to the queue.       *)

Looked(n) == seed[n].att > 0 \/ cache[n] # "none" \/ n \in live
SettledLooked == \A n \in Names : seed[n].st = "done" => Looked(n)

\* The rows of a group of hosts are not charged yet, or their outcomes not in the journal.
Uncharged(r) == r.pc \in {"startc", "starts"}
Unjournalled(r) == Uncharged(r) \/ r.pc \in {"unstart", "proof", "match", "purge", "journal"}

Finishing == Settling \cup {"brequeue", "bdone"}
Reserving == Claiming \cup {"answered"} \cup Working

\* The hosts of a claim that are resolved or about to be.
Reserved(r, n) ==
    \/ r.pc \in Claiming \cup {"answered"} /\ n \in r.seeds
    \/ r.pc \in Working /\ n \in r.todo
    \/ r.pc \in InBatch /\ n \in r.cur

\* What the outcome of a host has left in the tables.
OutcomeKept(r, n) ==
    /\ r.res[n] # "none"
    /\ r.res[n] = "cache" => cache[n] # "none"
    /\ r.res[n] \in Network => seed[n].att > 0 \/ (Uncharged(r) /\ n \in r.cur)
    /\ r.res[n] = "unsent" => verdict[n] = "error" \/ (Unjournalled(r) /\ n \in r.cur)

\* No host of a claim is settled before its outcome is there.
HostLooks(r, n) ==
    /\ Reserved(r, n) => seed[n].st # "done"
    /\ r.pc \in Working \cup Finishing /\ seed[n].st = "processing"
         => n \in r.todo \/ OutcomeKept(r, n)

RunLooks(p) ==
    /\ w[p].ans \subseteq live
    /\ w[p].pc \in Finishing => w[p].todo = {}
    /\ \A n \in Names : HostLooks(w[p], n)

LookInv ==
    ~Overlap => SettledLooked /\ \A p \in Procs : w[p].pc # "off" => RunLooks(p)

\* Outside a wave a run owes nothing.
LEMMA QuietLooks ==
    ASSUME NEW p \in Procs, w'[p].ans \subseteq live', w'[p].pc \notin Reserving \cup Finishing
    PROVE  RunLooks(p)'
BY DEF RunLooks, HostLooks, Reserved, Reserving, Working

\* A step that changes only the control point, within the same part of the work.
LEMMA PassLooks ==
    ASSUME NEW p \in Procs, SettledLooked, RunLooks(p),
           seed' = seed, cache' = cache, verdict' = verdict, live' = live,
           w'[p].todo = w[p].todo, w'[p].cur = w[p].cur, w'[p].res = w[p].res,
           w'[p].ans = w[p].ans, w'[p].seeds = w[p].seeds,
           \/ w'[p].pc \notin Reserving \cup Finishing
           \/ w[p].pc \in Claiming /\ w'[p].pc \in Claiming
           \/ w[p].pc \in Settling /\ w'[p].pc \in Settling
           \/ w[p].pc = "startc" /\ w'[p].pc = "starts"
    PROVE  RunLooks(p)' /\ SettledLooked'
<1>1. SettledLooked'
    BY DEF SettledLooked, Looked
<1>2. CASE w'[p].pc \notin Reserving \cup Finishing
    BY <1>1, <1>2, QuietLooks DEF RunLooks
<1>3. CASE \/ w[p].pc \in Claiming /\ w'[p].pc \in Claiming
           \/ w[p].pc \in Settling /\ w'[p].pc \in Settling
           \/ w[p].pc = "startc" /\ w'[p].pc = "starts"
  <2>1. ASSUME NEW n \in Names PROVE HostLooks(w[p], n)'
    <3>1. HostLooks(w[p], n)
      BY DEF RunLooks
    <3>2. Reserved(w[p], n)' => Reserved(w[p], n)
      BY <1>3 DEF Reserved, Claiming, Working, InBatch, Settling
    <3>3. OutcomeKept(w[p], n) => OutcomeKept(w[p], n)'
      BY <1>3 DEF OutcomeKept, Uncharged, Unjournalled, Claiming, Settling
    <3> QED BY <1>3, <3>1, <3>2, <3>3 DEF HostLooks, Working, Finishing, InBatch, Claiming, Settling
  <2> QED BY <1>1, <1>3, <2>1 DEF RunLooks, Finishing, Claiming, Settling
<1> QED BY <1>2, <1>3

\* What a wave settles was looked at.
LEMMA WaveLooks ==
    ASSUME SafeInv, TypeOK', ~Overlap, NEW p \in Procs, SettledLooked, RunLooks(p), Wave(p)
    PROVE  RunLooks(p)' /\ SettledLooked'
<1>t. TypeOK /\ w[p] \in Worker /\ seed \in [Names -> SeedRow] /\ cand \in [Names -> CandRow]
    BY DEF SafeInv, TypeOK
<1>h. w[p].pc # "off" /\ Holding(p)
    BY <1>t, OneMoves DEF SafeInv, ClaimsHeld, Work
<1>p. /\ Claiming \cap (Working \cup Finishing) = {} /\ "claim" \notin Reserving \cup Finishing
      /\ "late" \notin Reserving \cup Finishing
    BY DEF Claiming, Working, Finishing, InBatch, Settling, Reserving
<1> USE DEF At
<1>1. CASE ClaimSeeds(p)
  <2>1. PICK S \in SUBSET Names :
            /\ w'[p].pc = "capacity" /\ w'[p].seeds = S /\ w'[p].ans = w[p].ans
            /\ seed' = SetStatus(seed, S, "processing")
    BY <1>t, <1>1, ClaimSeedsMoves
  <2>2. cache' = cache /\ live' = live
    BY <1>1 DEF ClaimSeeds
  <2>3. \A n \in Names : /\ seed'[n].st = (IF n \in S THEN "processing" ELSE seed[n].st)
                         /\ seed'[n].att = seed[n].att
    BY <1>t, <2>1, SetSeedRow
  <2>4. SettledLooked'
    BY <2>2, <2>3 DEF SettledLooked, Looked
  <2>5. ASSUME NEW n \in Names PROVE HostLooks(w[p], n)'
    BY <2>1, <2>3 DEF HostLooks, Reserved, Working, Finishing, InBatch, Settling
  <2> QED BY <2>1, <2>2, <2>4, <2>5 DEF RunLooks, Finishing, Settling
<1>2. CASE ReadCapacity(p) \/ RefillQueue(p)
  <2>1. PICK c : \/ w'[p] = [w[p] EXCEPT !.pc = "refill", !.cap = c]
                 \/ w'[p] = [w[p] EXCEPT !.pc = "claimc", !.cap = c]
    BY <1>t, <1>2, BecomeMoves, Zenon DEF ReadCapacity, RefillQueue
  <2>2. /\ w'[p].todo = w[p].todo /\ w'[p].cur = w[p].cur /\ w'[p].res = w[p].res
        /\ w'[p].ans = w[p].ans /\ w'[p].seeds = w[p].seeds
        /\ w'[p].pc \in {"refill", "claimc"}
    BY <1>t, <2>1 DEF Worker
  <2>3. seed' = seed /\ cache' = cache /\ verdict' = verdict /\ live' = live
        /\ w[p].pc \in {"capacity", "refill"}
    BY <1>2, Zenon DEF ReadCapacity, RefillQueue, db
  <2> QED BY <2>2, <2>3, PassLooks DEF Claiming
<1>3. CASE ClaimCands(p)
  <2>1. PICK S \in SUBSET Names :
            /\ IsPage(S, IF w[p].out THEN {} ELSE Claimable(cand), CandPriority,
                      WaveLimit - Cardinality(w[p].seeds))
            /\ Become(p, [w[p] EXCEPT !.cands = S, !.todo = w[p].seeds \cup S,
                !.pc = CASE w[p].mode = "first" -> "demote"
                        [] w[p].mode = "wave" /\ w[p].seeds \cup S # {} -> "resolve"
                        [] w[p].mode = "wave" /\ w[p].seeds \cup S = {} /\ ~w[p].out
                              /\ w[p].gen /\ FeedsMore -> "claim"
                        [] OTHER -> "late"])
    BY <1>3, Zenon DEF ClaimCands
  <2>2. S \subseteq Claimable(cand)
    BY <2>1 DEF IsPage
  <2>3. PICK pc \in {"demote", "resolve", "claim", "late"} :
            w'[p] = [w[p] EXCEPT !.cands = S, !.todo = w[p].seeds \cup S, !.pc = pc]
    BY <1>t, <2>1, BecomeMoves
  <2>4. w'[p].todo = w[p].seeds \cup S /\ w'[p].ans = w[p].ans /\ w'[p].pc = pc
    BY <1>t, <2>3 DEF Worker
  <2>5. /\ w[p].pc = "claimc" /\ seed' = seed /\ cache' = cache /\ verdict' = verdict
        /\ live' = live
    BY <1>3, Zenon DEF ClaimCands
  <2>6. SettledLooked'
    BY <2>5 DEF SettledLooked, Looked
  <2>7. ASSUME NEW n \in Names PROVE HostLooks(w[p], n)'
    <3>1. n \in w[p].seeds => seed[n].st # "done"
      BY <2>5 DEF RunLooks, HostLooks, Reserved, Claiming
    <3>2. n \in S => seed[n].st = "none"
      BY <2>2 DEF Claimable, SafeInv, Disjoint
    <3>3. seed[n].st = "processing" => n \in w[p].seeds
      BY <1>h, <2>5 DEF Holding, HoldsSeed, Claiming, Working, InBatch
    <3> QED BY <2>3, <2>4, <2>5, <3>1, <3>2, <3>3
            DEF HostLooks, Reserved, Claiming, Working, Finishing, InBatch, Settling
  <2> QED BY <2>3, <2>4, <2>5, <2>6, <2>7 DEF RunLooks, Finishing, Settling
<1>4. CASE Demote(p)
  <2>1. PICK D \in SUBSET (w[p].ans \cap MustRevalidate) :
        /\ seed' = [n \in Names |-> IF n \in D
                        THEN [st |-> "queued", att |-> 0, pri |-> seed[n].pri] ELSE seed[n]]
        /\ verdict' = [n \in Names |-> IF n \in D THEN "unverified" ELSE verdict[n]]
        /\ live' = live \ D
        /\ Become(p, [w[p] EXCEPT !.ans = @ \ D,
                 !.pc = IF w[p].todo = {} THEN "record" ELSE "resolve"])
    BY <1>4, Zenon DEF Demote
  <2>2. w[p].pc = "demote" /\ cache' = cache
    BY <1>4 DEF Demote
  <2>3. /\ w'[p].todo = w[p].todo /\ w'[p].ans = w[p].ans \ D /\ w'[p].res = w[p].res
        /\ w'[p].pc = (IF w[p].todo = {} THEN "record" ELSE "resolve")
    <3> DEFINE pc == IF w[p].todo = {} THEN "record" ELSE "resolve"
    <3>1. w'[p] = [w[p] EXCEPT !.ans = @ \ D, !.pc = pc]
      BY <1>t, <2>1, BecomeMoves
    <3> HIDE DEF pc
    <3>2. w'[p].todo = w[p].todo /\ w'[p].ans = w[p].ans \ D /\ w'[p].res = w[p].res
          /\ w'[p].pc = pc
      BY <1>t, <3>1 DEF Worker
    <3> QED BY <3>2 DEF pc
  <2>4. \A n \in Names : /\ n \in D => seed'[n].st = "queued"
                         /\ n \notin D => seed'[n] = seed[n] /\ verdict'[n] = verdict[n]
    BY <2>1
  <2>5. SettledLooked'
    BY <2>1, <2>2, <2>4 DEF SettledLooked, Looked
  <2>6. ASSUME NEW n \in Names PROVE HostLooks(w[p], n)'
    <3>1. HostLooks(w[p], n)
      BY DEF RunLooks
    <3>2. n \notin D /\ OutcomeKept(w[p], n) => OutcomeKept(w[p], n)'
      BY <2>2, <2>3, <2>4 DEF OutcomeKept, Uncharged, Unjournalled
    <3> QED BY <2>2, <2>3, <2>4, <3>1, <3>2
            DEF HostLooks, Reserved, Claiming, Working, Finishing, InBatch, Settling
  <2> QED BY <2>1, <2>2, <2>3, <2>5, <2>6 DEF RunLooks, Finishing, Settling
<1>5. CASE RecordLearning(p) \/ DoneCands(p) \/ RequeueCands(p)
  <2>1. PICK pc \in Settling : w'[p] = [w[p] EXCEPT !.pc = pc]
    BY <1>t, <1>5, BecomeMoves DEF RecordLearning, DoneCands, RequeueCands, Settling
  <2>2. /\ w'[p].todo = w[p].todo /\ w'[p].cur = w[p].cur /\ w'[p].res = w[p].res
        /\ w'[p].ans = w[p].ans /\ w'[p].seeds = w[p].seeds /\ w'[p].pc = pc
    BY <1>t, <2>1 DEF Worker
  <2>3. seed' = seed /\ cache' = cache /\ verdict' = verdict /\ live' = live
        /\ w[p].pc \in Settling
    BY <1>5 DEF RecordLearning, DoneCands, RequeueCands, Settling
  <2> QED BY <2>1, <2>2, <2>3, PassLooks
<1>6. CASE RequeueSeeds(p)
  <2>1. w[p].pc = "requeues" /\ cache' = cache /\ verdict' = verdict /\ live' = live
        /\ seed' = Requeued(seed, NotStarted(p)) /\ w'[p] = [w[p] EXCEPT !.pc = "dones"]
    BY <1>t, <1>6, BecomeMoves DEF RequeueSeeds
  <2>2. /\ w'[p].todo = w[p].todo /\ w'[p].cur = w[p].cur /\ w'[p].res = w[p].res
        /\ w'[p].ans = w[p].ans /\ w'[p].pc = "dones"
    BY <1>t, <2>1 DEF Worker
  <2>3. \A n \in Names : /\ seed'[n].st = seed[n].st \/ seed'[n].st = "queued"
                         /\ seed'[n].att = seed[n].att
    BY <1>t, <2>1, RequeueSeedRow
  <2>4. SettledLooked'
    BY <2>1, <2>3 DEF SettledLooked, Looked
  <2>5. ASSUME NEW n \in Names PROVE HostLooks(w[p], n)'
    <3>1. HostLooks(w[p], n)
      BY DEF RunLooks
    <3>2. OutcomeKept(w[p], n) => OutcomeKept(w[p], n)'
      BY <2>1, <2>2, <2>3 DEF OutcomeKept, Uncharged, Unjournalled
    <3> QED BY <2>1, <2>2, <2>3, <3>1, <3>2
            DEF HostLooks, Reserved, Claiming, Working, Finishing, InBatch, Settling
  <2> QED BY <2>1, <2>2, <2>4, <2>5 DEF RunLooks, Finishing, Settling
<1>7. CASE DoneSeeds(p)
  <2>1. /\ w[p].pc = "dones" /\ cache' = cache /\ live' = live
        /\ seed' = SettledSeeds(Terminal(p))
        /\ w'[p] = [w[p] EXCEPT !.pc = "claim", !.mode = "wave", !.seeds = {}, !.cands = {},
                                !.res = EmptyRes]
    BY <1>t, <1>7, BecomeMoves DEF DoneSeeds
  <2>2. w'[p].ans = w[p].ans /\ w'[p].pc = "claim"
    BY <1>t, <2>1 DEF Worker
  <2>3. ASSUME NEW n \in Names, seed[n].st = "processing", n \in Terminal(p),
               seed'[n].st = "done"
        PROVE  Looked(n)'
    <3>1. w[p].todo = {} /\ OutcomeKept(w[p], n)
      BY <2>1, <2>3 DEF RunLooks, HostLooks, Finishing, Settling
    <3>2. w[p].res[n] \notin Held /\ w[p].res[n] \in Classes
      BY <1>t, <2>3, <3>1 DEF Terminal, NotStarted, WaveHosts, OutcomeKept, Worker
    <3>3. seed'[n].att = seed[n].att /\ seed'[n] = Settle(n, seed[n])
      BY <1>t, <2>1, <2>3, SettledSeedRow DEF SettledSeeds
    <3>4. CASE w[p].res[n] = "cache"
      BY <2>1, <3>1, <3>4 DEF OutcomeKept, Looked
    <3>5. CASE w[p].res[n] \in Network
      BY <2>1, <3>1, <3>3, <3>5 DEF OutcomeKept, Looked, Uncharged
    <3>6. CASE w[p].res[n] = "unsent"
      <4>1. verdict[n] = "error"
        BY <2>1, <3>1, <3>6 DEF OutcomeKept, Unjournalled, Uncharged
      <4>2. seed[n].att >= MaxAttempts
        BY <1>t, <2>3, <3>3, <4>1, LimitsAssumption DEF Settle, SeedRow
      <4> QED BY <1>t, <3>3, <4>2, LimitsAssumption DEF Looked, SeedRow
    <3> QED BY <3>2, <3>4, <3>5, <3>6 DEF Classes, Held, Network
  <2>4. SettledLooked'
    <3>1. \A n \in Names : /\ ~(n \in Terminal(p) /\ seed[n].st = "processing") => seed'[n] = seed[n]
                           /\ seed'[n].att = seed[n].att
      BY <1>t, <2>1, SettledSeedRow
    <3> QED BY <2>1, <2>3, <3>1 DEF SettledLooked, Looked
  <2> QED BY <1>p, <2>1, <2>2, <2>4, QuietLooks DEF RunLooks
<1> QED BY <1>1, <1>2, <1>3, <1>4, <1>5, <1>6, <1>7 DEF Wave

\* What a resolution leaves behind stays until the rows are settled.
LEMMA BatchLooks ==
    ASSUME SafeInv, TypeOK', ~Overlap, NEW p \in Procs, SettledLooked, RunLooks(p), Batch(p)
    PROVE  RunLooks(p)' /\ SettledLooked'
<1>t. /\ TypeOK /\ w[p] \in Worker /\ ShapeOf(w[p]) /\ seed \in [Names -> SeedRow]
      /\ cache \in [Names -> CacheState] /\ verdict \in [Names -> Verdicts]
    BY DEF SafeInv, TypeOK, Shape
<1>h. w[p].pc # "off" /\ Holding(p)
    BY <1>t, OneMoves DEF SafeInv, ClaimsHeld, Work
<1> USE DEF At
<1>1. CASE Resolve(p)
  <2>1. /\ w[p].pc = "resolve" /\ w'[p].pc = "startc" /\ w'[p].ans = w[p].ans
        /\ w'[p].cur \subseteq w[p].todo /\ w'[p].todo = w[p].todo \ w'[p].cur
        /\ seed' = seed
        /\ \A n \in Names : IF n \in w'[p].cur THEN Possible(p, n, w'[p].res[n])
                                             ELSE w'[p].res[n] = w[p].res[n]
    BY <1>t, <1>1, ResolveMoves
  <2>2. cache' = cache /\ verdict' = verdict /\ live' = live
    BY <1>1, Zenon DEF Resolve, db
  <2>3. SettledLooked'
    BY <2>1, <2>2 DEF SettledLooked, Looked
  <2>4. ASSUME NEW n \in Names PROVE HostLooks(w[p], n)'
    <3>1. HostLooks(w[p], n)
      BY DEF RunLooks
    <3>2. n \in w'[p].cur => OutcomeKept(w[p], n)'
      BY <1>t, <2>1, <2>2 DEF OutcomeKept, Possible, Served, CacheState, Network, Uncharged,
         Unjournalled
    <3>3. n \notin w'[p].cur /\ OutcomeKept(w[p], n) => OutcomeKept(w[p], n)'
      BY <2>1, <2>2 DEF OutcomeKept, Uncharged, Unjournalled
    <3> QED BY <2>1, <3>1, <3>2, <3>3
            DEF HostLooks, Reserved, Claiming, Working, Finishing, InBatch, Settling
  <2> QED BY <2>1, <2>2, <2>3, <2>4 DEF RunLooks, Finishing, Settling
<1>2. CASE StartCands(p)
  <2>1. w'[p] = [w[p] EXCEPT !.pc = "starts"] /\ w[p].pc = "startc" /\ seed' = seed
        /\ cache' = cache /\ verdict' = verdict /\ live' = live
    BY <1>t, <1>2, BecomeMoves DEF StartCands
  <2>2. /\ w'[p].todo = w[p].todo /\ w'[p].cur = w[p].cur /\ w'[p].res = w[p].res
        /\ w'[p].ans = w[p].ans /\ w'[p].seeds = w[p].seeds /\ w'[p].pc = "starts"
    BY <1>t, <2>1 DEF Worker
  <2> QED BY <2>1, <2>2, PassLooks
<1>3. CASE StartSeeds(p)
  <2>1. w'[p] = [w[p] EXCEPT !.pc = "unstart"] /\ w[p].pc = "starts"
        /\ seed' = Started(seed, Hosts(p, Network))
        /\ cache' = cache /\ verdict' = verdict /\ live' = live
    BY <1>t, <1>3, BecomeMoves DEF StartSeeds
  <2>2. /\ w'[p].todo = w[p].todo /\ w'[p].cur = w[p].cur /\ w'[p].res = w[p].res
        /\ w'[p].ans = w[p].ans /\ w'[p].pc = "unstart"
    BY <1>t, <2>1 DEF Worker
  <2>3. \A n \in Names :
            /\ seed'[n].st = seed[n].st
            /\ seed'[n].att = (IF n \in Hosts(p, Network) /\ seed[n].st = "processing"
                               THEN seed[n].att + 1 ELSE seed[n].att)
            /\ seed[n].att \in Nat
    BY <1>t, <2>1, StartSeedRow DEF SeedRow
  <2>4. SettledLooked'
    BY <2>1, <2>3 DEF SettledLooked, Looked
  <2>5. ASSUME NEW n \in Names PROVE HostLooks(w[p], n)'
    <3>1. HostLooks(w[p], n)
      BY DEF RunLooks
    <3>2. seed[n].st = "processing" /\ OutcomeKept(w[p], n) => OutcomeKept(w[p], n)'
      BY <2>1, <2>2, <2>3 DEF OutcomeKept, Uncharged, Unjournalled, Hosts
    <3> QED BY <2>1, <2>2, <2>3, <3>1, <3>2
            DEF HostLooks, Reserved, Claiming, Working, Finishing, InBatch, Settling
  <2> QED BY <2>1, <2>2, <2>4, <2>5 DEF RunLooks, Finishing, Settling
<1>4. CASE UnstartSeeds(p)
  <2>1. /\ w[p].pc = "unstart" /\ seed' = Requeued(seed, Hosts(p, {"unstarted"}))
        /\ cache' = cache /\ verdict' = verdict /\ live' = live
    BY <1>4 DEF UnstartSeeds
  <2>2. PICK pc \in {"journal", "proof"} : w'[p] = [w[p] EXCEPT !.pc = pc]
    BY <1>t, <1>4, BecomeMoves DEF UnstartSeeds
  <2>3. /\ w'[p].todo = w[p].todo /\ w'[p].cur = w[p].cur /\ w'[p].res = w[p].res
        /\ w'[p].ans = w[p].ans /\ w'[p].pc = pc
    BY <1>t, <2>2 DEF Worker
  <2>4. \A n \in Names : /\ seed'[n].st = seed[n].st \/ seed'[n].st = "queued"
                         /\ seed'[n].att = seed[n].att
    BY <1>t, <2>1, RequeueSeedRow
  <2>5. SettledLooked'
    BY <2>1, <2>4 DEF SettledLooked, Looked
  <2>6. ASSUME NEW n \in Names PROVE HostLooks(w[p], n)'
    <3>1. HostLooks(w[p], n)
      BY DEF RunLooks
    <3>2. OutcomeKept(w[p], n) => OutcomeKept(w[p], n)'
      BY <2>1, <2>2, <2>3, <2>4 DEF OutcomeKept, Uncharged, Unjournalled
    <3> QED BY <2>1, <2>2, <2>3, <2>4, <3>1, <3>2
            DEF HostLooks, Reserved, Claiming, Working, Finishing, InBatch, Settling
  <2> QED BY <2>1, <2>2, <2>3, <2>5, <2>6 DEF RunLooks, Finishing, Settling
<1>5. ASSUME NEW pc \in {"match", "purge", "journal", "djournal", "findings"},
             w'[p] = [w[p] EXCEPT !.pc = pc],
             w[p].pc \in {"proof", "match", "purge", "journal", "djournal"},
             w[p].pc = "journal" \/ pc # "djournal",
             pc = "findings" => w[p].pc = "djournal",
             seed' = seed, live' = live,
             \A n \in Names : \/ cache'[n] = cache[n]
                              \/ cache'[n] # "none"
                              \/ n \in w[p].cur /\ w[p].res[n] \in Network,
             \A n \in Names : \/ verdict'[n] = verdict[n]
                              \/ w[p].res[n] # "unsent"
                              \/ verdict'[n] = "error",
             w[p].pc = "journal" => \A n \in Names :
                n \in w[p].cur /\ w[p].res[n] = "unsent" => verdict'[n] = "error"
      PROVE  RunLooks(p)' /\ SettledLooked'
  <2>1. /\ w'[p].todo = w[p].todo /\ w'[p].cur = w[p].cur /\ w'[p].res = w[p].res
        /\ w'[p].ans = w[p].ans /\ w'[p].pc = pc
    BY <1>t, <1>5 DEF Worker
  <2>2. ASSUME NEW n \in Names, seed[n].st = "done" PROVE Looked(n)'
    <3>1. n \notin w[p].cur
      BY <1>5, <2>2 DEF RunLooks, HostLooks, Reserved, InBatch
    <3> QED BY <1>5, <2>2, <3>1 DEF SettledLooked, Looked
  <2>3. ASSUME NEW n \in Names PROVE HostLooks(w[p], n)'
    <3>1. HostLooks(w[p], n)
      BY DEF RunLooks
    <3>2. OutcomeKept(w[p], n) => OutcomeKept(w[p], n)'
      BY <1>5, <2>1 DEF OutcomeKept, Uncharged, Unjournalled, Network
    <3> QED BY <1>5, <2>1, <3>1, <3>2
            DEF HostLooks, Reserved, Claiming, Working, Finishing, InBatch, Settling
  <2> QED BY <1>5, <2>1, <2>2, <2>3 DEF RunLooks, SettledLooked, Finishing, Settling
<1>6. CASE QuarantineNonexistent(p)
  <2>1. w'[p] = [w[p] EXCEPT !.pc = "match"]
    BY <1>t, <1>6, BecomeMoves DEF QuarantineNonexistent
  <2> QED BY <1>5, <1>6, <2>1 DEF QuarantineNonexistent, Recorded, Forgotten, Hosts, Network
<1>7. CASE RecordWildcardMatches(p)
  <2>1. w'[p] = [w[p] EXCEPT !.pc = "purge"]
    BY <1>t, <1>7, BecomeMoves DEF RecordWildcardMatches
  <2> QED BY <1>5, <1>7, <2>1 DEF RecordWildcardMatches, Recorded, Hosts
<1>8. CASE PurgeWildcards(p)
  <2>1. w'[p] = [w[p] EXCEPT !.pc = "journal"]
    BY <1>t, <1>8, BecomeMoves DEF PurgeWildcards
  <2> QED BY <1>5, <1>8, <2>1 DEF PurgeWildcards, Forgotten, Hosts, Network
<1>9. CASE Journal(p)
  <2>1. w'[p] = [w[p] EXCEPT !.pc = "djournal"]
    BY <1>t, <1>9, BecomeMoves DEF Journal
  <2>2. w[p].pc = "journal" /\ seed' = seed /\ live' = live
    BY <1>9 DEF Journal
  <2>3. \A n \in Names : cache'[n] = cache[n] \/ cache'[n] # "none"
    BY <1>9 DEF Journal
  <2>4. ASSUME NEW n \in Names
        PROVE  /\ n \in w[p].cur /\ w[p].res[n] = "unsent" => verdict'[n] = "error"
               /\ n \notin w[p].cur => verdict'[n] = verdict[n]
    BY <1>9 DEF Journal, Hosts, Indeterminate
  <2> QED BY <1>5, <2>1, <2>2, <2>3, <2>4
<1>10. CASE JournalDiscovery(p)
  <2>1. w'[p] = [w[p] EXCEPT !.pc = "findings"]
    BY <1>t, <1>10, BecomeMoves DEF JournalDiscovery
  <2> QED BY <1>5, <1>10, <2>1 DEF JournalDiscovery, Recorded, Hosts
<1>11. CASE PersistFindings(p)
  <2>1. PICK F : /\ live' = live \cup F
                 /\ w'[p] = [w[p] EXCEPT !.ans = @ \cup F, !.cur = {},
                      !.pc = CASE w[p].todo # {} -> "resolve"
                        [] w[p].todo = {} /\ Bounded(p) -> "brequeue"
                        [] OTHER -> "record"]
    BY <1>t, <1>11, BecomeMoves, Zenon DEF PersistFindings
  <2>2. /\ w[p].pc = "findings" /\ seed' = seed /\ cache' = cache /\ verdict' = verdict
    BY <1>11 DEF PersistFindings
  <2>3. /\ w'[p].todo = w[p].todo /\ w'[p].res = w[p].res /\ w'[p].ans = w[p].ans \cup F
        /\ w'[p].pc \in {"resolve", "brequeue", "record"}
        /\ w[p].todo # {} => w'[p].pc = "resolve"
    BY <1>t, <2>1 DEF Worker
  <2>4. SettledLooked'
    BY <2>1, <2>2 DEF SettledLooked, Looked
  <2>5. ASSUME NEW n \in Names PROVE HostLooks(w[p], n)'
    <3>1. HostLooks(w[p], n)
      BY DEF RunLooks
    <3>2. OutcomeKept(w[p], n) => OutcomeKept(w[p], n)'
      BY <2>2, <2>3 DEF OutcomeKept, Uncharged, Unjournalled
    <3> QED BY <2>2, <2>3, <3>1, <3>2
            DEF HostLooks, Reserved, Claiming, Working, Finishing, InBatch, Settling
  <2> QED BY <2>1, <2>2, <2>3, <2>4, <2>5, Zenon DEF RunLooks, Finishing, Settling
<1> QED BY <1>1, <1>2, <1>3, <1>4, <1>6, <1>7, <1>8, <1>9, <1>10, <1>11 DEF Batch

\* A persist keeps the settled rows as they are, and only outside a wave.
LEMMA PersistLooks ==
    ASSUME SafeInv, TypeOK', ~Overlap, NEW p \in Procs, SettledLooked, RunLooks(p), Persist(p)
    PROVE  RunLooks(p)' /\ SettledLooked'
<1>t. /\ TypeOK /\ Persisting /\ w[p] \in Worker
    BY DEF SafeInv, TypeOK
<1>p. {"persist", "row", "claim", "drain", "named"} \cap (Reserving \cup Finishing) = {}
    BY DEF Claiming, Working, Finishing, InBatch, Settling, Reserving
<1>0. cache' = cache /\ live' = live
    BY Zenon DEF Persist, BeginPersist, PersistRow, CommitPersist, db
<1>1. CASE BeginPersist(p) \/ PersistRow(p)
  <2>1. w'[p].ans = w[p].ans /\ w'[p].pc = "row"
    <3>1. CASE BeginPersist(p)
      <4>1. PICK S, f : w'[p] = [w[p] EXCEPT !.pc = "row", !.pay = S, !.pri = f, !.names = S]
        BY <1>t, <3>1, BecomeMoves, Zenon DEF BeginPersist
      <4> QED BY <1>t, <4>1 DEF Worker
    <3>2. CASE PersistRow(p)
      <4>1. PICK n : w'[p] = [w[p] EXCEPT !.pay = @ \ {n}]
        BY <1>t, <3>2, BecomeMoves DEF PersistRow
      <4> QED BY <1>t, <3>2, <4>1 DEF Worker, PersistRow, At
    <3> QED BY <1>1, <3>1, <3>2
  <2>2. seed' = seed
    BY <1>1, Zenon DEF BeginPersist, PersistRow, db
  <2>3. SettledLooked'
    BY <1>0, <2>2 DEF SettledLooked, Looked
  <2> QED BY <1>0, <1>p, <2>1, <2>3, QuietLooks DEF RunLooks
<1>2. CASE CommitPersist(p)
  <2>1. lock # NoProc /\ seed' = wk
    BY <1>2, ProcsAssumption DEF CommitPersist
  <2>2. SettledLooked'
    BY <1>t, <1>0, <2>1, PersistingRow DEF KeptRow, AddedRow, SettledLooked, Looked
  <2>3. w'[p].ans \subseteq w[p].ans \cup live /\ w'[p].pc \in {"claim", "persist", "drain", "named"}
    <3> DEFINE pr == [n \in Names |-> 0]
               nm == IF w[p].mode = "named" THEN w[p].names ELSE {}
               md == IF w[p].mode = "late" THEN "drain" ELSE w[p].mode
               pc == CASE w[p].mode = "first" -> "claim"
                    [] w[p].mode = "late" -> "persist"
                    [] w[p].mode = "drain" -> "drain"
                    [] OTHER -> "named"
               an == IF w[p].mode = "first" THEN LiveAnswers ELSE w[p].ans
               dr == IF w[p].mode = "first" THEN Claimable(cand') # {} ELSE w[p].draining
    <3>1. w'[p] = [w[p] EXCEPT !.pri = pr, !.names = nm, !.mode = md, !.pc = pc, !.ans = an,
                               !.draining = dr]
      BY <1>t, <1>2, BecomeMoves, Zenon DEF CommitPersist
    <3>2. pc \in {"claim", "persist", "drain", "named"} /\ an \subseteq w[p].ans \cup live
      BY DEF LiveAnswers
    <3> HIDE DEF pr, nm, md, pc, an, dr
    <3>3. w'[p].ans = an /\ w'[p].pc = pc
      BY <1>t, <3>1 DEF Worker
    <3> QED BY <3>2, <3>3
  <2> QED BY <1>0, <1>p, <2>2, <2>3, QuietLooks DEF RunLooks
<1> QED BY <1>1, <1>2 DEF Persist

\* Names already answered are findings, and a bounded batch settles no other outcome than
\* an answer.
LEMMA ClosingLooks ==
    ASSUME SafeInv, TypeOK', ~Overlap, NEW p \in Procs, SettledLooked, RunLooks(p), Closing(p)
    PROVE  (w'[p].pc = "off" \/ RunLooks(p)') /\ SettledLooked'
<1>t. TypeOK /\ w[p] \in Worker /\ ShapeOf(w[p]) /\ seed \in [Names -> SeedRow]
    BY DEF SafeInv, TypeOK, Shape
<1>h. w[p].pc # "off" /\ Holding(p)
    BY <1>t, OneMoves DEF SafeInv, ClaimsHeld, Work
<1>p. {"persist", "enrich", "drain", "final"} \cap (Reserving \cup Finishing) = {}
    BY DEF Claiming, Working, Finishing, InBatch, Settling, Reserving
<1>0. cache' = cache /\ live' = live /\ verdict' = verdict
    BY Zenon DEF Closing, JoinLateCt, DrainClaim, MarkAnswered, Enrich, ClaimNamed, BoundedRequeue,
       BoundedDone, Pause, Finalize, db
<1> USE DEF At
<1>1. CASE JoinLateCt(p) \/ Enrich(p)
  <2>1. \/ \E m \in Modes :
              w'[p] = [w[p] EXCEPT !.mode = m, !.pc = "persist", !.calls = w[p].calls + 1]
        \/ w'[p] = [w[p] EXCEPT !.pc = "enrich"]
        \/ w'[p] = [w[p] EXCEPT !.pc = "final"]
    BY <1>t, <1>1, BecomeMoves DEF JoinLateCt, Enrich, Modes
  <2>2. w'[p].ans = w[p].ans /\ w'[p].pc \in {"persist", "enrich", "final"}
    BY <1>t, <2>1, Zenon DEF Worker
  <2>3. seed' = seed
    BY <1>1 DEF JoinLateCt, Enrich, db
  <2>4. SettledLooked'
    BY <1>0, <2>3 DEF SettledLooked, Looked
  <2> QED BY <1>0, <1>p, <2>2, <2>4, QuietLooks DEF RunLooks
<1>2. CASE DrainClaim(p)
  <2>1. PICK S \in SUBSET Names :
            /\ seed' = SetStatus(seed, S, "processing")
            /\ Become(p, [w[p] EXCEPT !.seeds = S, !.cands = {}, !.res = EmptyRes,
                          !.pc = IF S = {} THEN "enrich" ELSE "answered"])
    BY <1>2, Zenon DEF DrainClaim
  <2>2. PICK pc \in {"enrich", "answered"} :
            w'[p] = [w[p] EXCEPT !.seeds = S, !.cands = {}, !.res = EmptyRes, !.pc = pc]
    BY <1>t, <2>1, BecomeMoves
  <2>3. w'[p].ans = w[p].ans /\ w'[p].pc = pc /\ w'[p].seeds = S
    BY <1>t, <2>2 DEF Worker
  <2>4. \A n \in Names : /\ seed'[n].st = (IF n \in S THEN "processing" ELSE seed[n].st)
                         /\ seed'[n].att = seed[n].att
    BY <1>t, <2>1, SetSeedRow
  <2>5. SettledLooked'
    BY <1>0, <2>4 DEF SettledLooked, Looked
  <2>6. ASSUME NEW n \in Names PROVE HostLooks(w[p], n)'
    BY <2>2, <2>3, <2>4 DEF HostLooks, Reserved, Claiming, Working, Finishing, InBatch, Settling
  <2> QED BY <1>0, <2>2, <2>3, <2>5, <2>6 DEF RunLooks, Finishing, Settling
<1>3. CASE MarkAnswered(p)
  <2>1. /\ w[p].pc = "answered" /\ seed' = SettledSeeds(w[p].seeds \cap w[p].ans)
        /\ w'[p] = [w[p] EXCEPT !.seeds = @ \ w[p].ans, !.todo = w[p].seeds \ w[p].ans,
                      !.pc = IF w[p].seeds \subseteq w[p].ans THEN "drain" ELSE "resolve"]
    BY <1>t, <1>3, BecomeMoves DEF MarkAnswered
  <2>2. /\ w'[p].ans = w[p].ans /\ w'[p].todo = w[p].seeds \ w[p].ans
        /\ w'[p].pc \in {"drain", "resolve"}
    BY <1>t, <2>1 DEF Worker
  <2>3. \A n \in Names :
            /\ ~(n \in w[p].seeds \cap w[p].ans /\ seed[n].st = "processing")
                 => seed'[n] = seed[n]
            /\ n \in w[p].seeds \cap w[p].ans /\ seed[n].st = "processing"
                 => seed'[n].st \in {"queued", "done"}
    BY <1>t, <2>1, SettledSeedRow
  <2>4. SettledLooked'
    BY <1>0, <2>3 DEF SettledLooked, Looked, RunLooks
  <2>5. ASSUME NEW n \in Names PROVE HostLooks(w[p], n)'
    <3>1. n \in w[p].seeds => seed[n].st # "done"
      BY <2>1 DEF RunLooks, HostLooks, Reserved
    <3>2. seed[n].st = "processing" => n \in w[p].seeds
      BY <1>h, <2>1 DEF Holding, HoldsSeed, Claiming, Working, InBatch
    <3> QED BY <2>2, <2>3, <3>1, <3>2
            DEF HostLooks, Reserved, Claiming, Working, Finishing, InBatch, Settling
  <2> QED BY <1>0, <2>2, <2>4, <2>5 DEF RunLooks, Finishing, Settling
<1>4. CASE ClaimNamed(p)
  <2> DEFINE S == w[p].names \cap Claimable(seed)
  <2>1. /\ w[p].pc = "named" /\ seed' = SetStatus(seed, S, "processing")
        /\ Become(p, [w[p] EXCEPT !.seeds = S, !.cands = {}, !.todo = S, !.names = {},
                          !.res = EmptyRes, !.pc = IF S = {} THEN "enrich" ELSE "resolve"])
    BY <1>4, Zenon DEF ClaimNamed
  <2> HIDE DEF S
  <2>2. PICK pc \in {"enrich", "resolve"} :
            w'[p] = [w[p] EXCEPT !.seeds = S, !.cands = {}, !.todo = S, !.names = {},
                          !.res = EmptyRes, !.pc = pc]
    BY <1>t, <2>1, BecomeMoves
  <2>3. w'[p].ans = w[p].ans /\ w'[p].pc = pc /\ w'[p].todo = S
    BY <1>t, <2>2 DEF Worker
  <2>4. \A n \in Names : /\ seed'[n].st = (IF n \in S THEN "processing" ELSE seed[n].st)
                         /\ seed'[n].att = seed[n].att
    BY <1>t, <2>1, SetSeedRow
  <2>5. SettledLooked'
    BY <1>0, <2>4 DEF SettledLooked, Looked
  <2>6. ASSUME NEW n \in Names PROVE HostLooks(w[p], n)'
    <3>1. seed[n].st # "processing"
      BY <1>h, <2>1 DEF Holding, HoldsSeed, Claiming, Working, InBatch
    <3> QED BY <2>2, <2>3, <2>4, <3>1
            DEF HostLooks, Reserved, Claiming, Working, Finishing, InBatch, Settling
  <2> QED BY <1>0, <2>2, <2>3, <2>5, <2>6 DEF RunLooks, Finishing, Settling
<1>5. CASE BoundedRequeue(p)
  <2>1. /\ w[p].pc = "brequeue" /\ seed' = Requeued(seed, Outstanding(p))
        /\ w'[p] = [w[p] EXCEPT !.pc = "bdone"]
    BY <1>t, <1>5, BecomeMoves DEF BoundedRequeue
  <2>2. /\ w'[p].todo = w[p].todo /\ w'[p].cur = w[p].cur /\ w'[p].res = w[p].res
        /\ w'[p].ans = w[p].ans /\ w'[p].pc = "bdone"
    BY <1>t, <2>1 DEF Worker
  <2>3. \A n \in Names : /\ seed'[n].st = seed[n].st \/ seed'[n].st = "queued"
                         /\ seed'[n].att = seed[n].att
    BY <1>t, <2>1, RequeueSeedRow
  <2>4. SettledLooked'
    BY <1>0, <2>3 DEF SettledLooked, Looked
  <2>5. ASSUME NEW n \in Names PROVE HostLooks(w[p], n)'
    <3>1. HostLooks(w[p], n)
      BY DEF RunLooks
    <3>2. OutcomeKept(w[p], n) => OutcomeKept(w[p], n)'
      BY <1>0, <2>1, <2>2, <2>3 DEF OutcomeKept, Uncharged, Unjournalled
    <3> QED BY <2>1, <2>2, <2>3, <3>1, <3>2
            DEF HostLooks, Reserved, Claiming, Working, Finishing, InBatch, Settling
  <2> QED BY <1>0, <2>1, <2>2, <2>4, <2>5 DEF RunLooks, Finishing, Settling
<1>6. CASE BoundedDone(p)
  <2>1. /\ w[p].pc = "bdone" /\ seed' = SettledSeeds(w[p].seeds \ Outstanding(p))
        /\ w'[p] = [w[p] EXCEPT !.seeds = {}, !.res = EmptyRes,
                      !.pc = IF w[p].mode = "drain" THEN "drain" ELSE "enrich"]
    BY <1>t, <1>6, BecomeMoves DEF BoundedDone
  <2>2. w'[p].ans = w[p].ans /\ w'[p].pc \in {"drain", "enrich"}
    BY <1>t, <2>1 DEF Worker
  <2>3. \A n \in Names :
            /\ ~(n \in w[p].seeds \ Outstanding(p) /\ seed[n].st = "processing")
                 => seed'[n] = seed[n]
            /\ seed'[n].att = seed[n].att
    BY <1>t, <2>1, SettledSeedRow
  <2>4. ASSUME NEW n \in Names, seed[n].st = "processing", n \in w[p].seeds \ Outstanding(p)
        PROVE  Looked(n)'
    <3>1. w[p].todo = {} /\ OutcomeKept(w[p], n)
      BY <2>1, <2>4 DEF RunLooks, HostLooks, Finishing
    <3>2. w[p].res[n] \in Network \cup {"cache"}
      BY <1>t, <2>4, <3>1 DEF Outstanding, OutcomeKept, Worker, Classes, Held, Indeterminate
    <3> QED BY <1>0, <2>1, <2>3, <3>1, <3>2 DEF OutcomeKept, Looked, Uncharged
  <2>5. SettledLooked'
    BY <1>0, <2>3, <2>4 DEF SettledLooked, Looked
  <2> QED BY <1>0, <1>p, <2>2, <2>5, QuietLooks DEF RunLooks
<1>7. CASE Pause(p) \/ Finalize(p)
  <2>1. w'[p] = Off
    BY <1>t, <1>7, BecomeMoves DEF Pause, Finalize
  <2>2. seed' = seed \/ seed' = EmptySeeds
    BY <1>7 DEF Pause, Finalize, db
  <2>3. SettledLooked'
    BY <1>0, <2>2 DEF SettledLooked, Looked, EmptySeeds, NoSeed
  <2> QED BY <2>1, <2>3 DEF Off
<1> QED BY <1>1, <1>2, <1>3, <1>4, <1>5, <1>6, <1>7 DEF Closing

\* Every step of every run keeps it.
LEMMA StepLooks == SafeInv /\ TypeOK' /\ LookInv /\ [Next]_vars => LookInv'
<1> SUFFICES ASSUME SafeInv, TypeOK', LookInv, [Next]_vars, ~Overlap
             PROVE  SettledLooked' /\ \A p \in Procs : w'[p].pc # "off" => RunLooks(p)'
    BY DEF LookInv
<1>t. TypeOK /\ seed \in [Names -> SeedRow]
    BY DEF SafeInv, TypeOK
<1>l. SettledLooked /\ \A p \in Procs : w[p].pc # "off" => RunLooks(p)
    BY DEF LookInv
<1>1. ASSUME NEW p \in Procs, Begin(p)
      PROVE  SettledLooked' /\ \A q \in Procs : w'[q].pc # "off" => RunLooks(q)'
  <2>1. /\ seed' = Reopened(seed) /\ cache' = cache /\ live' = live
        /\ w'[p] = [Off EXCEPT !.pc = "persist"]
        /\ \A q \in Procs \ {p} : w'[q] = w[q] /\ w[q].pc = "off"
    BY <1>t, <1>1, BecomeMoves DEF Begin, At
  <2>2. \A n \in Names : seed[n].att >= MaxAttempts => seed[n].att > 0
    BY <1>t, LimitsAssumption DEF SeedRow
  <2>3. SettledLooked'
    BY <1>t, <1>l, <2>1, <2>2, ReopenSeedRow DEF SettledLooked, Looked
  <2>4. w'[p].ans = {} /\ w'[p].pc = "persist"
    BY <2>1 DEF Off
  <2>5. RunLooks(p)'
    BY <2>4, QuietLooks DEF Claiming, Working, Finishing, InBatch, Settling, Reserving
  <2> QED BY <2>1, <2>3, <2>5
<1>2. ASSUME NEW p \in Procs, Work(p)
      PROVE  SettledLooked' /\ \A q \in Procs : w'[q].pc # "off" => RunLooks(q)'
  <2>1. w[p].pc # "off" /\ \A q \in Procs \ {p} : w'[q] = w[q]
    BY <1>t, <1>2, OneMoves
  <2>2. \A q \in Procs \ {p} : w[q].pc = "off"
    BY <2>1, OthersOff DEF SafeInv
  <2>3. (w'[p].pc = "off" \/ RunLooks(p)') /\ SettledLooked'
    BY <1>2, <1>l, <2>1, WaveLooks, BatchLooks, PersistLooks, ClosingLooks DEF Work
  <2> QED BY <2>1, <2>2, <2>3
<1>3. ASSUME NEW p \in Procs, Interrupt(p)
      PROVE  SettledLooked' /\ \A q \in Procs : w'[q].pc # "off" => RunLooks(q)'
  <2>1. /\ w[p].pc # "off" /\ w'[p] = Off /\ \A q \in Procs \ {p} : w'[q] = w[q]
        /\ seed' = seed /\ cache' = cache /\ live' = live
    BY <1>t, <1>3, BecomeMoves DEF Interrupt, At, db
  <2>2. \A q \in Procs \ {p} : w[q].pc = "off"
    BY <2>1, OthersOff DEF SafeInv
  <2> QED BY <1>l, <2>1, <2>2 DEF Off, SettledLooked, Looked
<1>4. ASSUME NEW n \in Names, CacheFill(n)
      PROVE  SettledLooked' /\ \A q \in Procs : w'[q].pc # "off" => RunLooks(q)'
  <2>1. /\ seed' = seed /\ live' = live /\ w' = w /\ verdict' = verdict
        /\ \A m \in Names : cache'[m] = cache[m] \/ cache'[m] # "none"
    BY <1>t, <1>4 DEF CacheFill, TypeOK
  <2>2. SettledLooked'
    BY <1>l, <2>1 DEF SettledLooked, Looked
  <2>3. ASSUME NEW q \in Procs, w[q].pc # "off", NEW m \in Names PROVE HostLooks(w[q], m)'
    BY <1>l, <2>1, <2>3
       DEF RunLooks, HostLooks, Reserved, OutcomeKept, Uncharged, Unjournalled
  <2> QED BY <1>l, <2>1, <2>2, <2>3 DEF RunLooks
<1>5. CASE UNCHANGED vars
  <2>1. seed' = seed /\ live' = live /\ w' = w /\ verdict' = verdict /\ cache' = cache
    BY <1>5 DEF vars, db
  <2>2. SettledLooked'
    BY <1>l, <2>1 DEF SettledLooked, Looked
  <2>3. ASSUME NEW q \in Procs, w[q].pc # "off", NEW m \in Names PROVE HostLooks(w[q], m)'
    BY <1>l, <2>1, <2>3
       DEF RunLooks, HostLooks, Reserved, OutcomeKept, Uncharged, Unjournalled
  <2> QED BY <1>l, <2>1, <2>2, <2>3 DEF RunLooks
<1> QED BY <1>1, <1>2, <1>3, <1>4, <1>5 DEF Next

\* Runs that exclude each other finalize a scan only when every passive name was charged a
\* query, was answered from the cache or is a finding.
THEOREM SeedsLookedAt == ASSUME ~Overlap PROVE Spec => QueriedBeforeDropped
<1> DEFINE A == applied' /\ ~applied => \A n \in Rows(seed) :
                    seed[n].att > 0 \/ cache[n] # "none" \/ n \in live
<1>1. Init => LookInv
  <2> SUFFICES ASSUME Init PROVE SettledLooked /\ \A p \in Procs : w[p].pc = "off"
    BY DEF LookInv
  <2> QED BY DEF Init, SettledLooked, EmptySeeds, NoSeed, Off
<1>2. SafeInv /\ SafeInv' /\ LookInv /\ [Next]_vars => LookInv'
    BY StepLooks DEF SafeInv
<1>3. SafeInv /\ LookInv /\ [Next]_vars => [A]_vars
  <2> SUFFICES ASSUME SafeInv, LookInv, [Next]_vars, applied', ~applied, NEW n \in Rows(seed)
               PROVE  Looked(n)
    BY DEF Looked
  <2>1. PICK p \in Procs : Finalize(p)
    <3>1. ASSUME NEW p \in Procs, Begin(p) \/ Interrupt(p) PROVE FALSE
      BY <3>1 DEF Begin, Interrupt, db
    <3>2. ASSUME NEW p \in Procs, Wave(p) \/ Batch(p) \/ Persist(p) PROVE FALSE
      <4>1. CASE Wave(p)
        BY <4>1, Zenon DEF Wave, ClaimSeeds, ReadCapacity, RefillQueue, ClaimCands, Demote,
           RecordLearning, DoneCands, RequeueCands, RequeueSeeds, DoneSeeds, db
      <4>2. CASE Batch(p)
        BY <4>2, Zenon DEF Batch, Resolve, StartCands, StartSeeds, UnstartSeeds,
           QuarantineNonexistent, RecordWildcardMatches, PurgeWildcards, Journal,
           JournalDiscovery, PersistFindings, db
      <4>3. CASE Persist(p)
        BY <4>3, Zenon DEF Persist, BeginPersist, PersistRow, CommitPersist, db
      <4> QED BY <3>2, <4>1, <4>2, <4>3
    <3>3. ASSUME NEW p \in Procs, Closing(p) PROVE Finalize(p)
      BY <3>3, Zenon DEF Closing, JoinLateCt, DrainClaim, MarkAnswered, Enrich, ClaimNamed,
         BoundedRequeue, BoundedDone, Pause, db
    <3>4. ASSUME NEW m \in Names, CacheFill(m) PROVE FALSE
      BY <3>4 DEF CacheFill
    <3>5. CASE UNCHANGED vars
      BY <3>5 DEF vars, db
    <3> QED BY <3>1, <3>2, <3>3, <3>4, <3>5 DEF Next, Work
  <2>2. w[p].pc = "final" /\ Claimable(seed) = {}
    BY <2>1 DEF Finalize, At, ResumeRequired
  <2>3. seed[n].st \in {"queued", "done"} /\ n \in Names /\ seed[n].att \in Nat
    <3>1. n \in Names /\ seed[n] \in SeedRow /\ seed[n].st # "none"
      BY DEF Rows, SafeInv, TypeOK
    <3>2. Holding(p)
      BY <2>2 DEF SafeInv, ClaimsHeld
    <3>3. ~HoldsSeed(p, n)
      BY <2>2 DEF HoldsSeed, Claiming, Working, InBatch
    <3> QED BY <3>1, <3>2, <3>3 DEF Holding, SeedRow, Status
  <2>4. CASE seed[n].st = "queued"
    BY <2>2, <2>3, <2>4, LimitsAssumption DEF Claimable, Looked
  <2>5. CASE seed[n].st = "done"
    BY <2>3, <2>5 DEF LookInv, SettledLooked
  <2> QED BY <2>3, <2>4, <2>5
<1> QED BY <1>1, <1>2, <1>3, QueueInvariant, PTL DEF Spec, QueriedBeforeDropped
=============================================================================

---------------------------- MODULE ScanLifecycle ----------------------------
(***************************************************************************)
(* The life of the scans of one domain: creation, the checkpoint that is   *)
(* both a resume point and a lease, its heartbeat, resume, supersession,   *)
(* pause, finalization, failure and cancellation, and the inventory        *)
(* refresh that shares the same two tables.  Processes share one SQLite    *)
(* file; each action is one transaction (db/scan.rs, scanner/run.rs,       *)
(* scanner/lifecycle.rs, scanner/refresh.rs).                              *)
(*                                                                         *)
(* Time is counted in ticks.  A row keeps the age of its timestamp, which  *)
(* stops at Lease + 1: the SQL only compares ages with the lease.          *)
(***************************************************************************)
EXTENDS Naturals

CONSTANTS
    Procs,     \* processes that open the database
    MaxScan,   \* bound: scans of the domain
    Lease,     \* the 120 s after which a running scan counts as abandoned
    Beat       \* --checkpoint-every: the longest time between two heartbeats

ASSUME BoundAssumption == MaxScan \in Nat
ASSUME TimeAssumption == Lease \in Nat \ {0} /\ Beat \in Nat \ {0}

VARIABLES
    scan,         \* scans: status, kind, age of started_at
    learned,      \* scans with learning_applied
    ckpt,         \* scan_checkpoints: state and age of updated_at
    rows,         \* queue rows of a scan: seeds and feeds, and active candidates
    staged,       \* scans with rows in refresh_wildcard_candidates
    matched,      \* history: refreshes that staged something
    quarantined,  \* history: refreshes whose staged names were moved to the quarantine
    top,          \* the last scan id given out
    pr            \* volatile state of each process

refresh == <<staged, matched, quarantined>>
vars == <<scan, learned, ckpt, rows, refresh, top, pr>>

Scans == 1..MaxScan
Ages == 0..(Lease + 1)
ScanStatus == {"none", "running", "interrupted", "failed", "completed", "partial", "superseded"}
ScanRow == [st : ScanStatus, kind : {"scan", "refresh"}, age : Ages]
CkptRow == [st : {"none", "open", "closed"}, age : Ages]
Outcomes == {"completed", "partial", "interrupted"}

ProcPCs == {"off", "new", "find", "found", "check", "supersede", "prune_new", "run", "fail",
            "prune_end", "stop", "rclose", "rrun", "rfinal"}
Process == [pc : ProcPCs, id : 0..MaxScan, job : {"new", "resume", "refresh"},
            beat : 0..Beat, out : Outcomes]

Idle == [pc |-> "off", id |-> 0, job |-> "new", beat |-> 0, out |-> "completed"]

-----------------------------------------------------------------------------
At(p, pc) == pr[p].pc = pc
Become(p, r) == pr' = [pr EXCEPT ![p] = r]
Goto(p, pc) == Become(p, [pr[p] EXCEPT !.pc = pc])

\* A process that works on a scan: its heartbeat runs, or is about to start.
Owning(p) == pr[p].pc \in {"check", "supersede", "prune_new", "run", "fail"} /\ pr[p].job # "refresh"

Stale(age) == age > Lease

\* Mutant: a scan without heartbeat is judged by the time it started.
AbandonedByStart(i) == scan[i].st = "running" /\ Stale(scan[i].age)

\* reconcile_stale_scans: the open checkpoint decides, or started_at without one.
Abandoned(i) ==
    /\ scan[i].st = "running"
    /\ Stale(IF ckpt[i].st = "open" THEN ckpt[i].age ELSE scan[i].age)

\* Mutant: only the lease of a scan protects it, not its start.
SupersedableNoStart(i, keep) ==
    /\ i < keep /\ scan[i].st \notin {"none", "completed", "superseded"}
    /\ ckpt[i].st # "closed"
    /\ ~(scan[i].st = "running" /\ ckpt[i].st = "open" /\ ~Stale(ckpt[i].age))

\* supersede_incomplete_candidate_queues: older scans, neither finished nor leased.
Supersedable(i, keep) ==
    /\ i < keep /\ scan[i].st \notin {"none", "completed", "superseded"}
    /\ ckpt[i].st # "closed"
    /\ ~ /\ scan[i].st = "running"
         /\ ~Stale(scan[i].age) \/ (ckpt[i].st = "open" /\ ~Stale(ckpt[i].age))

\* Mutants: the heartbeat opens the checkpoint again; the stage is written in the
\* place of the flag.
UpsertStage(i) == [ckpt EXCEPT ![i] = [st |-> "running", age |-> 0]]
UpsertAlways(i) == [ckpt EXCEPT ![i] = [st |-> "open", age |-> 0]]

\* upsert_checkpoint: nothing unless the scan is running, and never a closed row.
Upsert(i) ==
    IF scan[i].st = "running" /\ ckpt[i].st # "closed"
    THEN [ckpt EXCEPT ![i] = [st |-> "open", age |-> 0]] ELSE ckpt

\* Mutants: any open checkpoint can be taken over; only a scan that was closed or
\* reconciled can.
ReopenableNotRunning(i) == ckpt[i].st = "open" /\ scan[i].st \notin {"completed", "running"}
ReopenableAlways(i) == ckpt[i].st = "open" /\ scan[i].st # "completed"

\* The tests of reopen_scan.
Reopenable(i) ==
    /\ ckpt[i].st = "open"
    /\ scan[i].st # "completed"
    /\ ~(scan[i].st = "running" /\ ckpt[i].age < Lease)

Prunable == {i \in Scans : scan[i].st \in {"completed", "superseded"}}

Init ==
    /\ scan = [i \in Scans |-> [st |-> "none", kind |-> "scan", age |-> 0]]
    /\ learned = {}
    /\ ckpt = [i \in Scans |-> [st |-> "none", age |-> 0]]
    /\ rows = [i \in Scans |-> {}]
    /\ staged = {}
    /\ matched = {}
    /\ quarantined = {}
    /\ top = 0
    /\ pr = [p \in Procs |-> Idle]

-----------------------------------------------------------------------------
(* Opening the database, creating and resuming a scan.                     *)

\* Every command opens the database, which reconciles abandoned scans first and
\* drops the refresh staging of scans that are not running.
Open(p) ==
    /\ At(p, "off")
    /\ scan' = [i \in Scans |-> IF Abandoned(i) THEN [scan[i] EXCEPT !.st = "interrupted"] ELSE scan[i]]
    /\ staged' = {i \in staged : scan'[i].st = "running"}
    /\ \/ \E job \in {"new", "refresh"} : Become(p, [Idle EXCEPT !.pc = "new", !.job = job])
       \/ Become(p, [Idle EXCEPT !.pc = "find", !.job = "resume"])
       \/ UNCHANGED pr
    /\ UNCHANGED <<learned, ckpt, rows, matched, quarantined, top>>

\* create_scan.
CreateScan(p) ==
    /\ At(p, "new")
    /\ top < MaxScan
    /\ top' = top + 1
    /\ scan' = [scan EXCEPT ![top + 1] =
        [st |-> "running", kind |-> IF pr[p].job = "refresh" THEN "refresh" ELSE "scan", age |-> 0]]
    /\ Become(p, [pr[p] EXCEPT !.pc = "check", !.id = top + 1, !.beat = 0])
    /\ UNCHANGED <<learned, ckpt, rows, refresh>>

\* resumable_checkpoint, by number or the latest one, ...
FindCheckpoint(p) ==
    /\ At(p, "find")
    /\ \/ \E i \in Scans : ckpt[i].st = "open" /\ Become(p, [pr[p] EXCEPT !.pc = "found", !.id = i])
       \/ (\A i \in Scans : ckpt[i].st # "open") /\ Become(p, Idle)
    /\ UNCHANGED <<scan, learned, ckpt, rows, refresh, top>>

\* ... then the options hash, which a refresh never shares with a scan, and
\* reopen_scan.  Any refusal ends the command.
ReopenScan(p) ==
    /\ At(p, "found")
    /\ LET i == pr[p].id IN
        \/ /\ scan[i].kind = "scan" /\ Reopenable(i)
           /\ scan' = [scan EXCEPT ![i].st = "running"]
           /\ ckpt' = [ckpt EXCEPT ![i].age = 0]
           /\ Become(p, [pr[p] EXCEPT !.pc = "check", !.beat = 0])
        \/ Become(p, Idle) /\ UNCHANGED <<scan, ckpt>>
    /\ UNCHANGED <<learned, rows, refresh, top>>

\* The first upsert_checkpoint of a run.
FirstCheckpoint(p) ==
    /\ At(p, "check")
    /\ ckpt' = Upsert(pr[p].id)
    /\ Become(p, [pr[p] EXCEPT !.beat = 0,
        !.pc = CASE pr[p].job = "new" -> "supersede"
                 [] pr[p].job = "resume" -> "run"
                 [] OTHER -> "rclose"])
    /\ UNCHANGED <<scan, learned, rows, refresh, top>>

\* A new scan replaces the abandoned ones; their active candidates stay for pruning.
Supersede(p) ==
    /\ At(p, "supersede")
    /\ LET gone == {i \in Scans : Supersedable(i, pr[p].id)} IN
        /\ rows' = [i \in Scans |-> IF i \in gone THEN rows[i] \ {"seeds"} ELSE rows[i]]
        /\ ckpt' = [i \in Scans |-> IF i \in gone /\ ckpt[i].st # "none"
                                    THEN [st |-> "closed", age |-> 0] ELSE ckpt[i]]
        /\ scan' = [i \in Scans |-> IF i \in gone THEN [scan[i] EXCEPT !.st = "superseded"] ELSE scan[i]]
    /\ Goto(p, "prune_new")
    /\ UNCHANGED <<learned, refresh, top>>

\* prune_superseded_candidate_queues deletes a page of finished scans' candidates.
PruneQueues(p) ==
    /\ pr[p].pc \in {"prune_new", "prune_end"}
    /\ \E gone \in SUBSET Prunable :
        rows' = [i \in Scans |-> IF i \in gone THEN rows[i] \ {"cands"} ELSE rows[i]]
    /\ Goto(p, IF At(p, "prune_new") THEN "run" ELSE "stop")
    /\ UNCHANGED <<scan, learned, ckpt, refresh, top>>

-----------------------------------------------------------------------------
(* A running scan.                                                         *)

\* The heartbeat task, alive until scan() has stopped it.
Heartbeat(p) ==
    /\ pr[p].pc \in {"run", "fail", "prune_end", "stop"} /\ pr[p].job # "refresh"
    /\ ckpt' = Upsert(pr[p].id)
    /\ Become(p, [pr[p] EXCEPT !.beat = 0])
    /\ UNCHANGED <<scan, learned, rows, refresh, top>>

\* The phases of the run persist seeds, feeds and candidates.
Produce(p) ==
    /\ At(p, "run")
    /\ rows' = [rows EXCEPT ![pr[p].id] = {"seeds", "cands"}]
    /\ UNCHANGED <<scan, learned, ckpt, refresh, top, pr>>

\* pause_scan.
PauseScan(p) ==
    /\ At(p, "run")
    /\ LET i == pr[p].id IN
        /\ scan' = IF i \in learned THEN scan ELSE [scan EXCEPT ![i].st = "interrupted"]
        /\ ckpt' = IF ckpt[i].st = "none" THEN ckpt ELSE [ckpt EXCEPT ![i] = [st |-> "open", age |-> 0]]
    /\ Goto(p, "stop")
    /\ UNCHANGED <<learned, rows, refresh, top>>

\* finalize_scan_with_learning, which refuses to apply learning twice.
FinalizeScan(p) ==
    /\ At(p, "run")
    /\ LET i == pr[p].id IN
        \/ /\ i \notin learned
           /\ scan' = [scan EXCEPT ![i].st = "completed"]
           /\ learned' = learned \cup {i}
           /\ ckpt' = IF ckpt[i].st = "none" THEN ckpt ELSE [ckpt EXCEPT ![i] = [st |-> "closed", age |-> 0]]
           /\ rows' = [rows EXCEPT ![i] = @ \ {"seeds"}]
           /\ Goto(p, "prune_end")
        \/ /\ i \in learned
           /\ Goto(p, "fail")
           /\ UNCHANGED <<scan, learned, ckpt, rows>>
    /\ UNCHANGED <<refresh, top>>

\* scan_inner returns an error.
RunError(p) ==
    /\ At(p, "run")
    /\ Goto(p, "fail")
    /\ UNCHANGED <<scan, learned, ckpt, rows, refresh, top>>

\* finish_scan overwrites the status: "failed", or "interrupted" from the guard
\* when that first write does not succeed.
FailScan(p) ==
    /\ At(p, "fail")
    /\ \E st \in {"failed", "interrupted"} : scan' = [scan EXCEPT ![pr[p].id].st = st]
    /\ Goto(p, "stop")
    /\ UNCHANGED <<learned, ckpt, rows, refresh, top>>

\* Ctrl+C or a dropped future: ScanRunGuard::drop, and the heartbeat is aborted.
CancelScan(p) ==
    /\ At(p, "run")
    /\ scan' = [scan EXCEPT ![pr[p].id].st = "interrupted"]
    /\ Become(p, Idle)
    /\ UNCHANGED <<learned, ckpt, rows, refresh, top>>

\* The heartbeat has stopped and scan() returns.
Stop(p) ==
    /\ At(p, "stop")
    /\ Become(p, Idle)
    /\ UNCHANGED <<scan, learned, ckpt, rows, refresh, top>>

\* The process dies without running any destructor.
Kill(p) ==
    /\ ~At(p, "off")
    /\ Become(p, Idle)
    /\ UNCHANGED <<scan, learned, ckpt, rows, refresh, top>>

-----------------------------------------------------------------------------
(* Inventory refresh.                                                      *)

\* complete_checkpoint right after the first upsert: a refresh is not resumable.
CloseRefresh(p) ==
    /\ At(p, "rclose")
    /\ ckpt' = IF ckpt[pr[p].id].st = "none" THEN ckpt
               ELSE [ckpt EXCEPT ![pr[p].id] = [st |-> "closed", age |-> 0]]
    /\ Goto(p, "rrun")
    /\ UNCHANGED <<scan, learned, rows, refresh, top>>

\* stage_refresh_wildcard_candidates.
StageWildcards(p) ==
    /\ At(p, "rrun")
    /\ staged' = staged \cup {pr[p].id}
    /\ matched' = matched \cup {pr[p].id}
    /\ UNCHANGED <<scan, learned, ckpt, rows, quarantined, top, pr>>

\* apply_staged_refresh_wildcard_cleanup: whatever is staged goes to quarantine.
ApplyStaged(p) ==
    /\ At(p, "rrun")
    /\ quarantined' = quarantined \cup (staged \cap {pr[p].id})
    /\ staged' = staged \ {pr[p].id}
    /\ Become(p, [pr[p] EXCEPT !.pc = "rfinal", !.out = "completed"])
    /\ UNCHANGED <<scan, learned, ckpt, rows, matched, top>>

\* discard_refresh_wildcard_candidates: the refresh was partial or was dropped.
DiscardStaged(p) ==
    /\ At(p, "rrun")
    /\ staged' = staged \ {pr[p].id}
    /\ \E out \in {"partial", "interrupted"} : Become(p, [pr[p] EXCEPT !.pc = "rfinal", !.out = out])
    /\ UNCHANGED <<scan, learned, ckpt, rows, matched, quarantined, top>>

\* finalize_non_resumable_scan.
FinishRefresh(p) ==
    /\ At(p, "rfinal")
    /\ scan' = [scan EXCEPT ![pr[p].id].st = pr[p].out]
    /\ ckpt' = IF ckpt[pr[p].id].st = "none" THEN ckpt
               ELSE [ckpt EXCEPT ![pr[p].id] = [st |-> "closed", age |-> 0]]
    /\ Become(p, Idle)
    /\ UNCHANGED <<learned, rows, refresh, top>>

-----------------------------------------------------------------------------
Older(age) == IF age <= Lease THEN age + 1 ELSE age

\* A run beats in time; its setup is a few transactions in a row.
SettingUp(p) == pr[p].pc \in {"check", "supersede", "prune_new", "rclose"}
Beating(p) == pr[p].pc \in {"run", "fail"}

\* The clock moves, but not past the next heartbeat of a process that owns a scan.
Tick ==
    /\ \A p \in Procs : (SettingUp(p) => pr[p].beat < 1) /\ (Beating(p) => pr[p].beat < Beat)
    /\ scan' = [i \in Scans |-> [scan[i] EXCEPT !.age = Older(@)]]
    /\ ckpt' = [i \in Scans |-> [ckpt[i] EXCEPT !.age = Older(@)]]
    /\ pr' = [p \in Procs |-> IF SettingUp(p) \/ Beating(p) THEN [pr[p] EXCEPT !.beat = @ + 1] ELSE pr[p]]
    /\ UNCHANGED <<learned, rows, refresh, top>>

Setup(p) ==
    \/ CreateScan(p) \/ FindCheckpoint(p) \/ ReopenScan(p) \/ FirstCheckpoint(p)
    \/ Supersede(p) \/ PruneQueues(p) \/ CloseRefresh(p)

Run(p) ==
    \/ Heartbeat(p) \/ Produce(p) \/ PauseScan(p) \/ FinalizeScan(p) \/ RunError(p)
    \/ FailScan(p) \/ CancelScan(p) \/ Stop(p)

Refresh(p) == StageWildcards(p) \/ ApplyStaged(p) \/ DiscardStaged(p) \/ FinishRefresh(p)

Next == Tick \/ \E p \in Procs : Open(p) \/ Setup(p) \/ Run(p) \/ Refresh(p) \/ Kill(p)

Spec == Init /\ [][Next]_vars

\* Time passes, and a process that has begun to set up a scan or whose heartbeat
\* is due is scheduled.
FairSpec == Spec /\ WF_vars(Tick) /\ \A p \in Procs : WF_vars(Setup(p)) /\ WF_vars(Heartbeat(p))

-----------------------------------------------------------------------------
(* Properties.                                                             *)

TypeOK ==
    /\ scan \in [Scans -> ScanRow] /\ ckpt \in [Scans -> CkptRow]
    /\ rows \in [Scans -> SUBSET {"seeds", "cands"}]
    /\ {learned, staged, matched, quarantined} \subseteq SUBSET Scans
    /\ top \in 0..MaxScan
    /\ pr \in [Procs -> Process]

\* With a heartbeat shorter than the lease, no two processes work on one scan,
\* whatever resumes, takeovers, crashes and late heartbeats are interleaved.
OneOwner ==
    Beat < Lease => \A p, q \in Procs : p # q /\ Owning(p) /\ Owning(q) => pr[p].id # pr[q].id

\* The scan of a living process is never interrupted, superseded or finished by
\* another process or by a command that merely opens the database.
OwnerRunning ==
    Beat < Lease => \A p \in Procs : Owning(p) => scan[pr[p].id].st = "running"

\* Durable work is never stranded: as long as a scan has seeds or feeds left, its
\* checkpoint is open, so --resume can find it.
NoStrandedWork ==
    Beat < Lease => \A i \in Scans : "seeds" \in rows[i] => ckpt[i].st = "open"

\* A completed scan stays completed and a closed checkpoint stays closed: no late
\* heartbeat, pause, failure or cancellation opens finished work again.
ClosedStays ==
    [][Beat < Lease => \A i \in Scans :
        /\ scan[i].st = "completed" => scan'[i].st = "completed"
        /\ ckpt[i].st = "closed" => ckpt'[i].st = "closed"]_vars

\* A crashed scan does not stay locked: its lease runs out, unless it is
\* superseded or taken over first.
AbandonedReopens ==
    \A i \in Scans : (scan[i].st = "running" /\ ckpt[i].st = "open" /\ \A p \in Procs : pr[p].id # i)
        ~> (Reopenable(i) \/ ckpt[i].st = "closed" \/ \E p \in Procs : pr[p].id = i)

-----------------------------------------------------------------------------
(* What a document says, where the code disagrees.                         *)

\* "A complete refresh quarantines exact wildcard-signature matches": a refresh
\* that completes has quarantined what it staged.
StagedApplied ==
    \A p \in Procs : At(p, "rfinal") /\ pr[p].out = "completed" /\ pr[p].id \in matched
        => pr[p].id \in quarantined
=============================================================================

------------------------------ MODULE CtIndex ------------------------------
(***************************************************************************)
(* The incremental index of certificate transparency logs (ct_monitor.rs,  *)
(* ct_static.rs, db/enrichment.rs, db/passive.rs): the marker that says a  *)
(* recent pass was complete, the slot that lets one task of a process read *)
(* the logs, the durable cursor and names of each log, and the copy of the *)
(* target's names into passive evidence.  Tasks of one process share the   *)
(* slot; all processes share the database.                                 *)
(*                                                                         *)
(* Entries are numbered from 0.  A cursor is the next entry to read.       *)
(***************************************************************************)
EXTENDS Integers, FiniteSets, Sequences

CONSTANTS
    Tasks,       \* the CT tasks of the scans that run
    Grouping,    \* whether the tasks belong to one process (TRUE), to several, or either
    NumLogs,     \* logs of the list of Chrome, in the order of their URLs
    Names,       \* names a certificate may hold
    NameAt,      \* the name of each entry of each log
    TargetNames,      \* the names under the scanned domain
    MaxTree,     \* bound: entries of a log
    MaxStarts,   \* bound: tasks started, all together
    MaxLogs,     \* --ct-max-logs
    PerLog,      \* --ct-entries-per-log
    Backfill,    \* --ct-initial-backfill
    RequestLimit,   \* get-entries requests per pass
    TileWidth,   \* entries of a static data tile
    MaxTiles,    \* MAX_TILES_PER_SYNC
    PageSize     \* CT_MATERIALIZATION_PAGE_SIZE

Logs == 1..NumLogs

ASSUME CtAssumption ==
    /\ MaxTree \in Nat /\ NumLogs \in Nat /\ MaxStarts \in Nat
    /\ NameAt \in [Logs -> [0..(MaxTree - 1) -> Names]] /\ TargetNames \subseteq Names
    /\ Grouping \subseteq BOOLEAN
    /\ MaxLogs \in Nat /\ PerLog \in Nat /\ Backfill \in Nat /\ RequestLimit \in Nat
    /\ TileWidth \in Nat \ {0} /\ MaxTiles \in Nat /\ PageSize \in Nat \ {0}

None == -1

VARIABLES
    one,      \* all tasks belong to one process
    head,     \* the largest size each log has announced
    cursor,   \* ct_global_state.next_index, or None
    logOrder,    \* the logs with a cursor, grouped by the second of updated_at, oldest first
    index,    \* ct_names
    marker,   \* a fresh ct.global.last_refresh row
    evid,     \* evidence passive:ct-direct of the target
    cache,    \* passive_cache of ct-direct: "none", "stale" or "fresh"
    tk,       \* each task
    lg,       \* the pass of each task over each log
    starts,   \* tasks started so far
    lo, hi    \* history: the range of each log that the index covers

store == <<cursor, logOrder, index, lo, hi>>
ctVars == <<one, head, store, marker, evid, cache, tk, lg, starts>>

NoPass == [pc |-> "idle", size |-> 0, start |-> 0, next |-> 0, total |-> 0, pages |-> 0,
           reset |-> FALSE]
NoTask == [pc |-> "off", sel |-> {}, late |-> FALSE, complete |-> FALSE, left |-> {}, got |-> {}]
NoPasses == [l \in Logs |-> NoPass]

CtInit ==
    /\ one \in Grouping
    /\ head = [l \in Logs |-> 0]
    /\ cursor = [l \in Logs |-> None]
    /\ logOrder = <<>>
    /\ index = {} /\ marker = FALSE /\ evid = {} /\ cache = "none"
    /\ tk = [t \in Tasks |-> NoTask]
    /\ lg = [t \in Tasks |-> NoPasses]
    /\ starts = 0
    /\ lo = [l \in Logs |-> 0] /\ hi = [l \in Logs |-> None]

TaskAt(t, pc) == tk[t].pc = pc
Become(t, r) == tk' = [tk EXCEPT ![t] = r]
Goto(t, pc) == Become(t, [tk[t] EXCEPT !.pc = pc])

\* The steps of a task that hold the permit of CT_GLOBAL_GATE.
Indexing == {"recheck", "list", "index", "marker"}

-----------------------------------------------------------------------------
(* The task: marker, slot, list of logs.                                   *)

\* monitor_ct_logs_until.  A fresh marker skips the logs.
Start(t) ==
    /\ TaskAt(t, "off") /\ starts < MaxStarts
    /\ starts' = starts + 1
    /\ Become(t, IF marker THEN [NoTask EXCEPT !.pc = "select", !.complete = TRUE]
                 ELSE [NoTask EXCEPT !.pc = "gate"])
    /\ UNCHANGED <<one, head, store, marker, evid, cache, lg>>

\* CT_GLOBAL_GATE has one permit per process.
PermitFree(t) == one => \A u \in Tasks : tk[u].pc \notin Indexing

\* Waiting for the permit is bounded by the deadline.
Acquire(t) ==
    /\ TaskAt(t, "gate")
    /\ \/ ~tk[t].late /\ PermitFree(t) /\ Goto(t, "recheck")
       \/ tk[t].late /\ Goto(t, "end")
    /\ UNCHANGED <<one, head, store, marker, evid, cache, lg, starts>>

\* Mutant: the marker is not read again under the permit.
RecheckBlind(t) ==
    /\ TaskAt(t, "recheck")
    /\ Goto(t, "list")
    /\ UNCHANGED <<one, head, store, marker, evid, cache, lg, starts>>

\* Another task may have completed the pass meanwhile.
Recheck(t) ==
    /\ TaskAt(t, "recheck")
    /\ Become(t, IF marker THEN [tk[t] EXCEPT !.pc = "select", !.complete = TRUE]
                 ELSE [tk[t] EXCEPT !.pc = "list"])
    /\ UNCHANGED <<one, head, store, marker, evid, cache, lg, starts>>

\* select_logs: logs without a cursor first, then the least recently updated, each in the
\* order of their URLs.
Age(l) == IF cursor[l] = None THEN 0 ELSE CHOOSE i \in DOMAIN logOrder : l \in logOrder[i]
Sooner(k, l) == Age(k) < Age(l) \/ (Age(k) = Age(l) /\ k < l)
SelectedLogs == {l \in Logs : Cardinality({k \in Logs : Sooner(k, l)}) < MaxLogs}

\* The list of logs of Chrome is read, or the whole task fails.
LoadList(t) ==
    /\ TaskAt(t, "list")
    /\ \/ /\ ~tk[t].late
          /\ Become(t, [tk[t] EXCEPT !.pc = "index", !.sel = SelectedLogs])
          /\ lg' = [lg EXCEPT ![t] = [l \in Logs |->
                        IF l \in SelectedLogs THEN [NoPass EXCEPT !.pc = "sth"] ELSE NoPass]]
       \/ Goto(t, "end") /\ UNCHANGED lg
    /\ UNCHANGED <<one, head, store, marker, evid, cache, starts>>

-----------------------------------------------------------------------------
(* One log.  A pass ends "ok", "partial" (an error after a committed page) *)
(* or "failed".                                                            *)

LogPass(t, l, r) == lg' = [lg EXCEPT ![t][l] = r]
InTask(t, l, pc) == TaskAt(t, "index") /\ lg[t][l].pc = pc
PassEnded(pc) == [NoPass EXCEPT !.pc = pc]
PassBroken(r) == PassEnded(IF r.total > 0 THEN "partial" ELSE "failed")

BackfillStart(size) == IF size > Backfill THEN size - Backfill ELSE 0

\* get-sth.  What a log announces may lag behind what it announced before.  Without an
\* answer the pass falls back to the static API, unless the deadline is over.
ReadHead(t, l) ==
    /\ InTask(t, l, "sth")
    /\ \/ /\ ~tk[t].late
          /\ \E s \in 0..MaxTree :
                /\ LogPass(t, l, [lg[t][l] EXCEPT !.pc = "cursor", !.size = s])
                /\ head' = [head EXCEPT ![l] = IF s > @ THEN s ELSE @]
       \/ LogPass(t, l, IF tk[t].late THEN PassEnded("failed") ELSE [lg[t][l] EXCEPT !.pc = "static"])
          /\ UNCHANGED head
    /\ UNCHANGED <<one, store, marker, evid, cache, tk, starts>>

\* Mutant: a pass that fell behind starts again at the backfill.
ResumeNewest(l, size) == IF cursor[l] = None \/ cursor[l] > size \/ cursor[l] < BackfillStart(size)
                         THEN BackfillStart(size) ELSE cursor[l]

\* Where a pass begins: the stored cursor, unless there is none or it is beyond the size.
Resume(l, size) == IF cursor[l] = None \/ cursor[l] > size THEN BackfillStart(size) ELSE cursor[l]

\* The stored cursor decides where the pass begins.  A cursor beyond the announced size
\* will be reset.
ReadCursor(t, l) ==
    /\ InTask(t, l, "cursor")
    /\ LET r == lg[t][l]
           start == Resume(l, r.size)
       IN LogPass(t, l, IF r.size = 0 /\ cursor[l] > 0 THEN PassEnded("failed")
                     ELSE [r EXCEPT !.start = start, !.next = start,
                              !.pc = IF cursor[l] > r.size THEN "reset"
                                     ELSE IF start >= r.size \/ PerLog = 0 THEN "mark" ELSE "entries"])
    /\ UNCHANGED <<one, head, store, marker, evid, cache, tk, starts>>

\* updated_at = now: the second of the last update, or a later one.
Touched(l) ==
    LET rest == SelectSeq([i \in DOMAIN logOrder |-> logOrder[i] \ {l}], LAMBDA g : g # {})
    IN {Append(rest, {l})} \cup
       (IF logOrder # <<>> /\ logOrder[Len(logOrder)] \ {l} # {}
        THEN {[rest EXCEPT ![Len(rest)] = @ \cup {l}]} ELSE {})

\* reset_ct_global_cursor, a transaction of its own.
ResetCursor(t, l) ==
    /\ InTask(t, l, "reset")
    /\ LET r == lg[t][l] IN
        \/ /\ cursor' = [cursor EXCEPT ![l] = r.start]
           /\ logOrder' \in Touched(l)
           /\ LogPass(t, l, [r EXCEPT !.pc = IF r.start >= r.size \/ PerLog = 0 THEN "mark" ELSE "entries"])
        \/ LogPass(t, l, PassEnded("failed")) /\ UNCHANGED <<cursor, logOrder>>
    /\ UNCHANGED <<one, head, index, lo, hi, marker, evid, cache, tk, starts>>

Lesser(a, b) == IF a < b THEN a ELSE b

\* next_batch_cursor: an empty page and one larger than the request are errors.
Next_batch_cursor(r, n) ==
    LET end == Lesser(r.start + PerLog - r.total, r.size) - 1
    IN IF n = 0 \/ n > end - r.start + 1 THEN {} ELSE {r.start + n}

\* get-entries and the decoding of its page.  The log returns some of the entries, or too
\* many, or no answer; an entry may not decode.
FetchEntries(t, l) ==
    /\ InTask(t, l, "entries")
    /\ LET r == lg[t][l] IN
        \/ /\ ~tk[t].late
           /\ \E n \in 0..(MaxTree - r.start) : \E next \in Next_batch_cursor(r, n) :
                LogPass(t, l, [r EXCEPT !.pc = "commit", !.next = next])
        \/ LogPass(t, l, PassBroken(r))
        \/ ~tk[t].late /\ LogPass(t, l, [r EXCEPT !.pc = "static"])
    /\ UNCHANGED <<one, head, store, marker, evid, cache, tk, starts>>

\* The names of the entries from..to-1.
Held(l, from, to) == {NameAt[l][i] : i \in from..(to - 1)}

\* Names that get a newer last_seen leave what a running materialization has still to
\* read, unless it is within one second.
Reseen(task, names) ==
    [u \in Tasks |-> IF TaskAt(u, "read") THEN [task[u] EXCEPT !.left = @ \ names] ELSE task[u]]

\* The transaction that adds names start..next-1 and moves the cursor.
Written(l, r, to) ==
    /\ index' = index \cup Held(l, r.start, r.next)
    /\ cursor' = [cursor EXCEPT ![l] = to]
    /\ logOrder' \in Touched(l)
    /\ lo' = IF r.start > hi[l] THEN [lo EXCEPT ![l] = r.start] ELSE lo
    /\ hi' = IF r.next > hi[l] THEN [hi EXCEPT ![l] = r.next] ELSE hi

Greater(a, b) == IF a > b THEN a ELSE b

\* run_ct_blocking_until over such a transaction: it is committed and the pass goes on
\* (with done); it is rolled back; or it is committed while the deadline passes, and
\* reported as an error.
Transact(t, l, to, done) ==
    LET r == lg[t][l] IN
    \/ /\ ~tk[t].late
       /\ Written(l, r, to)
       /\ \/ LogPass(t, l, done) /\ tk' \in {tk, Reseen(tk, index' \cap Held(l, r.start, r.next))}
          \/ LogPass(t, l, PassBroken(r)) /\ tk' = [tk EXCEPT ![t].late = TRUE]
    \/ LogPass(t, l, PassBroken(r)) /\ UNCHANGED <<store, tk>>

\* process_and_store_batch: what a committed page adds to the pass.
CommittedCtBatch(r) ==
    [r EXCEPT !.pc = "entries", !.start = r.next, !.total = @ + r.next - r.start, !.pages = @ + 1]

\* One page is stored, then the condition of the loop.
CommitLogPage(t, l) ==
    /\ InTask(t, l, "commit")
    /\ LET r == lg[t][l]
           b == CommittedCtBatch(r)
           more == b.start < r.size /\ b.total < PerLog /\ b.pages < RequestLimit
       IN Transact(t, l, Greater(cursor[l], r.next), IF more THEN b ELSE PassEnded("ok"))
    /\ UNCHANGED <<one, head, marker, evid, cache, starts>>

\* An empty log, or one with nothing new: the cursor is stored without names.
CommitMark(t, l) ==
    /\ InTask(t, l, "mark")
    /\ Transact(t, l, Greater(cursor[l], lg[t][l].start), PassEnded("ok"))
    /\ UNCHANGED <<one, head, marker, evid, cache, starts>>

\* Where a static batch may stop: the head, the budget, the last tile of a sync, or an
\* earlier tile when the payload gets too large.
Stops(start, size, budget) ==
    {start} \cup {n \in start..Lesser(size, start + budget) :
                    /\ n <= (start \div TileWidth + MaxTiles) * TileWidth
                    /\ n = Lesser(size, start + budget) \/ n % TileWidth = 0}

\* fetch_static_delta_with_cache_until: the checkpoint and the tiles.
FetchStatic(t, l) ==
    /\ InTask(t, l, "static")
    /\ LET r == lg[t][l] IN
        \/ /\ ~tk[t].late
           /\ \E s \in 0..MaxTree :
                LET reset == cursor[l] > s
                    start == Resume(l, s)
                IN /\ \E next \in Stops(start, s, PerLog - r.total) :
                        LogPass(t, l, [r EXCEPT !.pc = "tiles", !.size = s, !.start = start, !.next = next,
                                       !.reset = reset])
                   /\ head' = [head EXCEPT ![l] = Greater(@, s)]
        \/ LogPass(t, l, PassBroken(r)) /\ UNCHANGED head
    /\ UNCHANGED <<one, store, marker, evid, cache, tk, starts>>

\* store_ct_static_batch: tiles, names and cursor; a changed tile rolls back.
CommitStatic(t, l) ==
    /\ InTask(t, l, "tiles")
    /\ LET r == lg[t][l]
       IN Transact(t, l, IF r.reset THEN r.next ELSE Greater(cursor[l], r.next), PassEnded("ok"))
    /\ UNCHANGED <<one, head, marker, evid, cache, starts>>

-----------------------------------------------------------------------------
(* The end of the pass, and the evidence of the target.                    *)

Completed_selected_log_pass(t) == tk[t].sel # {} /\ \A l \in tk[t].sel : lg[t][l].pc = "ok"

\* All passes ended.  An incomplete pass gives the permit back at once.
Gather(t) ==
    /\ TaskAt(t, "index")
    /\ \A l \in tk[t].sel : lg[t][l].pc \in {"ok", "partial", "failed"}
    /\ IF Completed_selected_log_pass(t) THEN Goto(t, "marker") ELSE Goto(t, "select")
    /\ UNCHANGED <<one, head, store, marker, evid, cache, lg, starts>>

\* store_ct_refresh_marker; an error ends the task.
StoreMarker(t) ==
    /\ TaskAt(t, "marker")
    /\ \/ /\ ~tk[t].late /\ marker' = TRUE
          /\ \/ Become(t, [tk[t] EXCEPT !.pc = "select", !.complete = TRUE])
             \/ Goto(t, "end")
       \/ Goto(t, "end") /\ UNCHANGED marker
    /\ UNCHANGED <<one, head, store, evid, cache, lg, starts>>

\* materialize_target_names begins: the first page will be the newest names.
SelectNames(t) ==
    /\ TaskAt(t, "select")
    /\ Become(t, IF tk[t].late THEN [tk[t] EXCEPT !.pc = "end"]
                 ELSE [tk[t] EXCEPT !.pc = "read", !.left = index \cap TargetNames, !.got = {}])
    /\ UNCHANGED <<one, head, store, marker, evid, cache, lg, starts>>

\* One page of names; after the last one the evidence of earlier runs is added.
ReadPage(t) ==
    /\ TaskAt(t, "read")
    /\ \/ /\ ~tk[t].late /\ tk[t].left # {}
          /\ \E p \in SUBSET tk[t].left :
                /\ Cardinality(p) = Lesser(PageSize, Cardinality(tk[t].left))
                /\ Become(t, [tk[t] EXCEPT !.left = @ \ p, !.got = @ \cup p])
       \/ /\ ~tk[t].late /\ tk[t].left = {}
          /\ Become(t, [tk[t] EXCEPT !.pc = "write", !.left = tk[t].got \cup evid, !.got = @ \cup evid])
       \/ Goto(t, "end")
    /\ UNCHANGED <<one, head, store, marker, evid, cache, lg, starts>>

\* store_passive_observation_page_if_absent: one page of evidence.
WritePage(t) ==
    /\ TaskAt(t, "write") /\ tk[t].left # {}
    /\ \/ /\ ~tk[t].late
          /\ \E p \in SUBSET tk[t].left :
                /\ Cardinality(p) = Lesser(PageSize, Cardinality(tk[t].left))
                /\ evid' = evid \cup p
                /\ Become(t, [tk[t] EXCEPT !.left = @ \ p])
       \/ Goto(t, "end") /\ UNCHANGED evid
    /\ UNCHANGED <<one, head, store, marker, cache, lg, starts>>

AllWritten(t) == tk[t].left = {}

\* The freshness row, after every page.
PublishFresh(t) ==
    /\ TaskAt(t, "write") /\ AllWritten(t)
    /\ \/ /\ ~tk[t].late
          /\ cache' = IF tk[t].complete THEN "fresh" ELSE IF cache = "none" THEN "stale" ELSE cache
       \/ UNCHANGED cache
    /\ Goto(t, "end")
    /\ UNCHANGED <<one, head, store, marker, evid, lg, starts>>

\* The result is returned; the permit, if still held, is dropped.
ReturnTask(t) ==
    /\ TaskAt(t, "end")
    /\ Become(t, NoTask)
    /\ lg' = [lg EXCEPT ![t] = NoPasses]
    /\ UNCHANGED <<one, head, store, marker, evid, cache, starts>>

-----------------------------------------------------------------------------
(* The environment.                                                        *)

\* The deadline of the phase passes.
LateTask(t) ==
    /\ tk[t].pc \notin {"off", "end"} /\ ~tk[t].late
    /\ Become(t, [tk[t] EXCEPT !.late = TRUE])
    /\ UNCHANGED <<one, head, store, marker, evid, cache, lg, starts>>

\* The process of a task dies, with the other tasks of the process.
Crash(t) ==
    /\ ~TaskAt(t, "off")
    /\ tk' = [u \in Tasks |-> IF one \/ u = t THEN NoTask ELSE tk[u]]
    /\ lg' = [u \in Tasks |-> IF one \/ u = t THEN NoPasses ELSE lg[u]]
    /\ UNCHANGED <<one, head, store, marker, evid, cache, starts>>

\* CT_GLOBAL_REFRESH after the marker was written.
ExpireMarker ==
    /\ marker /\ marker' = FALSE
    /\ UNCHANGED <<one, head, store, evid, cache, tk, lg, starts>>

LogStep(t) ==
    \E l \in Logs :
        \/ ReadHead(t, l) \/ ReadCursor(t, l) \/ ResetCursor(t, l) \/ FetchEntries(t, l)
        \/ CommitLogPage(t, l) \/ CommitMark(t, l) \/ FetchStatic(t, l) \/ CommitStatic(t, l)

\* What the code of a task does by itself.
CtStep(t) ==
    \/ Acquire(t) \/ Recheck(t) \/ LoadList(t) \/ LogStep(t) \/ Gather(t) \/ StoreMarker(t)
    \/ SelectNames(t) \/ ReadPage(t) \/ WritePage(t) \/ PublishFresh(t) \/ ReturnTask(t)

CtNext ==
    \/ \E t \in Tasks : Start(t) \/ CtStep(t) \/ LateTask(t) \/ Crash(t)
    \/ ExpireMarker

CtSpec == CtInit /\ [][CtNext]_ctVars

-----------------------------------------------------------------------------
(* Properties.                                                             *)

Range0 == 0..MaxTree
PassType == [pc : {"idle", "sth", "cursor", "reset", "entries", "commit", "mark", "static", "tiles",
                   "ok", "partial", "failed"},
             size : Range0, start : Range0, next : Range0, total : Nat, pages : Nat,
             reset : BOOLEAN]
TaskType == [pc : {"off", "gate", "select", "read", "write", "end"} \cup Indexing,
             sel : SUBSET Logs, late : BOOLEAN, complete : BOOLEAN,
             left : SUBSET Names, got : SUBSET Names]

\* Every variable keeps its type; no position leaves the range of entries.
CtTypeOK ==
    /\ one \in BOOLEAN /\ marker \in BOOLEAN
    /\ head \in [Logs -> Range0]
    /\ cursor \in [Logs -> Range0 \cup {None}]
    /\ lo \in [Logs -> Range0] /\ hi \in [Logs -> Range0 \cup {None}]
    /\ index \subseteq Names /\ evid \subseteq Names
    /\ cache \in {"none", "stale", "fresh"}
    /\ tk \in [Tasks -> TaskType]
    /\ lg \in [Tasks -> [Logs -> PassType]]
    /\ starts \in Nat

\* No certificate is skipped: of the range a log has been read over, through pages, static
\* tiles, rewinds, cancelled commits and overlapping passes, every entry has its name in
\* ct_names, and the stored cursor is never beyond that range.
NoGap ==
    \A l \in Logs :
        /\ \A i \in lo[l]..(hi[l] - 1) : NameAt[l][i] \in index
        /\ cursor[l] <= hi[l]

\* The cursor never passes what a log announced, whatever number of entries it returns
\* (next_batch_cursor, the bounds of a tile).
CursorWithin == \A l \in Logs : cursor[l] <= head[l]

\* Tasks of one process read the logs one at a time, and never while a complete pass is
\* fresh: a task that waited for the permit finds the marker.
OnePass ==
    one =>
        /\ marker => \A t \in Tasks : tk[t].pc \notin {"list", "index", "marker"}
        /\ \A t, u \in Tasks : tk[t].pc \in Indexing /\ tk[u].pc \in Indexing => t = u

\* In one process the covered range of a log only grows at its end: a pass never jumps over
\* entries, even after a reset cursor, a crash or a fallback to the static API.
NoJump == [][one => \A l \in Logs : hi[l] # None => lo'[l] = lo[l]]_ctVars

\* The marker that spares later scans the logs is stored only when every selected log has a
\* durable cursor: the passes of all of them were committed.
MarkerBacked ==
    [][\A t \in Tasks : TaskAt(t, "marker") /\ marker' # marker /\ marker' =>
            \A l \in tk[t].sel : cursor[l] # None]_ctVars

\* The cache row becomes fresh only when all names the task selected are evidence.
FreshWhole ==
    [][cache' = "fresh" /\ cache # "fresh" =>
        \E t \in Tasks : TaskAt(t, "write") /\ tk[t].complete /\ tk[t].got \subseteq evid]_ctVars

\* What the index says of itself is true: no gap, one pass at a time, and neither the marker
\* nor the freshness row before what it stands for.
CtHonest ==
    [](NoGap /\ CursorWithin /\ OnePass) /\ NoJump /\ MarkerBacked /\ FreshWhole

\* Pages, tiles, resets and cancelled commits, of tasks in one process or several, do no
\* more to cursors and names than LogIndex allows.
L == INSTANCE LogIndex
Implements == L!ASpec
=============================================================================

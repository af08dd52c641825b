---------------------------- MODULE CtIndexProofs ----------------------------
(***************************************************************************)
(* What the index of the certificate transparency logs promises, for every *)
(* set of tasks and logs, every page, tile and budget: no entry is skipped *)
(* and the durable cursor and names are those of LogIndex.                 *)
(***************************************************************************)
EXTENDS CtIndex, TLAPS

-----------------------------------------------------------------------------
(* The inductive invariant.                                                *)

\* Every covered entry has its name, and a log has a cursor once it is covered.
Durable ==
    /\ NoGap /\ CursorWithin
    /\ \A l \in Logs : cursor[l] = None <=> hi[l] = None

\* The positions of a pass are in order.  A pass that resets a cursor begins within the
\* covered range, and one that was committed left a cursor.
InOrder(l, r) ==
    /\ r.start <= r.next /\ r.next <= r.size /\ r.size <= head[l]
    /\ r.pc = "sth" => r.next = 0
    /\ r.pc \in {"reset", "mark"} => r.start = r.next
    /\ r.pc = "reset" => r.start <= hi[l]
    /\ r.pc = "ok" => cursor[l] # None

\* What such a pass commits continues the covered range.
Continues(l, r) ==
    r.pc \in {"reset", "entries", "commit", "mark", "tiles"} => r.start <= hi[l] \/ hi[l] = None

PassesInOrder == \A t \in Tasks, l \in Logs : InOrder(l, lg[t][l])
PassesContinue == one => \A t \in Tasks, l \in Logs : TaskAt(t, "index") => Continues(l, lg[t][l])

\* A task about to store the marker has committed its passes; what it has selected and is
\* not evidence is still to be written.
TasksOwe ==
    \A t \in Tasks :
        /\ TaskAt(t, "marker") => \A l \in tk[t].sel : lg[t][l].pc = "ok"
        /\ TaskAt(t, "write") => tk[t].got \subseteq evid \cup tk[t].left

CtInv ==
    /\ CtTypeOK /\ Durable /\ PassesInOrder /\ PassesContinue /\ OnePass /\ TasksOwe

-----------------------------------------------------------------------------
(* Records of passes and tasks.                                            *)

PassPcs == {"idle", "sth", "cursor", "reset", "entries", "commit", "mark", "static", "tiles",
            "ok", "partial", "failed"}
TaskPcs == {"off", "gate", "select", "read", "write", "end"} \cup Indexing

(* The fields of a pass have their types.                                  *)
LEMMA PassFields ==
    ASSUME NEW r \in PassType
    PROVE  /\ r.pc \in PassPcs /\ r.size \in Range0 /\ r.start \in Range0 /\ r.next \in Range0
           /\ r.total \in Nat /\ r.pages \in Nat /\ r.reset \in BOOLEAN
    BY DEF PassType, PassPcs

(* A pass that only moves on, to a pc, and one with other positions.       *)
LEMMA PassEdited ==
    ASSUME NEW r \in PassType, NEW pc \in PassPcs, NEW z \in Range0, NEW a \in Range0, NEW b \in Range0
    PROVE  /\ [r EXCEPT !.pc = pc] \in PassType
           /\ [r EXCEPT !.pc = pc, !.size = z] \in PassType
           /\ [r EXCEPT !.pc = pc, !.next = b] \in PassType
           /\ [r EXCEPT !.start = a, !.next = b, !.pc = pc] \in PassType
    BY DEF PassType, PassPcs

(* A pass before it began is typed, whatever its pc.                       *)
LEMMA NoPassTyped ==
    /\ NoPass \in PassType
    /\ \A pc \in PassPcs : PassEnded(pc) \in PassType /\ [NoPass EXCEPT !.pc = pc] \in PassType
    /\ 0 \in Range0
<1>1. 0 \in Range0
    BY CtAssumption DEF Range0
<1>2. NoPass \in PassType
    BY <1>1 DEF NoPass, PassType
<1> QED BY <1>1, <1>2, PassEdited DEF PassEnded

(* A position is a number, or None.                                        *)
LEMMA RangeLeq ==
    /\ \A z \in Range0 : z \in Int /\ 0 <= z /\ z <= MaxTree /\ z <= z
    /\ \A z \in Range0 \cup {None} : z \in Int /\ z <= z
<1>1. MaxTree \in Nat
    BY CtAssumption
<1> QED BY <1>1 DEF Range0, None

(* One log's pass of one task moves; the others stay.                      *)
LEMMA PassMoves ==
    ASSUME CtTypeOK, NEW t \in Tasks, NEW l \in Logs, NEW r \in PassType, LogPass(t, l, r)
    PROVE  /\ lg' \in [Tasks -> [Logs -> PassType]]
           /\ lg'[t][l] = r
           /\ \A u \in Tasks, k \in Logs : u # t \/ k # l => lg'[u][k] = lg[u][k]
<1>1. lg \in [Tasks -> [Logs -> PassType]]
    BY DEF CtTypeOK
<1>2. lg' = [lg EXCEPT ![t] = [lg[t] EXCEPT ![l] = r]]
    BY Zenon DEF LogPass
<1> QED BY <1>1, <1>2

(* A task takes a new record; the others keep theirs.                      *)
LEMMA TaskMoves ==
    ASSUME CtTypeOK, NEW t \in Tasks, NEW r \in TaskType, Become(t, r)
    PROVE  /\ tk' \in [Tasks -> TaskType]
           /\ tk'[t] = r
           /\ \A u \in Tasks : u # t => tk'[u] = tk[u]
    BY DEF CtTypeOK, Become

(* The fields of a task have their types.                                  *)
LEMMA TaskFields ==
    ASSUME NEW r \in TaskType
    PROVE  /\ r.pc \in TaskPcs /\ r.sel \in SUBSET Logs /\ r.late \in BOOLEAN
           /\ r.complete \in BOOLEAN /\ r.left \in SUBSET Names /\ r.got \in SUBSET Names
    BY DEF TaskType, TaskPcs

(* What a step may edit of a task keeps its type and its other fields.     *)
LEMMA TaskEdited ==
    ASSUME NEW r \in TaskType, NEW pc \in TaskPcs, NEW s \in SUBSET Logs,
           NEW left \in SUBSET Names, NEW got \in SUBSET Names
    PROVE  /\ [r EXCEPT !.pc = pc] \in TaskType
           /\ [r EXCEPT !.pc = pc, !.sel = s] \in TaskType
           /\ [r EXCEPT !.pc = pc, !.complete = TRUE] \in TaskType
           /\ [r EXCEPT !.pc = pc, !.left = left, !.got = got] \in TaskType
           /\ [r EXCEPT !.left = left, !.got = got] \in TaskType
           /\ [r EXCEPT !.left = left] \in TaskType
           /\ [r EXCEPT !.late = TRUE] \in TaskType
    BY DEF TaskType, TaskPcs

(* A task that has not started is typed, in any state it starts in.        *)
LEMMA NoTaskTyped ==
    /\ NoTask \in TaskType
    /\ \A pc \in TaskPcs : [NoTask EXCEPT !.pc = pc] \in TaskType
    /\ \A pc \in TaskPcs : [NoTask EXCEPT !.pc = pc, !.complete = TRUE] \in TaskType
<1>1. NoTask \in TaskType
    BY DEF NoTask, TaskType
<1> QED BY <1>1, TaskEdited

-----------------------------------------------------------------------------
(* Steps on one log.                                                       *)

\* What a step on log l may do to the database: ranges and heads grow, no cursor goes away.
StoreGrows(l) ==
    /\ Durable'
    /\ head' \in [Logs -> Range0] /\ cursor' \in [Logs -> Range0 \cup {None}]
    /\ lo' \in [Logs -> Range0] /\ hi' \in [Logs -> Range0 \cup {None}] /\ index' \subseteq Names
    /\ \A k \in Logs : hi[k] <= hi'[k] /\ head[k] <= head'[k]
    /\ \A k \in Logs : k # l => hi'[k] = hi[k]
    /\ \A k \in Logs : cursor[k] # None => cursor'[k] # None

\* What it may do to the tasks: they stay where they are; only names still to be read go.
TasksStay ==
    /\ tk' \in [Tasks -> TaskType]
    /\ \A u \in Tasks :
          /\ tk'[u].pc = tk[u].pc /\ tk'[u].sel = tk[u].sel
          /\ TaskAt(u, "write") => tk'[u].left = tk[u].left /\ tk'[u].got = tk[u].got

(* A step that changes nothing of the database but the head of a log.      *)
LEMMA HeadGrows ==
    ASSUME CtTypeOK, Durable, NEW l \in Logs, NEW z \in Range0,
           head' = head \/ head' = [head EXCEPT ![l] = IF z > @ THEN z ELSE @],
           UNCHANGED <<cursor, index, lo, hi>>
    PROVE  StoreGrows(l)
<1>1. /\ head \in [Logs -> Range0] /\ cursor \in [Logs -> Range0 \cup {None}]
      /\ hi \in [Logs -> Range0 \cup {None}]
    BY DEF CtTypeOK
<1>2. head' \in [Logs -> Range0] /\ \A k \in Logs : head[k] <= head'[k]
  <2>1. CASE head' = head
      BY <1>1, <2>1, RangeLeq
  <2>2. CASE head' = [head EXCEPT ![l] = IF z > @ THEN z ELSE @]
    <3>1. \A k \in Logs : head[k] \in Int /\ head[k] <= head[k]
        BY <1>1, RangeLeq
    <3>2. z \in Int
        BY RangeLeq
    <3> QED BY <1>1, <2>2, <3>1, <3>2
  <2> QED BY <2>1, <2>2
<1>3. CursorWithin'
  <2>1. SUFFICES ASSUME NEW k \in Logs PROVE cursor[k] <= head'[k]
      BY DEF CursorWithin
  <2>2. cursor[k] <= head[k] /\ head[k] <= head'[k]
      BY <1>2 DEF Durable, CursorWithin
  <2>3. cursor[k] \in Int /\ head[k] \in Int /\ head'[k] \in Int
      BY <1>1, <1>2, RangeLeq
  <2> QED BY <2>2, <2>3
<1>4. NoGap' /\ \A k \in Logs : cursor'[k] = None <=> hi'[k] = None
    BY DEF Durable, NoGap
<1>5. \A k \in Logs : hi[k] <= hi'[k]
    BY <1>1, RangeLeq
<1> QED BY <1>2, <1>3, <1>4, <1>5 DEF StoreGrows, Durable, CtTypeOK

(* No change at all is such a step.                                        *)
LEMMA StoreStays ==
    ASSUME CtTypeOK, Durable, NEW l \in Logs, UNCHANGED <<head, cursor, index, lo, hi>>
    PROVE  StoreGrows(l)
    BY HeadGrows, NoPassTyped

(* Nor do tasks that do not change.                                        *)
LEMMA TasksStand ==
    ASSUME CtTypeOK, UNCHANGED tk
    PROVE  TasksStay
    BY DEF CtTypeOK, TasksStay

(* A step of one task on one log keeps the invariant when its pass is in   *)
(* order and continues what is covered: other tasks of the process are not *)
(* reading.                                                                *)
LEMMA LogStepKeeps ==
    ASSUME CtInv, NEW t \in Tasks, NEW l \in Logs, TaskAt(t, "index"),
           NEW r \in PassType, LogPass(t, l, r),
           InOrder(l, lg[t][l])', one => Continues(l, lg[t][l])',
           StoreGrows(l), TasksStay, UNCHANGED <<one, marker, evid, cache, starts>>
    PROVE  CtInv'
<1>1. /\ lg' \in [Tasks -> [Logs -> PassType]] /\ lg'[t][l] = r
      /\ \A u \in Tasks, k \in Logs : u # t \/ k # l => lg'[u][k] = lg[u][k]
    BY PassMoves DEF CtInv
<1>2. CtTypeOK'
    BY <1>1 DEF CtInv, CtTypeOK, StoreGrows, TasksStay
<1>3. PassesInOrder'
  <2>1. SUFFICES ASSUME NEW u \in Tasks, NEW k \in Logs, u # t \/ k # l
                 PROVE  InOrder(k, lg[u][k])'
    BY <1>1 DEF PassesInOrder
  <2> DEFINE q == lg[u][k]
  <2>2. lg'[u][k] = q /\ q \in PassType /\ InOrder(k, q)
    BY <1>1, <2>1 DEF CtInv, PassesInOrder, CtTypeOK
  <2>3. q.start \in Range0 /\ q.next \in Range0 /\ q.size \in Range0
    BY <2>2, PassFields
  <2>4. /\ head[k] \in Range0 /\ head'[k] \in Range0 /\ head[k] <= head'[k] /\ hi[k] <= hi'[k]
        /\ hi[k] \in Range0 \cup {None} /\ hi'[k] \in Range0 \cup {None}
        /\ (cursor[k] # None => cursor'[k] # None)
    BY DEF StoreGrows, CtInv, CtTypeOK
  <2> QED BY <2>2, <2>3, <2>4, CtAssumption DEF InOrder, Range0, None
<1>4. PassesContinue'
  <2>1. SUFFICES ASSUME one, NEW u \in Tasks, NEW k \in Logs, u # t \/ k # l, TaskAt(u, "index")
                 PROVE  Continues(k, lg[u][k])'
    BY <1>1 DEF PassesContinue, TasksStay, TaskAt
  <2>2. u = t
    BY <2>1 DEF CtInv, OnePass, TaskAt, Indexing
  <2>3. k # l /\ lg'[u][k] = lg[u][k] /\ hi'[k] = hi[k]
    BY <1>1, <2>1, <2>2 DEF StoreGrows
  <2>4. Continues(k, lg[u][k])
    BY <2>1 DEF CtInv, PassesContinue
  <2> QED BY <2>3, <2>4 DEF Continues
<1>5. OnePass'
    BY DEF CtInv, OnePass, TasksStay
<1>6. TasksOwe'
  <2>1. \A u \in Tasks : TaskAt(u, "marker") => u # t
    BY DEF TaskAt
  <2>2. \A u \in Tasks : TaskAt(u, "marker") => \A k \in Logs : lg'[u][k] = lg[u][k]
    BY <1>1, <2>1
  <2>3. tk \in [Tasks -> TaskType]
    BY DEF CtInv, CtTypeOK
  <2>4. \A u \in Tasks : tk[u].sel \subseteq Logs
    BY <2>3, TaskFields
  <2> QED BY <2>2, <2>4 DEF CtInv, TasksOwe, TasksStay, TaskAt
<1> QED BY <1>2, <1>3, <1>4, <1>5, <1>6 DEF CtInv, StoreGrows

(* A pass begins within the announced size and the covered range.          *)
LEMMA ResumeWithin ==
    ASSUME CtTypeOK, Durable, NEW l \in Logs, NEW z \in Range0
    PROVE  /\ Resume(l, z) \in Range0 /\ Resume(l, z) <= z
           /\ Resume(l, z) <= hi[l] \/ hi[l] = None
           /\ cursor[l] > z => Resume(l, z) <= hi[l]
<1>1. BackfillStart(z) \in Range0 /\ BackfillStart(z) <= z
  <2>1. Backfill \in Nat /\ MaxTree \in Nat
      BY CtAssumption
  <2> QED BY <2>1 DEF BackfillStart, Range0
<1>2. cursor[l] \in Range0 \cup {None} /\ hi[l] \in Range0 \cup {None} /\ cursor[l] <= hi[l]
    BY DEF CtTypeOK, Durable, NoGap
<1>3. cursor[l] = None <=> hi[l] = None
    BY DEF Durable
<1>4. MaxTree \in Nat
    BY CtAssumption
<1> QED BY <1>1, <1>2, <1>3, <1>4 DEF Resume, Range0, None

(* A pass that ended is in order, unless it claims a cursor.               *)
LEMMA EndedInOrder ==
    ASSUME NEW l \in Logs, NEW pc \in {"idle", "ok", "partial", "failed"},
           head[l] \in Range0, pc = "ok" => cursor[l] # None
    PROVE  InOrder(l, PassEnded(pc)) /\ Continues(l, PassEnded(pc))
<1>1. 0 <= head[l]
    BY RangeLeq
<1> QED BY <1>1 DEF InOrder, Continues, PassEnded, NoPass

(* The pass of a task over a log, as the invariant knows it.               *)
LEMMA PassKnown ==
    ASSUME CtInv, NEW t \in Tasks, NEW l \in Logs
    PROVE  /\ lg[t][l] \in PassType /\ InOrder(l, lg[t][l])
           /\ lg[t][l].start \in Range0 /\ lg[t][l].next \in Range0 /\ lg[t][l].size \in Range0
           /\ lg[t][l].total \in Nat /\ lg[t][l].pages \in Nat
           /\ head[l] \in Range0 /\ cursor[l] \in Range0 \cup {None} /\ hi[l] \in Range0 \cup {None}
           /\ (one /\ TaskAt(t, "index") => Continues(l, lg[t][l]))
<1>1. lg[t][l] \in PassType
    BY DEF CtInv, CtTypeOK
<1> QED BY <1>1, PassFields DEF CtInv, CtTypeOK, PassesInOrder, PassesContinue

(* A pass that only takes another pc, or ends, keeps the invariant.        *)
LEMMA PassRests ==
    ASSUME CtInv, NEW t \in Tasks, NEW l \in Logs, TaskAt(t, "index"),
           NEW r \in {[lg[t][l] EXCEPT !.pc = "static"], PassEnded("partial"), PassEnded("failed")},
           LogPass(t, l, r), UNCHANGED <<one, head, cursor, index, lo, hi, marker, evid, cache, starts>>,
           TasksStay
    PROVE  CtInv'
<1>1. StoreGrows(l)
    BY StoreStays DEF CtInv
<1>2. r \in PassType /\ InOrder(l, r) /\ Continues(l, r)
  <2>1. CASE r = [lg[t][l] EXCEPT !.pc = "static"]
    <3> DEFINE q == lg[t][l]
    <3>1. q \in PassType /\ InOrder(l, q)
        BY PassKnown
    <3>2. r \in PassType
        BY <2>1, <3>1, PassEdited, NoPassTyped DEF PassPcs
    <3>3. r.pc = "static" /\ r.start = q.start /\ r.next = q.next /\ r.size = q.size
        BY <2>1, <3>1 DEF PassType
    <3> QED BY <3>1, <3>2, <3>3 DEF InOrder, Continues
  <2>2. CASE r \in {PassEnded("partial"), PassEnded("failed")}
      BY <2>2, PassKnown, EndedInOrder, NoPassTyped DEF PassPcs
  <2> QED BY <2>1, <2>2
<1>3. lg'[t][l] = r
    BY <1>2, PassMoves DEF CtInv
<1>4. InOrder(l, lg[t][l])' /\ Continues(l, lg[t][l])'
    BY <1>2, <1>3 DEF InOrder, Continues
<1> QED BY <1>1, <1>2, <1>4, LogStepKeeps

(* get-sth raises the announced size, falls back or fails.                 *)
LEMMA ReadHeadKeeps ==
    ASSUME CtInv, NEW t \in Tasks, NEW l \in Logs, ReadHead(t, l)
    PROVE  CtInv'
<1> DEFINE q == lg[t][l]
<1>1. q \in PassType /\ InOrder(l, q) /\ TaskAt(t, "index") /\ q.pc = "sth"
    BY PassKnown DEF ReadHead, InTask
<1>2. TasksStay
    BY TasksStand DEF CtInv, ReadHead
<1>3. ASSUME NEW z \in Range0, LogPass(t, l, [q EXCEPT !.pc = "cursor", !.size = z]),
             head' = [head EXCEPT ![l] = IF z > @ THEN z ELSE @]
      PROVE  CtInv'
  <2> DEFINE r == [q EXCEPT !.pc = "cursor", !.size = z]
  <2>1. r \in PassType
      BY <1>1, <1>3, PassEdited, NoPassTyped DEF PassPcs
  <2>2. r.pc = "cursor" /\ r.start = q.start /\ r.next = q.next /\ r.size = z
      BY <1>1 DEF PassType
  <2>3. StoreGrows(l)
      BY <1>3, HeadGrows DEF CtInv, ReadHead, store
  <2>4. z <= head'[l]
    <3>1. head[l] \in Int /\ z \in Int /\ head \in [Logs -> Range0]
        BY <1>3, PassKnown, RangeLeq DEF CtInv, CtTypeOK
    <3> QED BY <1>3, <3>1
  <2>5. q.start \in Range0 /\ q.next = 0 /\ q.start <= 0 /\ 0 <= z
      BY <1>1, <1>3, PassKnown, RangeLeq DEF InOrder
  <2>6. lg'[t][l] = r
      BY <1>3, <2>1, PassMoves DEF CtInv
  <2>7. InOrder(l, lg[t][l])' /\ Continues(l, lg[t][l])'
      BY <2>2, <2>4, <2>5, <2>6 DEF InOrder, Continues
  <2> QED BY <1>1, <1>2, <1>3, <2>1, <2>3, <2>7, LogStepKeeps DEF ReadHead
<1>4. ASSUME LogPass(t, l, IF tk[t].late THEN PassEnded("failed") ELSE [q EXCEPT !.pc = "static"]),
             UNCHANGED head
      PROVE  CtInv'
    BY <1>1, <1>2, <1>4, PassRests DEF ReadHead, store
<1> QED BY <1>3, <1>4 DEF ReadHead, Range0

(* The stored cursor decides where the pass begins.                        *)
LEMMA ReadCursorKeeps ==
    ASSUME CtInv, NEW t \in Tasks, NEW l \in Logs, ReadCursor(t, l)
    PROVE  CtInv'
<1> DEFINE q == lg[t][l]
           start == Resume(l, q.size)
           pc == IF cursor[l] > q.size THEN "reset"
                 ELSE IF start >= q.size \/ PerLog = 0 THEN "mark" ELSE "entries"
           r == [q EXCEPT !.start = start, !.next = start, !.pc = pc]
<1>1. q \in PassType /\ InOrder(l, q) /\ TaskAt(t, "index") /\ q.size \in Range0 /\ head[l] \in Range0
    BY PassKnown DEF ReadCursor, InTask
<1>2. TasksStay /\ UNCHANGED <<one, head, cursor, index, lo, hi, marker, evid, cache, starts>>
    BY TasksStand DEF CtInv, ReadCursor, store
<1>3. ASSUME LogPass(t, l, PassEnded("failed")) PROVE CtInv'
    BY <1>1, <1>2, <1>3, PassRests
<1>4. ASSUME LogPass(t, l, r) PROVE CtInv'
  <2>1. /\ start \in Range0 /\ start <= q.size /\ q.size <= head[l]
        /\ start <= hi[l] \/ hi[l] = None
        /\ cursor[l] > q.size => start <= hi[l]
      BY <1>1, ResumeWithin DEF CtInv, InOrder
  <2>2. pc \in PassPcs /\ pc \in {"reset", "mark", "entries"} /\ (pc = "reset" => start <= hi[l])
      BY <2>1 DEF PassPcs
  <2>3. r \in PassType
      BY <1>1, <2>1, <2>2, PassEdited
  <2>4. r.pc = pc /\ r.start = start /\ r.next = start /\ r.size = q.size
      BY <1>1 DEF PassType
  <2>5. start <= start
      BY <2>1, RangeLeq
  <2>6. lg'[t][l] = r
      BY <1>4, <2>3, PassMoves DEF CtInv
  <2>7. InOrder(l, lg[t][l])' /\ Continues(l, lg[t][l])'
      BY <1>2, <2>1, <2>2, <2>4, <2>5, <2>6 DEF InOrder, Continues
  <2>8. StoreGrows(l)
      BY <1>2, StoreStays DEF CtInv
  <2> QED BY <1>1, <1>2, <1>4, <2>3, <2>7, <2>8, LogStepKeeps
<1>5. LogPass(t, l, PassEnded("failed")) \/ LogPass(t, l, r)
    BY Zenon DEF ReadCursor
<1> QED BY <1>3, <1>4, <1>5

(* A cursor beyond the announced size goes back, within the covered range. *)
LEMMA ResetCursorKeeps ==
    ASSUME CtInv, NEW t \in Tasks, NEW l \in Logs, ResetCursor(t, l)
    PROVE  CtInv'
<1> DEFINE q == lg[t][l]
           pc == IF q.start >= q.size \/ PerLog = 0 THEN "mark" ELSE "entries"
           r == [q EXCEPT !.pc = pc]
<1>1. /\ q \in PassType /\ InOrder(l, q) /\ TaskAt(t, "index") /\ q.pc = "reset"
      /\ q.start \in Range0 /\ q.next \in Range0 /\ q.size \in Range0 /\ head[l] \in Range0
      /\ hi[l] \in Range0 \cup {None}
    BY PassKnown DEF ResetCursor, InTask
<1>2. TasksStay /\ UNCHANGED <<one, head, index, lo, hi, marker, evid, cache, starts>>
    BY TasksStand DEF CtInv, ResetCursor
<1>3. ASSUME LogPass(t, l, PassEnded("failed")), UNCHANGED cursor PROVE CtInv'
    BY <1>1, <1>2, <1>3, PassRests
<1>4. ASSUME cursor' = [cursor EXCEPT ![l] = q.start], LogPass(t, l, r) PROVE CtInv'
  <2>1. pc \in PassPcs /\ pc \in {"mark", "entries"}
      BY DEF PassPcs
  <2>2. r \in PassType /\ r.pc = pc /\ r.start = q.start /\ r.next = q.next /\ r.size = q.size
      BY <1>1, <2>1, PassEdited, NoPassTyped DEF PassType
  <2>3. q.start <= q.next /\ q.next <= q.size /\ q.size <= head[l] /\ q.start = q.next /\ q.start <= hi[l]
      BY <1>1 DEF InOrder
  <2>4. q.start # None /\ hi[l] # None /\ q.start <= head[l]
      BY <1>1, <2>3, CtAssumption DEF Range0, None
  <2>5. StoreGrows(l)
    <3>1. cursor \in [Logs -> Range0 \cup {None}] /\ hi \in [Logs -> Range0 \cup {None}]
          /\ head \in [Logs -> Range0]
        BY DEF CtInv, CtTypeOK
    <3>2. cursor' \in [Logs -> Range0 \cup {None}] /\ cursor'[l] = q.start
          /\ \A k \in Logs : k # l => cursor'[k] = cursor[k]
        BY <1>1, <1>4, <3>1
    <3>3. Durable'
        BY <1>2, <2>3, <2>4, <3>2 DEF CtInv, Durable, NoGap, CursorWithin
    <3>4. \A k \in Logs : cursor[k] # None => cursor'[k] # None
        BY <2>4, <3>2
    <3>5. \A k \in Logs : hi[k] <= hi[k] /\ head[k] <= head[k]
        BY <3>1, RangeLeq
    <3> QED BY <1>2, <3>2, <3>3, <3>4, <3>5 DEF StoreGrows, CtInv, CtTypeOK
  <2>6. lg'[t][l] = r
      BY <1>4, <2>2, PassMoves DEF CtInv
  <2>7. InOrder(l, lg[t][l])' /\ Continues(l, lg[t][l])'
      BY <1>2, <2>1, <2>2, <2>3, <2>6 DEF InOrder, Continues
  <2> QED BY <1>1, <1>2, <1>4, <2>2, <2>5, <2>7, LogStepKeeps
<1>5. \/ cursor' = [cursor EXCEPT ![l] = q.start] /\ LogPass(t, l, r)
      \/ LogPass(t, l, PassEnded("failed")) /\ UNCHANGED cursor
    BY Zenon DEF ResetCursor
<1> QED BY <1>3, <1>4, <1>5

(* A page ends at most at the budget and at the announced size.            *)
LEMMA FetchEntriesKeeps ==
    ASSUME CtInv, NEW t \in Tasks, NEW l \in Logs, FetchEntries(t, l)
    PROVE  CtInv'
<1> DEFINE q == lg[t][l]
<1>1. /\ q \in PassType /\ InOrder(l, q) /\ TaskAt(t, "index") /\ q.pc = "entries"
      /\ q.start \in Range0 /\ q.next \in Range0 /\ q.size \in Range0 /\ head[l] \in Range0
      /\ q.total \in Nat /\ (one => Continues(l, q))
    BY PassKnown DEF FetchEntries, InTask
<1>2. TasksStay /\ UNCHANGED <<one, head, cursor, index, lo, hi, marker, evid, cache, starts>>
    BY TasksStand DEF CtInv, FetchEntries, store
<1>3. ASSUME NEW n \in 0..(MaxTree - q.start), NEW next \in Next_batch_cursor(q, n),
             LogPass(t, l, [q EXCEPT !.pc = "commit", !.next = next])
      PROVE  CtInv'
  <2> DEFINE r == [q EXCEPT !.pc = "commit", !.next = next]
  <2>1. next = q.start + n /\ next <= q.size /\ q.start <= next /\ next \in Range0
    <3>1. MaxTree \in Nat /\ PerLog \in Nat
        BY CtAssumption
    <3> QED BY <1>1, <1>3, <3>1 DEF Next_batch_cursor, Lesser, Range0
  <2>2. r \in PassType
      BY <1>1, <2>1, PassEdited, NoPassTyped DEF PassPcs
  <2>3. r.pc = "commit" /\ r.start = q.start /\ r.next = next /\ r.size = q.size
      BY <1>1 DEF PassType
  <2>4. lg'[t][l] = r
      BY <1>3, <2>2, PassMoves DEF CtInv
  <2>5. InOrder(l, lg[t][l])' /\ (one => Continues(l, lg[t][l])')
      BY <1>1, <1>2, <2>1, <2>3, <2>4 DEF InOrder, Continues
  <2>6. StoreGrows(l)
      BY <1>2, StoreStays DEF CtInv
  <2> QED BY <1>1, <1>2, <1>3, <2>2, <2>5, <2>6, LogStepKeeps
<1>4. ASSUME LogPass(t, l, PassBroken(q)) PROVE CtInv'
    BY <1>1, <1>2, <1>4, PassRests DEF PassBroken
<1>5. ASSUME LogPass(t, l, [q EXCEPT !.pc = "static"]) PROVE CtInv'
    BY <1>1, <1>2, <1>5, PassRests
<1> QED BY <1>3, <1>4, <1>5 DEF FetchEntries

(* A static batch ends within the tree of its checkpoint.                  *)
LEMMA FetchStaticKeeps ==
    ASSUME CtInv, NEW t \in Tasks, NEW l \in Logs, FetchStatic(t, l)
    PROVE  CtInv'
<1> DEFINE q == lg[t][l]
<1>1. /\ q \in PassType /\ TaskAt(t, "index") /\ head[l] \in Range0
      /\ q.total \in Nat /\ head \in [Logs -> Range0]
    BY PassKnown DEF FetchStatic, InTask, CtInv, CtTypeOK
<1>2. TasksStay /\ UNCHANGED <<one, cursor, index, lo, hi, marker, evid, cache, starts>>
    BY TasksStand DEF CtInv, FetchStatic, store
<1>3. ASSUME NEW s \in 0..MaxTree,
             NEW next \in Stops(Resume(l, s), s, PerLog - q.total),
             LogPass(t, l, [q EXCEPT !.pc = "tiles", !.size = s, !.start = Resume(l, s), !.next = next,
                                     !.reset = cursor[l] > s]),
             head' = [head EXCEPT ![l] = Greater(@, s)]
      PROVE  CtInv'
  <2> DEFINE start == Resume(l, s)
             r == [q EXCEPT !.pc = "tiles", !.size = s, !.start = start, !.next = next,
                            !.reset = cursor[l] > s]
  <2>1. s \in Range0
      BY DEF Range0
  <2>2. start \in Range0 /\ start <= s /\ (start <= hi[l] \/ hi[l] = None)
      BY <2>1, ResumeWithin DEF CtInv
  <2>3. start <= next /\ next <= s /\ next \in Range0
    <3>1. MaxTree \in Nat /\ PerLog \in Nat
        BY CtAssumption
    <3> QED BY <1>1, <1>3, <2>1, <2>2, <3>1 DEF Stops, Lesser, Range0
  <2>4. (cursor[l] > s) \in BOOLEAN
      BY PassKnown, <2>1, RangeLeq
  <2>5. r \in PassType
      BY <1>1, <2>1, <2>2, <2>3, <2>4 DEF PassType
  <2>6. r.pc = "tiles" /\ r.start = start /\ r.next = next /\ r.size = s
      BY <1>1 DEF PassType
  <2>7. lg'[t][l] = r
      BY <1>3, <2>5, PassMoves DEF CtInv
  <2>8. s <= head'[l]
      BY <1>1, <1>3, <2>1, RangeLeq DEF Greater
  <2>9. head' = [head EXCEPT ![l] = IF s > @ THEN s ELSE @]
    <3>1. Greater(head[l], s) = IF s > head[l] THEN s ELSE head[l]
      <4>1. head[l] \in Int /\ s \in Int
          BY <1>1, <2>1, RangeLeq
      <4> QED BY <4>1 DEF Greater
    <3> QED BY <1>3, <3>1, Zenon
  <2>10. StoreGrows(l)
      BY <1>2, <2>1, <2>9, HeadGrows DEF CtInv
  <2>11. InOrder(l, lg[t][l])' /\ Continues(l, lg[t][l])'
      BY <1>2, <2>2, <2>3, <2>6, <2>7, <2>8 DEF InOrder, Continues
  <2> QED BY <1>1, <1>2, <1>3, <2>5, <2>10, <2>11, LogStepKeeps
<1>4. ASSUME LogPass(t, l, PassBroken(q)), UNCHANGED head PROVE CtInv'
    BY <1>1, <1>2, <1>4, PassRests DEF PassBroken
<1> QED BY <1>3, <1>4, Zenon DEF FetchStatic

(* What a transaction of a pass in order writes: names up to the cursor,   *)
(* and a range that only grows.                                            *)
LEMMA WrittenGrows ==
    ASSUME CtInv, NEW t \in Tasks, NEW l \in Logs,
           NEW c \in {lg[t][l].next, Greater(cursor[l], lg[t][l].next)},
           Written(l, lg[t][l], c), UNCHANGED head
    PROVE  StoreGrows(l) /\ cursor'[l] # None /\ lg[t][l].next <= hi'[l]
<1> DEFINE r == lg[t][l]
<1>1. /\ r.start \in Range0 /\ r.next \in Range0 /\ r.size \in Range0 /\ head[l] \in Range0
      /\ cursor[l] \in Range0 \cup {None} /\ hi[l] \in Range0 \cup {None}
      /\ r.start <= r.next /\ r.next <= r.size /\ r.size <= head[l]
    BY PassKnown DEF InOrder
<1>2. /\ cursor \in [Logs -> Range0 \cup {None}] /\ hi \in [Logs -> Range0 \cup {None}]
      /\ lo \in [Logs -> Range0] /\ head \in [Logs -> Range0] /\ index \subseteq Names
      /\ NoGap /\ CursorWithin
      /\ \A k \in Logs : cursor[k] = None <=> hi[k] = None
    BY DEF CtInv, CtTypeOK, Durable
<1>3. MaxTree \in Nat
    BY CtAssumption
<1>4. /\ c \in Range0 /\ c <= head[l] /\ (c <= r.next \/ c <= hi[l])
    BY <1>1, <1>2, <1>3 DEF Greater, NoGap, CursorWithin, Range0, None
<1>5. /\ cursor' \in [Logs -> Range0 \cup {None}] /\ cursor'[l] = c
      /\ \A k \in Logs : k # l => cursor'[k] = cursor[k]
    BY <1>2, <1>4 DEF Written
<1>6. /\ hi' \in [Logs -> Range0 \cup {None}]
      /\ \A k \in Logs : k # l => hi'[k] = hi[k]
      /\ hi'[l] = IF r.next > hi[l] THEN r.next ELSE hi[l]
    BY <1>1, <1>2 DEF Written
<1>7. /\ lo' \in [Logs -> Range0]
      /\ \A k \in Logs : k # l => lo'[k] = lo[k]
      /\ lo'[l] = IF r.start > hi[l] THEN r.start ELSE lo[l]
    BY <1>1, <1>2 DEF Written
<1>8. hi[l] <= hi'[l] /\ r.next <= hi'[l] /\ c <= hi'[l] /\ hi'[l] # None
    BY <1>1, <1>3, <1>4, <1>6 DEF Range0, None
<1>9. index' = index \cup Held(l, r.start, r.next)
    BY DEF Written
<1>10. Held(l, r.start, r.next) \subseteq Names
  <2>1. \A i \in r.start..(r.next - 1) : i \in 0..(MaxTree - 1)
      BY <1>1, <1>3 DEF Range0
  <2>2. NameAt[l] \in [0..(MaxTree - 1) -> Names]
      BY CtAssumption
  <2> QED BY <2>1, <2>2 DEF Held
<1>11. NoGap'
  <2>1. SUFFICES ASSUME NEW k \in Logs
                 PROVE  /\ \A i \in lo'[k]..(hi'[k] - 1) : NameAt[k][i] \in index'
                        /\ cursor'[k] <= hi'[k]
      BY Zenon DEF NoGap
  <2>2. CASE k # l
      BY <1>2, <1>5, <1>6, <1>7, <1>9, <2>2 DEF NoGap
  <2>3. CASE k = l
    <3>1. SUFFICES ASSUME NEW i \in lo'[l]..(hi'[l] - 1) PROVE NameAt[l][i] \in index'
        BY <1>5, <1>8, <2>3
    <3>2. i \in lo[l]..(hi[l] - 1) \/ i \in r.start..(r.next - 1)
      <4>1. lo[l] \in Int /\ hi[l] \in Int /\ r.start \in Int /\ r.next \in Int
          BY <1>1, <1>2, RangeLeq
      <4> QED BY <1>6, <1>7, <3>1, <4>1
    <3>3. CASE i \in lo[l]..(hi[l] - 1)
        BY <1>2, <1>9, <3>3 DEF NoGap
    <3>4. CASE i \in r.start..(r.next - 1)
        BY <1>9, <3>4 DEF Held
    <3> QED BY <3>2, <3>3, <3>4
  <2> QED BY <2>2, <2>3
<1>12. CursorWithin'
    BY <1>2, <1>4, <1>5 DEF CursorWithin
<1>13. c # None
    BY <1>3, <1>4 DEF Range0, None
<1>14. \A k \in Logs : cursor'[k] = None <=> hi'[k] = None
    BY <1>2, <1>5, <1>6, <1>8, <1>13
<1>15. \A k \in Logs : hi[k] <= hi'[k] /\ head[k] <= head'[k]
    BY <1>2, <1>6, <1>8, RangeLeq
<1>16. index' \subseteq Names
    BY <1>2, <1>9, <1>10
<1>17. \A k \in Logs : cursor[k] # None => cursor'[k] # None
    BY <1>5, <1>13
<1> QED BY <1>2, <1>5, <1>6, <1>7, <1>8, <1>11, <1>12, <1>13, <1>14, <1>15, <1>16, <1>17 DEF StoreGrows, Durable

(* A task whose deadline passed stays where it was.                        *)
LEMMA LateStays ==
    ASSUME CtTypeOK, NEW t \in Tasks, tk' = [tk EXCEPT ![t].late = TRUE]
    PROVE  TasksStay
<1>1. tk[t] \in TaskType
    BY DEF CtTypeOK
<1>2. Become(t, [tk[t] EXCEPT !.late = TRUE])
    BY Zenon DEF Become
<1>3. [tk[t] EXCEPT !.late = TRUE] \in TaskType
    BY <1>1, TaskFields, TaskEdited, NoTaskTyped DEF TaskPcs
<1>4. /\ tk' \in [Tasks -> TaskType] /\ tk'[t] = [tk[t] EXCEPT !.late = TRUE]
      /\ \A u \in Tasks : u # t => tk'[u] = tk[u]
    BY <1>2, <1>3, TaskMoves
<1> QED BY <1>1, <1>4 DEF TasksStay, TaskType

(* So do tasks whose unread names were seen again.                         *)
LEMMA ReseenStays ==
    ASSUME CtTypeOK, NEW names, tk' = Reseen(tk, names)
    PROVE  TasksStay
<1>1. \A u \in Tasks : tk[u] \in TaskType
    BY DEF CtTypeOK
<1>2. \A u \in Tasks : tk'[u] = IF TaskAt(u, "read") THEN [tk[u] EXCEPT !.left = tk[u].left \ names] ELSE tk[u]
    BY DEF Reseen
<1>3. DOMAIN tk' = Tasks /\ tk' = [u \in Tasks |-> tk'[u]]
    BY DEF Reseen
<1>4. \A u \in Tasks : /\ tk'[u] \in TaskType /\ tk'[u].pc = tk[u].pc /\ tk'[u].sel = tk[u].sel
                       /\ TaskAt(u, "write") => tk'[u] = tk[u]
  <2>1. SUFFICES ASSUME NEW u \in Tasks
                 PROVE  /\ tk'[u] \in TaskType /\ tk'[u].pc = tk[u].pc /\ tk'[u].sel = tk[u].sel
                        /\ TaskAt(u, "write") => tk'[u] = tk[u]
      OBVIOUS
  <2>2. (tk[u].left \ names) \in SUBSET Names
      BY <1>1, TaskFields
  <2>3. [tk[u] EXCEPT !.left = tk[u].left \ names] \in TaskType
      BY <1>1, <2>2 DEF TaskType
  <2>4. CASE TaskAt(u, "read")
      BY <1>1, <1>2, <2>3, <2>4 DEF TaskType, TaskAt
  <2>5. CASE ~TaskAt(u, "read")
      BY <1>1, <1>2, <2>5
  <2> QED BY <2>4, <2>5
<1> QED BY <1>3, <1>4 DEF TasksStay

(* A transaction of a pass that then is done, or that goes on as b, keeps  *)
(* the invariant whether it is committed, rolled back or reported late.    *)
LEMMA TransactKeeps ==
    ASSUME CtInv, NEW t \in Tasks, NEW l \in Logs, TaskAt(t, "index"),
           NEW c \in {lg[t][l].next, Greater(cursor[l], lg[t][l].next)},
           NEW done \in PassType, Transact(t, l, c, done),
           done = PassEnded("ok") \/ (/\ done.start = lg[t][l].next /\ done.next = lg[t][l].next
                                      /\ done.size = lg[t][l].size /\ done.pc = "entries"),
           UNCHANGED <<one, head, marker, evid, cache, starts>>
    PROVE  CtInv'
<1> DEFINE q == lg[t][l]
<1>1. /\ q.start \in Range0 /\ q.next \in Range0 /\ q.size \in Range0 /\ head[l] \in Range0
      /\ q.start <= q.next /\ q.next <= q.size /\ q.size <= head[l]
    BY PassKnown DEF InOrder
<1>2. ASSUME LogPass(t, l, PassBroken(q)), UNCHANGED <<store, tk>> PROVE CtInv'
    BY <1>2, PassRests, TasksStand DEF CtInv, PassBroken, store
<1>3. ASSUME Written(l, q, c), NEW r \in {done, PassEnded("partial"), PassEnded("failed")},
             LogPass(t, l, r), TasksStay
      PROVE  CtInv'
  <2>1. StoreGrows(l) /\ cursor'[l] # None /\ q.next <= hi'[l]
      BY <1>3, WrittenGrows
  <2>2. r \in PassType
      BY <1>3, NoPassTyped DEF PassPcs
  <2>3. lg'[t][l] = r
      BY <1>3, <2>2, PassMoves DEF CtInv
  <2>4. r \in {PassEnded("ok"), PassEnded("partial"), PassEnded("failed")}
        \/ /\ r.start = q.next /\ r.next = q.next /\ r.size = q.size /\ r.pc = "entries"
      BY <1>3
  <2>5. 0 <= 0 /\ 0 <= head[l] /\ q.next <= q.next
      BY <1>1, RangeLeq
  <2>6. InOrder(l, lg[t][l])' /\ Continues(l, lg[t][l])'
    <3>1. CASE r \in {PassEnded("ok"), PassEnded("partial"), PassEnded("failed")}
        BY <2>1, <2>3, <2>5, <3>1 DEF InOrder, Continues, PassEnded, NoPass
    <3>2. CASE r.start = q.next /\ r.next = q.next /\ r.size = q.size /\ r.pc = "entries"
        BY <1>1, <2>1, <2>3, <2>5, <3>2 DEF InOrder, Continues
    <3> QED BY <2>4, <3>1, <3>2
  <2> QED BY <1>3, <2>1, <2>2, <2>6, LogStepKeeps
<1>4. ASSUME Written(l, q, c), LogPass(t, l, done),
             tk' \in {tk, Reseen(tk, index' \cap Held(l, q.start, q.next))}
      PROVE  CtInv'
  <2>1. TasksStay
      BY <1>4, TasksStand, ReseenStays DEF CtInv
  <2> QED BY <1>3, <1>4, <2>1
<1>5. ASSUME Written(l, q, c), LogPass(t, l, PassBroken(q)), tk' = [tk EXCEPT ![t].late = TRUE]
      PROVE  CtInv'
  <2>1. TasksStay
      BY <1>5, LateStays DEF CtInv
  <2>2. PassBroken(q) \in {PassEnded("partial"), PassEnded("failed")}
      BY DEF PassBroken
  <2> QED BY <1>3, <1>5, <2>1, <2>2
<1> QED BY <1>2, <1>4, <1>5, Zenon DEF Transact

(* A page of entries.                                                      *)
LEMMA CommitLogPageKeeps ==
    ASSUME CtInv, NEW t \in Tasks, NEW l \in Logs, CommitLogPage(t, l)
    PROVE  CtInv'
<1> DEFINE q == lg[t][l]
           b == CommittedCtBatch(q)
           more == b.start < q.size /\ b.total < PerLog /\ b.pages < RequestLimit
           done == IF more THEN b ELSE PassEnded("ok")
<1>1. /\ q \in PassType /\ TaskAt(t, "index") /\ q.start \in Range0 /\ q.next \in Range0
      /\ q.total \in Nat /\ q.pages \in Nat /\ q.start <= q.next
    BY PassKnown DEF CommitLogPage, InTask, InOrder
<1>2. q.total + q.next - q.start \in Nat /\ q.pages + 1 \in Nat
    BY <1>1, RangeLeq
<1>3. b \in PassType
    BY <1>1, <1>2 DEF CommittedCtBatch, PassType
<1>4. b.start = q.next /\ b.next = q.next /\ b.size = q.size /\ b.pc = "entries"
    BY <1>1 DEF CommittedCtBatch, PassType
<1>5. done \in PassType
    BY <1>3, NoPassTyped DEF PassPcs
<1>6. Transact(t, l, Greater(cursor[l], q.next), done)
    BY Zenon DEF CommitLogPage
<1>7. UNCHANGED <<one, head, marker, evid, cache, starts>>
    BY DEF CommitLogPage
<1> QED BY <1>1, <1>4, <1>5, <1>6, <1>7, TransactKeeps

(* A cursor without names.                                                 *)
LEMMA CommitMarkKeeps ==
    ASSUME CtInv, NEW t \in Tasks, NEW l \in Logs, CommitMark(t, l)
    PROVE  CtInv'
<1> DEFINE q == lg[t][l]
<1>1. TaskAt(t, "index") /\ q.start = q.next
    BY PassKnown DEF CommitMark, InTask, InOrder
<1>2. Transact(t, l, Greater(cursor[l], q.next), PassEnded("ok"))
    BY <1>1 DEF CommitMark
<1>3. PassEnded("ok") \in PassType
    BY NoPassTyped DEF PassPcs
<1> QED BY <1>1, <1>2, <1>3, TransactKeeps DEF CommitMark

(* A static batch, which after a reset puts the cursor at its own end.     *)
LEMMA CommitStaticKeeps ==
    ASSUME CtInv, NEW t \in Tasks, NEW l \in Logs, CommitStatic(t, l)
    PROVE  CtInv'
<1> DEFINE q == lg[t][l]
           c == IF q.reset THEN q.next ELSE Greater(cursor[l], q.next)
<1>1. TaskAt(t, "index") /\ Transact(t, l, c, PassEnded("ok"))
    BY DEF CommitStatic, InTask
<1>2. PassEnded("ok") \in PassType /\ c \in {q.next, Greater(cursor[l], q.next)}
    BY NoPassTyped DEF PassPcs
<1> QED BY <1>1, <1>2, TransactKeeps DEF CommitStatic

-----------------------------------------------------------------------------
(* Steps of a task outside the logs.                                       *)

\* The database of the logs stays.
StoreKept == UNCHANGED <<one, head, cursor, index, lo, hi>>

(* A step of a task keeps the invariant when its passes stay in order and  *)
(* what the task claims at its new place is true.                          *)
LEMMA TaskStepKeeps ==
    ASSUME CtInv, NEW t \in Tasks, NEW r \in TaskType, Become(t, r), StoreKept,
           evid \subseteq evid', evid' \subseteq Names, cache' \in {"none", "stale", "fresh"},
           starts' \in Nat, marker' \in BOOLEAN,
           lg' \in [Tasks -> [Logs -> PassType]],
           \A u \in Tasks : u # t => lg'[u] = lg[u],
           \A l \in Logs : InOrder(l, lg'[t][l]) /\ (r.pc = "index" /\ one => Continues(l, lg'[t][l])),
           r.pc = "marker" => \A l \in r.sel : lg'[t][l].pc = "ok",
           r.pc = "write" => r.got \subseteq evid' \cup r.left,
           one /\ r.pc \in Indexing => \A u \in Tasks : u # t => tk[u].pc \notin Indexing,
           one /\ marker' => /\ r.pc \notin {"list", "index", "marker"}
                             /\ marker \/ \A u \in Tasks : u # t => tk[u].pc \notin Indexing
    PROVE  CtInv'
<1>1. /\ tk' \in [Tasks -> TaskType] /\ tk'[t] = r
      /\ \A u \in Tasks : u # t => tk'[u] = tk[u]
    BY TaskMoves DEF CtInv
<1>2. CtTypeOK'
    BY <1>1 DEF CtInv, CtTypeOK, StoreKept
<1>3. Durable'
    BY Zenon DEF CtInv, Durable, NoGap, CursorWithin, StoreKept
<1>4. PassesInOrder'
  <2>1. SUFFICES ASSUME NEW u \in Tasks, NEW l \in Logs PROVE InOrder(l, lg[u][l])'
      BY DEF PassesInOrder
  <2>2. InOrder(l, lg'[u][l])
      BY DEF CtInv, PassesInOrder
  <2> QED BY <2>2 DEF InOrder, StoreKept
<1>5. PassesContinue'
  <2>1. SUFFICES ASSUME one', NEW u \in Tasks, NEW l \in Logs, TaskAt(u, "index")'
                 PROVE  Continues(l, lg[u][l])'
      BY DEF PassesContinue
  <2>2. Continues(l, lg'[u][l])
      BY <1>1, <2>1 DEF CtInv, PassesContinue, TaskAt, StoreKept
  <2> QED BY <2>2 DEF Continues, StoreKept
<1>6. OnePass'
  <2>1. SUFFICES ASSUME one' PROVE OnePass'
      BY DEF OnePass
  <2>2. one /\ OnePass
      BY <2>1 DEF StoreKept, CtInv
  <2>3. marker' => \A u \in Tasks : tk'[u].pc \notin {"list", "index", "marker"}
      BY <1>1, <2>2 DEF OnePass, Indexing
  <2>4. ASSUME NEW u \in Tasks, NEW v \in Tasks, tk'[u].pc \in Indexing, tk'[v].pc \in Indexing
        PROVE  u = v
      BY <1>1, <2>2, <2>4 DEF OnePass
  <2> QED BY <2>3, <2>4 DEF OnePass
<1>7. TasksOwe'
  <2>1. SUFFICES ASSUME NEW u \in Tasks
                 PROVE  /\ TaskAt(u, "marker")' => \A l \in tk'[u].sel : lg'[u][l].pc = "ok"
                        /\ TaskAt(u, "write")' => tk'[u].got \subseteq evid' \cup tk'[u].left
      BY Zenon DEF TasksOwe
  <2>2. CASE u = t
      BY <1>1, <2>2 DEF TaskAt
  <2>3. CASE u # t
      BY <1>1, <2>3 DEF CtInv, TasksOwe, TaskAt
  <2> QED BY <2>2, <2>3
<1> QED BY <1>2, <1>3, <1>4, <1>5, <1>6, <1>7 DEF CtInv

(* Such a step often leaves the passes, the evidence and the marker alone, *)
(* and leads to a place without a claim.                                   *)
LEMMA TaskRestsKeeps ==
    ASSUME CtInv, NEW t \in Tasks, NEW r \in TaskType, Become(t, r), StoreKept,
           UNCHANGED <<lg, evid>>, marker' \in {marker, FALSE}, starts' \in Nat,
           cache' \in {"none", "stale", "fresh"},
           r.pc \in Indexing => tk[t].pc \in Indexing,
           r.pc \notin {"list", "index", "marker", "write"}
    PROVE  CtInv'
<1>1. /\ evid \subseteq evid' /\ evid' \subseteq Names /\ marker' \in BOOLEAN
      /\ lg' \in [Tasks -> [Logs -> PassType]] /\ \A u \in Tasks : u # t => lg'[u] = lg[u]
    BY DEF CtInv, CtTypeOK
<1>2. \A l \in Logs : InOrder(l, lg'[t][l]) /\ (r.pc = "index" /\ one => Continues(l, lg'[t][l]))
    BY DEF CtInv, PassesInOrder
<1>3. one /\ r.pc \in Indexing => \A u \in Tasks : u # t => tk[u].pc \notin Indexing
    BY DEF CtInv, OnePass
<1>4. marker' => marker
    BY DEF CtInv, CtTypeOK
<1> QED BY <1>1, <1>2, <1>3, <1>4, TaskStepKeeps

(* The record of a task, as the invariant knows it.                        *)
LEMMA TaskKnown ==
    ASSUME CtInv, NEW t \in Tasks
    PROVE  /\ tk[t] \in TaskType
           /\ evid \subseteq Names /\ index \subseteq Names
           /\ cache \in {"none", "stale", "fresh"} /\ starts \in Nat /\ marker \in BOOLEAN
           /\ lg \in [Tasks -> [Logs -> PassType]]
    BY DEF CtInv, CtTypeOK

(* The deadline, or an error, ends a task anywhere.                        *)
LEMMA EndKeeps ==
    ASSUME CtInv, NEW t \in Tasks, Goto(t, "end"), StoreKept,
           UNCHANGED <<lg, evid, starts, marker>>, cache' \in {"none", "stale", "fresh"}
    PROVE  CtInv'
<1> DEFINE r == [tk[t] EXCEPT !.pc = "end"]
<1>1. tk[t] \in TaskType /\ starts' \in Nat
    BY TaskKnown
<1>2. r \in TaskType /\ r.pc = "end"
    BY <1>1 DEF TaskType
<1>3. Become(t, r)
    BY Zenon DEF Goto
<1> QED BY <1>1, <1>2, <1>3, TaskRestsKeeps DEF Indexing

(* A task starts at the gate, or past the logs when the marker is fresh.   *)
LEMMA StartKeeps ==
    ASSUME CtInv, NEW t \in Tasks, Start(t)
    PROVE  CtInv'
<1> DEFINE r == IF marker THEN [NoTask EXCEPT !.pc = "select", !.complete = TRUE]
                ELSE [NoTask EXCEPT !.pc = "gate"]
<1>1. r \in TaskType /\ r.pc \in {"select", "gate"}
    BY NoTaskTyped DEF TaskPcs, NoTask
<1>2. Become(t, r)
    BY Zenon DEF Start
<1>3. starts' \in Nat /\ cache' \in {"none", "stale", "fresh"} /\ UNCHANGED <<lg, evid, marker>> /\ StoreKept
    BY TaskKnown DEF Start, StoreKept, store
<1> QED BY <1>1, <1>2, <1>3, TaskRestsKeeps DEF Indexing

(* The permit is taken only when no task of the process has it.            *)
LEMMA AcquireKeeps ==
    ASSUME CtInv, NEW t \in Tasks, Acquire(t)
    PROVE  CtInv'
<1> DEFINE r == [tk[t] EXCEPT !.pc = "recheck"]
<1>1. StoreKept /\ UNCHANGED <<lg, evid, marker, starts, cache>>
    BY DEF Acquire, StoreKept, store
<1>2. CASE Goto(t, "end")
    BY <1>1, <1>2, EndKeeps, TaskKnown
<1>3. CASE PermitFree(t) /\ Goto(t, "recheck")
  <2>1. r \in TaskType /\ r.pc = "recheck"
      BY TaskKnown DEF TaskType, Indexing
  <2>2. Become(t, r)
      BY <1>3, Zenon DEF Goto
  <2>3. one => \A u \in Tasks : tk[u].pc \notin Indexing
      BY <1>3 DEF PermitFree
  <2>4. /\ evid \subseteq evid' /\ evid' \subseteq Names /\ marker' \in BOOLEAN
        /\ cache' \in {"none", "stale", "fresh"} /\ starts' \in Nat
        /\ lg' \in [Tasks -> [Logs -> PassType]] /\ \A u \in Tasks : u # t => lg'[u] = lg[u]
      BY <1>1, TaskKnown
  <2>5. \A l \in Logs : InOrder(l, lg'[t][l])
      BY <1>1 DEF CtInv, PassesInOrder
  <2> QED BY <1>1, <2>1, <2>2, <2>3, <2>4, <2>5, TaskStepKeeps
<1> QED BY <1>2, <1>3 DEF Acquire

(* Under the permit the marker is read again.                              *)
LEMMA RecheckKeeps ==
    ASSUME CtInv, NEW t \in Tasks, Recheck(t)
    PROVE  CtInv'
<1>1. StoreKept /\ UNCHANGED <<lg, evid, marker, starts, cache>> /\ tk[t].pc = "recheck" /\ tk[t] \in TaskType
    BY TaskKnown DEF Recheck, StoreKept, store, TaskAt
<1>2. CASE marker
  <2> DEFINE r == [tk[t] EXCEPT !.pc = "select", !.complete = TRUE]
  <2>1. r \in TaskType /\ r.pc = "select"
      BY <1>1 DEF TaskType
  <2>2. Become(t, r)
      BY <1>2, Zenon DEF Recheck
  <2> QED BY <1>1, <2>1, <2>2, TaskKnown, TaskRestsKeeps DEF Indexing
<1>3. CASE ~marker
  <2> DEFINE r == [tk[t] EXCEPT !.pc = "list"]
  <2>1. r \in TaskType /\ r.pc = "list"
      BY <1>1 DEF TaskType, Indexing
  <2>2. Become(t, r)
      BY <1>3, Zenon DEF Recheck
  <2>3. one => \A u \in Tasks : u # t => tk[u].pc \notin Indexing
      BY <1>1 DEF CtInv, OnePass, Indexing
  <2>4. /\ evid \subseteq evid' /\ evid' \subseteq Names /\ marker' \in BOOLEAN /\ ~marker'
        /\ cache' \in {"none", "stale", "fresh"} /\ starts' \in Nat
        /\ lg' \in [Tasks -> [Logs -> PassType]] /\ \A u \in Tasks : u # t => lg'[u] = lg[u]
      BY <1>1, <1>3, TaskKnown
  <2>5. \A l \in Logs : InOrder(l, lg'[t][l])
      BY <1>1 DEF CtInv, PassesInOrder
  <2> QED BY <1>1, <2>1, <2>2, <2>3, <2>4, <2>5, TaskStepKeeps
<1> QED BY <1>2, <1>3

(* Passes that have not begun, or ended without a cursor, are in order.    *)
LEMMA FreshPasses ==
    ASSUME CtInv, NEW l \in Logs, NEW pc \in {"idle", "sth"}
    PROVE  InOrder(l, [NoPass EXCEPT !.pc = pc]) /\ Continues(l, [NoPass EXCEPT !.pc = pc])
<1>1. head[l] \in Range0 /\ 0 <= head[l] /\ 0 <= 0
    BY RangeLeq DEF CtInv, CtTypeOK
<1>2. NoPass \in PassType /\ NoPass.start = 0 /\ NoPass.next = 0 /\ NoPass.size = 0
    BY NoPassTyped DEF NoPass
<1>3. LET r == [NoPass EXCEPT !.pc = pc]
      IN r.pc = pc /\ r.start = 0 /\ r.next = 0 /\ r.size = 0
    BY <1>2 DEF PassType
<1> QED BY <1>1, <1>3 DEF InOrder, Continues

(* The list of logs is read, or the task ends.                             *)
LEMMA LoadListKeeps ==
    ASSUME CtInv, NEW t \in Tasks, LoadList(t)
    PROVE  CtInv'
<1>1. /\ StoreKept /\ UNCHANGED <<evid, marker, starts, cache>> /\ tk[t].pc = "list" /\ tk[t] \in TaskType
    BY TaskKnown DEF LoadList, StoreKept, store, TaskAt
<1>2. CASE Goto(t, "end") /\ UNCHANGED lg
    BY <1>1, <1>2, TaskKnown, EndKeeps
<1>3. CASE /\ Become(t, [tk[t] EXCEPT !.pc = "index", !.sel = SelectedLogs])
           /\ lg' = [lg EXCEPT ![t] = [l \in Logs |->
                        IF l \in SelectedLogs THEN [NoPass EXCEPT !.pc = "sth"] ELSE NoPass]]
  <2> DEFINE r == [tk[t] EXCEPT !.pc = "index", !.sel = SelectedLogs]
  <2>1. SelectedLogs \in SUBSET Logs
      BY DEF SelectedLogs
  <2>2. r \in TaskType /\ r.pc = "index"
      BY <1>1, <2>1 DEF TaskType, Indexing
  <2>3. [NoPass EXCEPT !.pc = "idle"] = NoPass
      BY DEF NoPass
  <2>4. \A l \in Logs : lg'[t][l] \in {[NoPass EXCEPT !.pc = "sth"], [NoPass EXCEPT !.pc = "idle"]}
      BY <1>3, <2>3, TaskKnown
  <2>5. \A l \in Logs : InOrder(l, lg'[t][l]) /\ Continues(l, lg'[t][l])
      BY <2>4, FreshPasses
  <2>6. lg' \in [Tasks -> [Logs -> PassType]] /\ \A u \in Tasks : u # t => lg'[u] = lg[u]
    <3>1. [NoPass EXCEPT !.pc = "sth"] \in PassType /\ NoPass \in PassType
        BY NoPassTyped DEF PassPcs
    <3> QED BY <1>3, <3>1, TaskKnown
  <2>7. one => ~marker /\ \A u \in Tasks : u # t => tk[u].pc \notin Indexing
      BY <1>1 DEF CtInv, OnePass, Indexing
  <2>8. /\ evid \subseteq evid' /\ evid' \subseteq Names /\ marker' \in BOOLEAN /\ (one => ~marker')
        /\ cache' \in {"none", "stale", "fresh"} /\ starts' \in Nat
      BY <1>1, <2>7, TaskKnown
  <2> HIDE DEF r
  <2> QED BY <1>1, <1>3, <2>2, <2>5, <2>6, <2>7, <2>8, TaskStepKeeps DEF r
<1> QED BY <1>2, <1>3, Zenon DEF LoadList

(* The passes of a task ended: the marker is next only when all are ok.    *)
LEMMA GatherKeeps ==
    ASSUME CtInv, NEW t \in Tasks, Gather(t)
    PROVE  CtInv'
<1>1. /\ StoreKept /\ UNCHANGED <<evid, marker, starts, cache, lg>> /\ tk[t].pc = "index" /\ tk[t] \in TaskType
    BY TaskKnown DEF Gather, StoreKept, store, TaskAt
<1>2. CASE ~Completed_selected_log_pass(t)
  <2> DEFINE r == [tk[t] EXCEPT !.pc = "select"]
  <2>1. r \in TaskType /\ r.pc = "select"
      BY <1>1 DEF TaskType
  <2>2. Become(t, r)
      BY <1>2, Zenon DEF Gather, Goto
  <2> QED BY <1>1, <2>1, <2>2, TaskKnown, TaskRestsKeeps DEF Indexing
<1>3. CASE Completed_selected_log_pass(t)
  <2> DEFINE r == [tk[t] EXCEPT !.pc = "marker"]
  <2>1. r \in TaskType /\ r.pc = "marker" /\ r.sel = tk[t].sel
      BY <1>1 DEF TaskType, Indexing
  <2>2. Become(t, r)
      BY <1>3, Zenon DEF Gather, Goto
  <2>3. \A l \in r.sel : lg'[t][l].pc = "ok"
      BY <1>1, <1>3, <2>1 DEF Completed_selected_log_pass
  <2>4. one => ~marker' /\ \A u \in Tasks : u # t => tk[u].pc \notin Indexing
      BY <1>1 DEF CtInv, OnePass, Indexing
  <2>5. /\ evid \subseteq evid' /\ evid' \subseteq Names /\ marker' \in BOOLEAN
        /\ cache' \in {"none", "stale", "fresh"} /\ starts' \in Nat
        /\ lg' \in [Tasks -> [Logs -> PassType]] /\ \A u \in Tasks : u # t => lg'[u] = lg[u]
      BY <1>1, TaskKnown
  <2>6. \A l \in Logs : InOrder(l, lg'[t][l])
      BY <1>1 DEF CtInv, PassesInOrder
  <2> HIDE DEF r
  <2> QED BY <1>1, <2>1, <2>2, <2>3, <2>4, <2>5, <2>6, TaskStepKeeps
<1> QED BY <1>2, <1>3

(* The marker is stored by the one task of the process that has the permit.*)
LEMMA StoreMarkerKeeps ==
    ASSUME CtInv, NEW t \in Tasks, StoreMarker(t)
    PROVE  CtInv'
<1>1. /\ StoreKept /\ UNCHANGED <<evid, starts, cache, lg>> /\ tk[t].pc = "marker" /\ tk[t] \in TaskType
    BY TaskKnown DEF StoreMarker, StoreKept, store, TaskAt
<1>2. CASE Goto(t, "end") /\ UNCHANGED marker
    BY <1>1, <1>2, TaskKnown, EndKeeps
<1>3. ASSUME marker' = TRUE,
             NEW r \in {[tk[t] EXCEPT !.pc = "select", !.complete = TRUE], [tk[t] EXCEPT !.pc = "end"]},
             Become(t, r)
      PROVE  CtInv'
  <2>1. r \in TaskType /\ r.pc \in {"select", "end"}
      BY <1>1, <1>3 DEF TaskType
  <2>2. one => \A u \in Tasks : u # t => tk[u].pc \notin Indexing
      BY <1>1 DEF CtInv, OnePass, Indexing
  <2>3. /\ evid \subseteq evid' /\ evid' \subseteq Names /\ marker' \in BOOLEAN
        /\ cache' \in {"none", "stale", "fresh"} /\ starts' \in Nat
        /\ lg' \in [Tasks -> [Logs -> PassType]] /\ \A u \in Tasks : u # t => lg'[u] = lg[u]
      BY <1>1, <1>3, TaskKnown
  <2>4. \A l \in Logs : InOrder(l, lg'[t][l])
      BY <1>1 DEF CtInv, PassesInOrder
  <2>5. r.pc \notin {"list", "index", "marker", "write"}
      BY <2>1
  <2> QED BY <1>1, <1>3, <2>1, <2>2, <2>3, <2>4, <2>5, TaskStepKeeps
<1>4. \/ Goto(t, "end") /\ UNCHANGED marker
      \/ marker' = TRUE /\ (Become(t, [tk[t] EXCEPT !.pc = "select", !.complete = TRUE])
                             \/ Become(t, [tk[t] EXCEPT !.pc = "end"]))
    BY Zenon DEF StoreMarker, Goto
<1> QED BY <1>2, <1>3, <1>4

(* The target's names are chosen, or the task ends late.                   *)
LEMMA SelectNamesKeeps ==
    ASSUME CtInv, NEW t \in Tasks, SelectNames(t)
    PROVE  CtInv'
<1>1. /\ StoreKept /\ UNCHANGED <<evid, marker, starts, cache, lg>> /\ tk[t] \in TaskType
    BY TaskKnown DEF SelectNames, StoreKept, store
<1>2. PICK r \in {[tk[t] EXCEPT !.pc = "end"],
                  [tk[t] EXCEPT !.pc = "read", !.left = index \cap TargetNames, !.got = {}]} : Become(t, r)
    BY Zenon DEF SelectNames
<1>3. index \cap TargetNames \in SUBSET Names /\ {} \in SUBSET Names
    BY TaskKnown
<1>4. r \in TaskType /\ r.pc \in {"read", "end"}
    BY <1>1, <1>2, <1>3 DEF TaskType
<1> QED BY <1>1, <1>2, <1>4, TaskKnown, TaskRestsKeeps DEF Indexing

(* A page is read; after the last one everything selected is to be written.*)
LEMMA ReadPageKeeps ==
    ASSUME CtInv, NEW t \in Tasks, ReadPage(t)
    PROVE  CtInv'
<1>1. /\ StoreKept /\ UNCHANGED <<evid, marker, starts, cache, lg>> /\ tk[t].pc = "read" /\ tk[t] \in TaskType
      /\ tk[t].left \in SUBSET Names /\ tk[t].got \in SUBSET Names
    BY TaskKnown, TaskFields DEF ReadPage, StoreKept, store, TaskAt
<1>2. CASE Goto(t, "end")
    BY <1>1, <1>2, TaskKnown, EndKeeps
<1>3. ASSUME NEW p \in SUBSET tk[t].left, Become(t, [tk[t] EXCEPT !.left = @ \ p, !.got = @ \cup p])
      PROVE  CtInv'
  <2> DEFINE r == [tk[t] EXCEPT !.left = tk[t].left \ p, !.got = tk[t].got \cup p]
  <2>1. tk[t].left \ p \in SUBSET Names /\ tk[t].got \cup p \in SUBSET Names
      BY <1>1
  <2>2. r \in TaskType /\ r.pc = "read"
      BY <1>1, <2>1 DEF TaskType
  <2>3. Become(t, r)
      BY <1>3
  <2> QED BY <1>1, <2>2, <2>3, TaskKnown, TaskRestsKeeps DEF Indexing
<1>4. ASSUME Become(t, [tk[t] EXCEPT !.pc = "write", !.left = tk[t].got \cup evid, !.got = @ \cup evid])
      PROVE  CtInv'
  <2> DEFINE r == [tk[t] EXCEPT !.pc = "write", !.left = tk[t].got \cup evid, !.got = tk[t].got \cup evid]
  <2>1. tk[t].got \cup evid \in SUBSET Names
      BY <1>1, TaskKnown
  <2>2. r \in TaskType /\ r.pc = "write" /\ r.left = r.got
      BY <1>1, <2>1 DEF TaskType
  <2>3. Become(t, r)
      BY <1>4
  <2>4. /\ evid \subseteq evid' /\ evid' \subseteq Names /\ marker' \in BOOLEAN
        /\ cache' \in {"none", "stale", "fresh"} /\ starts' \in Nat /\ (marker' => marker)
        /\ lg' \in [Tasks -> [Logs -> PassType]] /\ \A u \in Tasks : u # t => lg'[u] = lg[u]
      BY <1>1, TaskKnown
  <2>5. \A l \in Logs : InOrder(l, lg'[t][l])
      BY <1>1 DEF CtInv, PassesInOrder
  <2> HIDE DEF r
  <2> QED BY <1>1, <2>2, <2>3, <2>4, <2>5, TaskStepKeeps DEF Indexing
<1> QED BY <1>2, <1>3, <1>4 DEF ReadPage

(* A page of evidence: what it takes from the rest becomes evidence.       *)
LEMMA WritePageKeeps ==
    ASSUME CtInv, NEW t \in Tasks, WritePage(t)
    PROVE  CtInv'
<1>1. /\ StoreKept /\ UNCHANGED <<marker, starts, cache, lg>> /\ tk[t].pc = "write" /\ tk[t] \in TaskType
      /\ tk[t].left \in SUBSET Names /\ tk[t].got \in SUBSET Names
      /\ tk[t].got \subseteq evid \cup tk[t].left
    BY TaskKnown, TaskFields DEF WritePage, StoreKept, store, TaskAt, CtInv, TasksOwe
<1>2. CASE Goto(t, "end") /\ UNCHANGED evid
    BY <1>1, <1>2, TaskKnown, EndKeeps
<1>3. ASSUME NEW p \in SUBSET tk[t].left, Become(t, [tk[t] EXCEPT !.left = @ \ p]), evid' = evid \cup p
      PROVE  CtInv'
  <2> DEFINE r == [tk[t] EXCEPT !.left = tk[t].left \ p]
  <2>1. tk[t].left \ p \in SUBSET Names /\ evid \cup p \in SUBSET Names
      BY <1>1, TaskKnown
  <2>2. r \in TaskType /\ r.pc = "write" /\ r.left = tk[t].left \ p /\ r.got = tk[t].got
      BY <1>1, <2>1 DEF TaskType
  <2>3. Become(t, r)
      BY <1>3
  <2>4. /\ evid \subseteq evid' /\ evid' \subseteq Names /\ marker' \in BOOLEAN
        /\ cache' \in {"none", "stale", "fresh"} /\ starts' \in Nat /\ (marker' => marker)
        /\ lg' \in [Tasks -> [Logs -> PassType]] /\ \A u \in Tasks : u # t => lg'[u] = lg[u]
      BY <1>1, <1>3, <2>1, TaskKnown
  <2>5. \A l \in Logs : InOrder(l, lg'[t][l])
      BY <1>1 DEF CtInv, PassesInOrder
  <2>6. r.got \subseteq evid' \cup r.left
      BY <1>1, <1>3, <2>2
  <2> HIDE DEF r
  <2> QED BY <1>1, <2>2, <2>3, <2>4, <2>5, <2>6, TaskStepKeeps DEF Indexing
<1> QED BY <1>2, <1>3 DEF WritePage

(* The freshness row ends the task.                                        *)
LEMMA PublishFreshKeeps ==
    ASSUME CtInv, NEW t \in Tasks, PublishFresh(t)
    PROVE  CtInv'
<1>1. /\ StoreKept /\ UNCHANGED <<evid, marker, starts, lg>> /\ cache' \in {"none", "stale", "fresh"}
      /\ Goto(t, "end")
    BY TaskKnown DEF PublishFresh, StoreKept, store
<1> QED BY <1>1, EndKeeps

(* The result is returned: the task may be started again.                  *)
LEMMA ReturnTaskKeeps ==
    ASSUME CtInv, NEW t \in Tasks, ReturnTask(t)
    PROVE  CtInv'
<1>1. /\ StoreKept /\ UNCHANGED <<evid, marker, starts, cache>> /\ Become(t, NoTask)
      /\ lg' = [lg EXCEPT ![t] = NoPasses]
    BY DEF ReturnTask, StoreKept, store
<1>2. NoTask \in TaskType /\ NoTask.pc = "off"
    BY NoTaskTyped DEF NoTask
<1>3. NoPasses \in [Logs -> PassType]
    BY NoPassTyped DEF NoPasses
<1>4. /\ lg' \in [Tasks -> [Logs -> PassType]] /\ lg'[t] = NoPasses
      /\ \A u \in Tasks : u # t => lg'[u] = lg[u]
    BY <1>1, <1>3, TaskKnown
<1>5. \A l \in Logs : InOrder(l, lg'[t][l])
  <2>1. [NoPass EXCEPT !.pc = "idle"] = NoPass
      BY DEF NoPass
  <2> QED BY <1>4, <2>1, FreshPasses DEF NoPasses
<1>6. /\ evid \subseteq evid' /\ evid' \subseteq Names /\ marker' \in BOOLEAN /\ (marker' => marker)
      /\ cache' \in {"none", "stale", "fresh"} /\ starts' \in Nat
    BY <1>1, TaskKnown
<1> QED BY <1>1, <1>2, <1>4, <1>5, <1>6, TaskStepKeeps DEF Indexing

(* The deadline passes: the task stays where it is.                        *)
LEMMA LateTaskKeeps ==
    ASSUME CtInv, NEW t \in Tasks, LateTask(t)
    PROVE  CtInv'
<1> DEFINE r == [tk[t] EXCEPT !.late = TRUE]
<1>1. /\ StoreKept /\ UNCHANGED <<evid, marker, starts, cache, lg>> /\ Become(t, r)
      /\ tk[t] \in TaskType /\ tk[t].late \in BOOLEAN
    BY TaskKnown, TaskFields DEF LateTask, StoreKept, store
<1>2. r \in TaskType /\ r.pc = tk[t].pc /\ r.sel = tk[t].sel /\ r.left = tk[t].left /\ r.got = tk[t].got
    BY <1>1 DEF TaskType
<1>3. \A l \in Logs : InOrder(l, lg'[t][l]) /\ (r.pc = "index" /\ one => Continues(l, lg'[t][l]))
    BY <1>1, <1>2 DEF CtInv, PassesInOrder, PassesContinue, TaskAt
<1>4. /\ r.pc = "marker" => \A l \in r.sel : lg'[t][l].pc = "ok"
      /\ r.pc = "write" => r.got \subseteq evid' \cup r.left
    BY <1>1, <1>2 DEF CtInv, TasksOwe, TaskAt
<1>5. one => /\ r.pc \in Indexing => \A u \in Tasks : u # t => tk[u].pc \notin Indexing
             /\ marker' => marker /\ r.pc \notin {"list", "index", "marker"}
    BY <1>1, <1>2 DEF CtInv, OnePass
<1>6. /\ evid \subseteq evid' /\ evid' \subseteq Names /\ marker' \in BOOLEAN
      /\ cache' \in {"none", "stale", "fresh"} /\ starts' \in Nat
      /\ lg' \in [Tasks -> [Logs -> PassType]] /\ \A u \in Tasks : u # t => lg'[u] = lg[u]
    BY <1>1, TaskKnown
<1> HIDE DEF r
<1> QED BY <1>1, <1>2, <1>3, <1>4, <1>5, <1>6, TaskStepKeeps

(* A process dies: its tasks are forgotten, the database is not.           *)
LEMMA CrashKeeps ==
    ASSUME CtInv, NEW t \in Tasks, Crash(t)
    PROVE  CtInv'
<1>1. StoreKept /\ UNCHANGED <<marker, evid, cache, starts>>
    BY DEF Crash, StoreKept, store
<1>2. NoTask \in TaskType /\ NoTask.pc = "off" /\ NoPasses \in [Logs -> PassType]
    BY NoTaskTyped, NoPassTyped DEF NoTask, NoPasses
<1>3. tk \in [Tasks -> TaskType] /\ lg \in [Tasks -> [Logs -> PassType]]
    BY DEF CtInv, CtTypeOK
<1>4. /\ tk' \in [Tasks -> TaskType] /\ lg' \in [Tasks -> [Logs -> PassType]]
      /\ \A u \in Tasks : \/ tk'[u] = NoTask /\ lg'[u] = NoPasses
                          \/ tk'[u] = tk[u] /\ lg'[u] = lg[u]
    BY <1>2, <1>3 DEF Crash
<1>5. CtTypeOK'
    BY <1>1, <1>4 DEF CtInv, CtTypeOK, StoreKept
<1>6. Durable'
    BY <1>1, Zenon DEF CtInv, Durable, NoGap, CursorWithin, StoreKept
<1>7. PassesInOrder'
  <2>1. SUFFICES ASSUME NEW u \in Tasks, NEW l \in Logs PROVE InOrder(l, lg[u][l])'
      BY DEF PassesInOrder
  <2>2. [NoPass EXCEPT !.pc = "idle"] = NoPass
      BY DEF NoPass
  <2>3. InOrder(l, lg'[u][l])
      BY <1>4, <2>2, FreshPasses DEF NoPasses, CtInv, PassesInOrder
  <2> QED BY <1>1, <2>3 DEF InOrder, StoreKept
<1>8. PassesContinue'
  <2>1. SUFFICES ASSUME one', NEW u \in Tasks, NEW l \in Logs, TaskAt(u, "index")'
                 PROVE  Continues(l, lg[u][l])'
      BY DEF PassesContinue
  <2>2. Continues(l, lg'[u][l])
      BY <1>1, <1>2, <1>4, <2>1 DEF CtInv, PassesContinue, TaskAt, StoreKept
  <2> QED BY <1>1, <2>2 DEF Continues, StoreKept
<1>9. OnePass'
    BY <1>1, <1>2, <1>4 DEF CtInv, OnePass, StoreKept, Indexing
<1>10. TasksOwe'
    BY <1>1, <1>2, <1>4 DEF CtInv, TasksOwe, TaskAt
<1> QED BY <1>5, <1>6, <1>7, <1>8, <1>9, <1>10 DEF CtInv

(* The marker gets old.                                                    *)
LEMMA ExpireMarkerKeeps ==
    ASSUME CtInv, ExpireMarker
    PROVE  CtInv'
<1>1. StoreKept /\ UNCHANGED <<evid, cache, tk, lg, starts>> /\ marker' = FALSE
    BY DEF ExpireMarker, StoreKept, store
<1>2. CtTypeOK'
    BY <1>1 DEF CtInv, CtTypeOK, StoreKept
<1>3. Durable'
    BY <1>1, Zenon DEF CtInv, Durable, NoGap, CursorWithin, StoreKept
<1>4. PassesInOrder' /\ PassesContinue'
    BY <1>1 DEF CtInv, PassesInOrder, PassesContinue, InOrder, Continues, TaskAt, StoreKept
<1>5. OnePass' /\ TasksOwe'
    BY <1>1 DEF CtInv, OnePass, TasksOwe, TaskAt, StoreKept
<1> QED BY <1>2, <1>3, <1>4, <1>5 DEF CtInv

(* Without a step the invariant stays.                                     *)
LEMMA StutterKeeps ==
    ASSUME CtInv, UNCHANGED ctVars
    PROVE  CtInv'
<1>1. StoreKept /\ UNCHANGED <<marker, evid, cache, tk, lg, starts>>
    BY DEF ctVars, store, StoreKept
<1>2. CtTypeOK'
    BY <1>1 DEF CtInv, CtTypeOK, StoreKept
<1>3. Durable'
    BY <1>1, Zenon DEF CtInv, Durable, NoGap, CursorWithin, StoreKept
<1>4. PassesInOrder' /\ PassesContinue'
    BY <1>1 DEF CtInv, PassesInOrder, PassesContinue, InOrder, Continues, TaskAt, StoreKept
<1>5. OnePass' /\ TasksOwe'
    BY <1>1 DEF CtInv, OnePass, TasksOwe, TaskAt, StoreKept
<1> QED BY <1>2, <1>3, <1>4, <1>5 DEF CtInv

(* A step on a log keeps the invariant.                                    *)
LEMMA LogStepsKeep ==
    ASSUME CtInv, NEW t \in Tasks, LogStep(t)
    PROVE  CtInv'
<1>1. PICK l \in Logs : \/ ReadHead(t, l) \/ ReadCursor(t, l) \/ ResetCursor(t, l) \/ FetchEntries(t, l)
                        \/ CommitLogPage(t, l) \/ CommitMark(t, l) \/ FetchStatic(t, l) \/ CommitStatic(t, l)
    BY Zenon DEF LogStep
<1> QED BY <1>1, ReadHeadKeeps, ReadCursorKeeps, ResetCursorKeeps, FetchEntriesKeeps, CommitLogPageKeeps,
           CommitMarkKeeps, FetchStaticKeeps, CommitStaticKeeps, Zenon

(* The first state has the invariant.                                      *)
LEMMA InitHolds == CtInit => CtInv
<1> SUFFICES ASSUME CtInit PROVE CtInv
    OBVIOUS
<1>1. NoTask \in TaskType /\ NoTask.pc = "off" /\ NoPasses \in [Logs -> PassType] /\ 0 \in Range0
    BY NoTaskTyped, NoPassTyped DEF NoTask, NoPasses
<1>2. CtTypeOK
    BY <1>1, CtAssumption DEF CtInit, CtTypeOK
<1>3. \A l \in Logs : head[l] = 0 /\ cursor[l] = None /\ lo[l] = 0 /\ hi[l] = None
    BY DEF CtInit
<1>4. Durable
  <2>1. \A l \in Logs : lo[l]..(hi[l] - 1) = {} /\ cursor[l] <= hi[l] /\ cursor[l] <= head[l]
      BY <1>3 DEF None
  <2> QED BY <1>3, <2>1 DEF Durable, NoGap, CursorWithin
<1>5. \A t \in Tasks, l \in Logs : lg[t][l] = NoPass
    BY DEF CtInit, NoPasses
<1>6. PassesInOrder
    BY <1>3, <1>5 DEF PassesInOrder, InOrder, NoPass
<1>7. \A t \in Tasks : tk[t].pc = "off"
    BY <1>1 DEF CtInit
<1>8. PassesContinue /\ OnePass /\ TasksOwe
    BY <1>7 DEF PassesContinue, OnePass, TasksOwe, TaskAt, Indexing
<1> QED BY <1>2, <1>4, <1>6, <1>8 DEF CtInv

(* Every step of the tasks and of their environment keeps the invariant.   *)
LEMMA StepKeeps == CtInv /\ [CtNext]_ctVars => CtInv'
<1> SUFFICES ASSUME CtInv, [CtNext]_ctVars PROVE CtInv'
    OBVIOUS
<1>1. CASE UNCHANGED ctVars
    BY <1>1, StutterKeeps
<1>2. CASE ExpireMarker
    BY <1>2, ExpireMarkerKeeps
<1>3. ASSUME NEW t \in Tasks, Start(t) \/ LateTask(t) \/ Crash(t) PROVE CtInv'
    BY <1>3, StartKeeps, LateTaskKeeps, CrashKeeps, Zenon
<1>4. ASSUME NEW t \in Tasks, CtStep(t) PROVE CtInv'
    BY <1>4, AcquireKeeps, RecheckKeeps, LoadListKeeps, LogStepsKeep, GatherKeeps, StoreMarkerKeeps,
       SelectNamesKeeps, ReadPageKeeps, WritePageKeeps, PublishFreshKeeps, ReturnTaskKeeps, Zenon DEF CtStep
<1> QED BY <1>1, <1>2, <1>3, <1>4, Zenon DEF CtNext

(* CtInv is an invariant.                                                  *)
THEOREM CtInvariant == CtSpec => []CtInv
BY InitHolds, StepKeeps, PTL DEF CtSpec

-----------------------------------------------------------------------------
(* The index is honest.                                                    *)

\* A committed transaction of task t on log l.
Commits(t, l) ==
    /\ TaskAt(t, "index") /\ lg[t][l].pc \in {"commit", "mark", "tiles"}
    /\ \E c \in {lg[t][l].next, Greater(cursor[l], lg[t][l].next)} : Written(l, lg[t][l], c)
    /\ UNCHANGED one

\* A cursor that goes back to where the pass begins.
GoesBack(t, l) ==
    /\ lg[t][l].pc = "reset"
    /\ cursor' = [cursor EXCEPT ![l] = lg[t][l].start]
    /\ UNCHANGED <<one, lo, hi, index>>

IndexStays == UNCHANGED <<one, cursor, lo, hi, index>>

(* The database of the logs changes by a commit or a reset only.           *)
LEMMA IndexSteps ==
    ASSUME CtInv, [CtNext]_ctVars
    PROVE  IndexStays \/ \E t \in Tasks, l \in Logs : Commits(t, l) \/ GoesBack(t, l)
<1>1. CASE UNCHANGED ctVars
    BY <1>1 DEF ctVars, store, IndexStays
<1>2. CASE ExpireMarker
    BY <1>2 DEF ExpireMarker, store, IndexStays
<1>3. ASSUME NEW t \in Tasks, Start(t) \/ LateTask(t) \/ Crash(t) PROVE IndexStays
    BY <1>3 DEF Start, LateTask, Crash, store, IndexStays
<1>4. ASSUME NEW t \in Tasks,
             \/ Acquire(t) \/ Recheck(t) \/ LoadList(t) \/ Gather(t) \/ StoreMarker(t) \/ SelectNames(t)
             \/ ReadPage(t) \/ WritePage(t) \/ PublishFresh(t) \/ ReturnTask(t)
      PROVE  IndexStays
    BY <1>4, Zenon DEF Acquire, Recheck, LoadList, Gather, StoreMarker, SelectNames, ReadPage, WritePage,
                       PublishFresh, ReturnTask, store, IndexStays
<1>5. ASSUME NEW t \in Tasks, NEW l \in Logs, ReadHead(t, l) \/ ReadCursor(t, l) \/ FetchEntries(t, l) \/ FetchStatic(t, l)
      PROVE  IndexStays
    BY <1>5, Zenon DEF ReadHead, ReadCursor, FetchEntries, FetchStatic, store, IndexStays
<1>6. ASSUME NEW t \in Tasks, NEW l \in Logs, ResetCursor(t, l)
      PROVE  IndexStays \/ GoesBack(t, l)
    BY <1>6, Zenon DEF ResetCursor, InTask, IndexStays, GoesBack
<1>7. ASSUME NEW t \in Tasks, NEW l \in Logs, NEW c \in {lg[t][l].next, Greater(cursor[l], lg[t][l].next)},
             NEW done, Transact(t, l, c, done), UNCHANGED one,
             InTask(t, l, "commit") \/ InTask(t, l, "mark") \/ InTask(t, l, "tiles")
      PROVE  IndexStays \/ Commits(t, l)
  <2>1. CASE UNCHANGED store
      BY <1>7, <2>1 DEF store, IndexStays
  <2>2. CASE Written(l, lg[t][l], c)
      BY <1>7, <2>2 DEF Commits, InTask
  <2> QED BY <1>7, <2>1, <2>2, Zenon DEF Transact
<1>8. ASSUME NEW t \in Tasks, NEW l \in Logs, CommitLogPage(t, l)
      PROVE  IndexStays \/ Commits(t, l)
  <2>1. PICK done : Transact(t, l, Greater(cursor[l], lg[t][l].next), done)
      BY <1>8, Zenon DEF CommitLogPage
  <2> QED BY <1>7, <1>8, <2>1 DEF CommitLogPage
<1>9. ASSUME NEW t \in Tasks, NEW l \in Logs, CommitMark(t, l)
      PROVE  IndexStays \/ Commits(t, l)
  <2>1. lg[t][l].start = lg[t][l].next
      BY <1>9, PassKnown DEF CommitMark, InTask, InOrder
  <2>2. Transact(t, l, Greater(cursor[l], lg[t][l].next), PassEnded("ok"))
      BY <1>9, <2>1 DEF CommitMark
  <2> QED BY <1>7, <1>9, <2>2 DEF CommitMark
<1>10. ASSUME NEW t \in Tasks, NEW l \in Logs, CommitStatic(t, l)
      PROVE  IndexStays \/ Commits(t, l)
  <2>1. PICK c \in {lg[t][l].next, Greater(cursor[l], lg[t][l].next)} : Transact(t, l, c, PassEnded("ok"))
      BY <1>10, Zenon DEF CommitStatic
  <2> QED BY <1>7, <1>10, <2>1 DEF CommitStatic
<1>11. ASSUME NEW t \in Tasks, LogStep(t)
       PROVE  IndexStays \/ \E l \in Logs : Commits(t, l) \/ GoesBack(t, l)
    BY <1>5, <1>6, <1>8, <1>9, <1>10, <1>11, Zenon DEF LogStep
<1> QED BY <1>1, <1>2, <1>3, <1>4, <1>11, Zenon DEF CtNext, CtStep

(* In one process the covered range of a log has a fixed beginning.        *)
LEMMA StepDoesNotJump ==
    ASSUME CtInv, [CtNext]_ctVars
    PROVE  one => \A l \in Logs : hi[l] # None => lo'[l] = lo[l]
<1>1. CASE IndexStays
    BY <1>1 DEF IndexStays
<1>2. ASSUME NEW t \in Tasks, NEW k \in Logs, Commits(t, k) PROVE one => \A l \in Logs : hi[l] # None => lo'[l] = lo[l]
  <2>1. SUFFICES ASSUME one, NEW l \in Logs, hi[l] # None PROVE lo'[l] = lo[l]
      OBVIOUS
  <2>2. PICK c \in {lg[t][k].next, Greater(cursor[k], lg[t][k].next)} : Written(k, lg[t][k], c)
      BY <1>2, Zenon DEF Commits
  <2>3. lo' = (IF lg[t][k].start > hi[k] THEN [lo EXCEPT ![k] = lg[t][k].start] ELSE lo)
      BY <2>2 DEF Written
  <2>4. lo \in [Logs -> Range0]
      BY DEF CtInv, CtTypeOK
  <2>5. CASE k # l
      BY <2>3, <2>4, <2>5
  <2>6. CASE k = l
    <3>1. lg[t][k].start <= hi[k]
        BY <1>2, <2>1, <2>6, PassKnown DEF Commits, Continues
    <3>2. lg[t][k].start \in Int /\ hi[k] \in Int
        BY PassKnown, RangeLeq
    <3> QED BY <2>3, <3>1, <3>2
  <2> QED BY <2>5, <2>6
<1>3. ASSUME NEW t \in Tasks, NEW k \in Logs, GoesBack(t, k) PROVE UNCHANGED lo
    BY <1>3 DEF GoesBack
<1> QED BY <1>1, <1>2, <1>3, IndexSteps

(* A task that may store the marker has a cursor for every log it selected.*)
LEMMA MarkerIsBacked ==
    ASSUME CtInv, NEW t \in Tasks, TaskAt(t, "marker")
    PROVE  \A l \in tk[t].sel : cursor[l] # None
<1>1. tk[t].sel \subseteq Logs
    BY TaskKnown, TaskFields
<1>2. \A l \in Logs : InOrder(l, lg[t][l])
    BY DEF CtInv, PassesInOrder
<1> QED BY <1>1, <1>2 DEF CtInv, TasksOwe, InOrder

(* The cache becomes fresh by a complete task that has nothing to write.   *)
LEMMA FreshIsWhole ==
    ASSUME CtInv, [CtNext]_ctVars, cache' = "fresh", cache # "fresh"
    PROVE  \E t \in Tasks : TaskAt(t, "write") /\ tk[t].complete /\ tk[t].got \subseteq evid
<1>1. cache' # cache
    OBVIOUS
<1>2. ~ExpireMarker /\ ~UNCHANGED ctVars
    BY <1>1 DEF ExpireMarker, ctVars
<1>3. \A t \in Tasks : ~Start(t) /\ ~LateTask(t) /\ ~Crash(t)
    BY <1>1 DEF Start, LateTask, Crash
<1>4. \A t \in Tasks : ~LogStep(t)
  <2>1. ASSUME NEW t \in Tasks, NEW l \in Logs
        PROVE  /\ ~ReadHead(t, l) /\ ~ReadCursor(t, l) /\ ~ResetCursor(t, l) /\ ~FetchEntries(t, l)
               /\ ~CommitLogPage(t, l) /\ ~CommitMark(t, l) /\ ~FetchStatic(t, l) /\ ~CommitStatic(t, l)
      BY <1>1, Zenon DEF ReadHead, ReadCursor, ResetCursor, FetchEntries, CommitLogPage, CommitMark,
                         FetchStatic, CommitStatic
  <2> QED BY <2>1, Zenon DEF LogStep
<1>5. \A t \in Tasks : /\ ~Acquire(t) /\ ~Recheck(t) /\ ~LoadList(t) /\ ~Gather(t) /\ ~StoreMarker(t)
                       /\ ~SelectNames(t) /\ ~ReadPage(t) /\ ~WritePage(t) /\ ~ReturnTask(t)
    BY <1>1, Zenon DEF Acquire, Recheck, LoadList, Gather, StoreMarker, SelectNames, ReadPage, WritePage, ReturnTask
<1>6. PICK t \in Tasks : PublishFresh(t)
    BY <1>2, <1>3, <1>4, <1>5, Zenon DEF CtNext, CtStep
<1>7. TaskAt(t, "write") /\ tk[t].left = {}
    BY <1>6, Zenon DEF PublishFresh, AllWritten
<1>8. tk[t].complete
    BY <1>6, <1>1 DEF PublishFresh
<1>9. tk[t].got \subseteq evid
    BY <1>7 DEF CtInv, TasksOwe
<1> QED BY <1>7, <1>8, <1>9

(* What the index says of itself is true: no entry of a covered range is   *)
(* skipped, one pass runs at a time in a process, and neither the marker   *)
(* nor the freshness row comes before what it stands for                   *)
(* (ct_monitor.rs, db/enrichment.rs).                                      *)
THEOREM IndexHonest == CtSpec => CtHonest
<1>1. CtInv => NoGap /\ CursorWithin /\ OnePass
    BY DEF CtInv, Durable
<1>2. CtInv /\ [CtNext]_ctVars => [one => \A l \in Logs : hi[l] # None => lo'[l] = lo[l]]_ctVars
    BY StepDoesNotJump
<1>3. CtInv /\ [CtNext]_ctVars =>
          [\A t \in Tasks : TaskAt(t, "marker") /\ marker' # marker /\ marker' =>
               \A l \in tk[t].sel : cursor[l] # None]_ctVars
    BY MarkerIsBacked
<1>4. CtInv /\ [CtNext]_ctVars =>
          [cache' = "fresh" /\ cache # "fresh" =>
               \E t \in Tasks : TaskAt(t, "write") /\ tk[t].complete /\ tk[t].got \subseteq evid]_ctVars
    BY FreshIsWhole
<1> QED BY <1>1, <1>2, <1>3, <1>4, CtInvariant, PTL DEF CtSpec, CtHonest, NoJump, MarkerBacked, FreshWhole

-----------------------------------------------------------------------------
(* The index implements LogIndex.                                          *)

(* A commit covers the entries of its page; a reset rewinds the cursor.    *)
LEMMA StepsImplement ==
    ASSUME CtInv, [CtNext]_ctVars
    PROVE  [L!ANext]_(L!avars)
<1>1. CASE IndexStays
    BY <1>1 DEF IndexStays, L!avars
<1>2. ASSUME NEW t \in Tasks, NEW l \in Logs, Commits(t, l) PROVE L!ANext
  <2> DEFINE q == lg[t][l]
  <2>1. PICK c \in {q.next, Greater(cursor[l], q.next)} : Written(l, q, c)
      BY <1>2, Zenon DEF Commits
  <2>2. /\ q.start \in 0..MaxTree /\ q.next \in 0..MaxTree /\ q.start <= q.next
        /\ hi[l] \in Range0 \cup {None} /\ cursor[l] \in Range0 \cup {None}
      BY PassKnown DEF InOrder, Range0
  <2>3. q.start <= hi[l] \/ hi[l] = L!None \/ ~one
      BY <1>2, PassKnown DEF Commits, Continues, None, L!None
  <2>4. cursor' \in {[cursor EXCEPT ![l] = q.next], [cursor EXCEPT ![l] = IF @ > q.next THEN @ ELSE q.next]}
      BY <2>1 DEF Written, Greater
  <2>5. /\ index' = index \cup L!Held(l, q.start, q.next)
        /\ lo' = IF q.start > hi[l] THEN [lo EXCEPT ![l] = q.start] ELSE lo
        /\ hi' = IF q.next > hi[l] THEN [hi EXCEPT ![l] = q.next] ELSE hi
      BY <2>1 DEF Written, Held, L!Held
  <2>6. UNCHANGED one
      BY <1>2 DEF Commits
  <2>7. L!Cover(l, q.start, q.next)
      BY <2>2, <2>3, <2>4, <2>5, <2>6 DEF L!Cover
  <2> QED BY <2>2, <2>7 DEF L!ANext
<1>3. ASSUME NEW t \in Tasks, NEW l \in Logs, GoesBack(t, l) PROVE L!ANext
  <2>1. lg[t][l].start \in 0..MaxTree /\ lg[t][l].start <= hi[l]
      BY <1>3, PassKnown DEF GoesBack, InOrder, Range0
  <2>2. L!Rewind(l, lg[t][l].start)
      BY <1>3, <2>1 DEF GoesBack, L!Rewind
  <2> QED BY <2>1, <2>2 DEF L!ANext
<1> QED BY <1>1, <1>2, <1>3, IndexSteps

(* Pages, tiles, resets, cancelled commits and crashes, of tasks in one    *)
(* process or several, are steps of LogIndex or none.                      *)
THEOREM IndexImplements == CtSpec => Implements
<1>1. CtInit => L!AInit
    BY CtAssumption DEF CtInit, L!AInit, None, L!None
<1>2. CtInv /\ [CtNext]_ctVars => [L!ANext]_(L!avars)
    BY StepsImplement
<1> QED BY <1>1, <1>2, CtInvariant, PTL DEF CtSpec, Implements, L!ASpec

=============================================================================

------------------------- MODULE ScanLifecycleProofs -------------------------
(***************************************************************************)
(* Ownership of scans, proved for any number of processes and scans: with  *)
(* a heartbeat shorter than the lease, a scan has at most one living owner *)
(* and no other process touches it.                                        *)
(***************************************************************************)
EXTENDS ScanLifecycle, TLAPS

Refreshing(p) == pr[p].job = "refresh" /\ pr[p].pc \in {"check", "rclose", "rrun", "rfinal"}
Holding(p) == Owning(p) \/ Refreshing(p)

\* A process that has created or found a scan knows its id.
Named == \A p \in Procs : pr[p].pc \notin {"off", "new", "find"} => pr[p].id \in Scans

\* Scan ids are given out in order, and a process works on one that exists.
Ids ==
    /\ \A i \in Scans : i > top => scan[i].st = "none" /\ ckpt[i].st = "none" /\ rows[i] = {}
    /\ \A p \in Procs : pr[p].id <= top

\* The program counter tells a refresh from a scan.
Jobs ==
    \A p \in Procs :
        /\ pr[p].pc \in {"find", "found", "supersede", "prune_new", "run", "fail", "prune_end", "stop"}
            => pr[p].job # "refresh"
        /\ pr[p].pc \in {"rclose", "rrun", "rfinal"} => pr[p].job = "refresh"

\* A refresh has no queue, and only its own process completes it.
Kinds ==
    /\ \A i \in Scans : scan[i].kind = "refresh" => rows[i] = {}
    /\ \A p \in Procs :
        /\ Owning(p) => scan[pr[p].id].kind = "scan"
        /\ Refreshing(p) => scan[pr[p].id].kind = "refresh" /\ scan[pr[p].id].st # "completed"

Sole == \A p, q \in Procs : p # q /\ Holding(p) /\ Holding(q) => pr[p].id # pr[q].id

\* The lease of an owner is as fresh as its last heartbeat; before the first
\* checkpoint the start of the scan stands for it.
Leased ==
    \A p \in Procs : Owning(p) =>
        /\ scan[pr[p].id].st = "running"
        /\ \/ ckpt[pr[p].id].st = "open" /\ ckpt[pr[p].id].age <= pr[p].beat
           \/ At(p, "check") /\ ckpt[pr[p].id].st = "none" /\ scan[pr[p].id].age <= pr[p].beat

Work == \A i \in Scans : "seeds" \in rows[i] => ckpt[i].st = "open"

Safe == Ids /\ Jobs /\ Kinds /\ Sole /\ Leased /\ Work

-----------------------------------------------------------------------------
(* Types.                                                                  *)

LEMMA TypeInit == Init => TypeOK /\ Named
  BY BoundAssumption, TimeAssumption
  DEF Init, TypeOK, Scans, ScanRow, ScanStatus, CkptRow, Ages, Process, ProcPCs, Outcomes, Idle, Named

\* Updates of one scan, one checkpoint and one process keep the types.
LEMMA StatusTyped ==
    ASSUME TypeOK, NEW i, NEW st \in ScanStatus
    PROVE [scan EXCEPT ![i].st = st] \in [Scans -> ScanRow]
  BY DEF TypeOK, ScanRow

LEMMA Zeros == 0 \in Ages /\ 0 \in 0..Beat /\ 0 \in 0..MaxScan /\ Scans \subseteq 0..MaxScan
  BY BoundAssumption, TimeAssumption DEF Ages, Scans

LEMMA CkptTyped ==
    ASSUME TypeOK, NEW i, NEW st \in {"open", "closed"}
    PROVE [ckpt EXCEPT ![i] = [st |-> st, age |-> 0]] \in [Scans -> CkptRow]
<1>1. [st |-> st, age |-> 0] \in CkptRow
  BY Zeros DEF CkptRow
<1> QED BY <1>1 DEF TypeOK

LEMMA UpsertTyped == ASSUME TypeOK, NEW i PROVE Upsert(i) \in [Scans -> CkptRow]
  BY CkptTyped DEF Upsert, TypeOK

LEMMA BecomeTyped ==
    ASSUME TypeOK, NEW p \in Procs, NEW r \in Process, Become(p, r)
    PROVE pr' \in [Procs -> Process]
  BY DEF TypeOK, Become

LEMMA IdleProcess == Idle \in Process
  BY Zeros DEF Idle, Process, ProcPCs, Outcomes

LEMMA IdleTyped == ASSUME TypeOK, NEW p \in Procs, Become(p, Idle) PROVE pr' \in [Procs -> Process]
  BY IdleProcess, BecomeTyped

LEMMA StartTyped ==
    ASSUME NEW r \in Process, NEW pc \in ProcPCs, NEW i \in 0..MaxScan, NEW b \in 0..Beat
    PROVE /\ [r EXCEPT !.pc = pc, !.id = i, !.beat = b] \in Process
          /\ [r EXCEPT !.pc = pc, !.id = i] \in Process
          /\ [r EXCEPT !.pc = pc, !.beat = b] \in Process
  BY DEF Process

LEMMA GotoTyped ==
    ASSUME TypeOK, NEW p \in Procs, NEW pc \in ProcPCs, Goto(p, pc)
    PROVE pr' \in [Procs -> Process]
<1>1. [pr[p] EXCEPT !.pc = pc] \in Process
  BY DEF TypeOK, Process
<1> QED BY <1>1, BecomeTyped DEF Goto

LEMMA BeatTyped ==
    ASSUME TypeOK, NEW p \in Procs, NEW pc \in ProcPCs, NEW b \in 0..Beat,
           Become(p, [pr[p] EXCEPT !.beat = b, !.pc = pc])
    PROVE pr' \in [Procs -> Process]
<1>1. [pr[p] EXCEPT !.beat = b, !.pc = pc] \in Process
  BY DEF TypeOK, Process
<1> QED BY <1>1, BecomeTyped

LEMMA TypeNext == TypeOK /\ Named /\ [Next]_vars => TypeOK'
<1> SUFFICES ASSUME TypeOK, Named, [Next]_vars PROVE TypeOK'
  OBVIOUS
<1> USE BoundAssumption, TimeAssumption
<1>1. ASSUME NEW p \in Procs, Open(p) PROVE TypeOK'
  <2>1. scan' \in [Scans -> ScanRow]
    BY <1>1 DEF Open, TypeOK, ScanRow, ScanStatus
  <2>2. pr' \in [Procs -> Process]
    <3>1. ASSUME NEW job \in {"new", "refresh"} PROVE [Idle EXCEPT !.pc = "new", !.job = job] \in Process
      BY IdleProcess DEF Process, ProcPCs
    <3>2. [Idle EXCEPT !.pc = "find", !.job = "resume"] \in Process
      BY IdleProcess DEF Process, ProcPCs
    <3> QED BY <1>1, <3>1, <3>2, BecomeTyped DEF Open, TypeOK
  <2> QED BY <1>1, <2>1, <2>2 DEF Open, TypeOK
<1>2. ASSUME NEW p \in Procs, CreateScan(p) PROVE TypeOK'
  <2>1. scan' \in [Scans -> ScanRow]
    <3>1. ASSUME NEW k \in {"scan", "refresh"} PROVE [st |-> "running", kind |-> k, age |-> 0] \in ScanRow
      BY Zeros DEF ScanRow, ScanStatus
    <3> QED BY <1>2, <3>1 DEF CreateScan, TypeOK
  <2>2. [pr[p] EXCEPT !.pc = "check", !.id = top + 1, !.beat = 0] \in Process
    <3>1. top + 1 \in 0..MaxScan /\ pr[p] \in Process /\ "check" \in ProcPCs
      BY <1>2 DEF CreateScan, TypeOK, ProcPCs
    <3> QED BY <3>1, Zeros, StartTyped
  <2>3. pr' \in [Procs -> Process]
    BY <1>2, <2>2, BecomeTyped DEF CreateScan
  <2> QED BY <1>2, <2>1, <2>3 DEF CreateScan, TypeOK, refresh
<1>3. ASSUME NEW p \in Procs, FindCheckpoint(p) PROVE TypeOK'
  <2>1. ASSUME NEW i \in Scans PROVE [pr[p] EXCEPT !.pc = "found", !.id = i] \in Process
    <3>1. i \in 0..MaxScan /\ pr[p] \in Process /\ "found" \in ProcPCs
      BY Zeros DEF TypeOK, ProcPCs
    <3> QED BY <3>1, Zeros, StartTyped
  <2>2. pr' \in [Procs -> Process]
    BY <1>3, <2>1, BecomeTyped, IdleTyped DEF FindCheckpoint
  <2> QED BY <1>3, <2>2 DEF FindCheckpoint, TypeOK, refresh
<1>4. ASSUME NEW p \in Procs, ReopenScan(p) PROVE TypeOK'
  <2>0. pr[p].id \in Scans
    BY <1>4 DEF ReopenScan, At, Named
  <2>1. scan' \in [Scans -> ScanRow]
    <3>1. scan' = scan \/ scan' = [scan EXCEPT ![pr[p].id].st = "running"]
      BY <1>4 DEF ReopenScan
    <3>2. [scan EXCEPT ![pr[p].id].st = "running"] \in [Scans -> ScanRow]
      BY StatusTyped DEF ScanStatus
    <3> QED BY <3>1, <3>2 DEF TypeOK
  <2>4. ckpt' \in [Scans -> CkptRow]
    <3>1. ckpt' = ckpt \/ ckpt' = [ckpt EXCEPT ![pr[p].id].age = 0]
      BY <1>4 DEF ReopenScan
    <3>2. [ckpt EXCEPT ![pr[p].id].age = 0] \in [Scans -> CkptRow]
      BY Zeros DEF TypeOK, CkptRow
    <3> QED BY <3>1, <3>2 DEF TypeOK
  <2>2. [pr[p] EXCEPT !.pc = "check", !.beat = 0] \in Process
    <3>1. pr[p] \in Process /\ "check" \in ProcPCs
      BY DEF TypeOK, ProcPCs
    <3> QED BY <3>1, Zeros, StartTyped
  <2>3. pr' \in [Procs -> Process]
    BY <1>4, <2>2, BecomeTyped, IdleTyped DEF ReopenScan
  <2> QED BY <1>4, <2>1, <2>4, <2>3 DEF ReopenScan, TypeOK, refresh
<1>5. ASSUME NEW p \in Procs, FirstCheckpoint(p) PROVE TypeOK'
  <2>1. ckpt' \in [Scans -> CkptRow]
    BY <1>5, UpsertTyped DEF FirstCheckpoint
  <2>2. pr' \in [Procs -> Process]
    <3> DEFINE pc == CASE pr[p].job = "new" -> "supersede"
                       [] pr[p].job = "resume" -> "run"
                       [] OTHER -> "rclose"
    <3>1. pc \in ProcPCs
      BY DEF ProcPCs
    <3>2. Become(p, [pr[p] EXCEPT !.beat = 0, !.pc = pc])
      BY <1>5 DEF FirstCheckpoint
    <3> HIDE DEF pc
    <3> QED BY <3>1, <3>2, Zeros, BeatTyped
  <2> QED BY <1>5, <2>1, <2>2 DEF FirstCheckpoint, TypeOK, refresh
<1>6. ASSUME NEW p \in Procs, Supersede(p) PROVE TypeOK'
  <2>1. /\ scan' \in [Scans -> ScanRow] /\ ckpt' \in [Scans -> CkptRow]
        /\ rows' \in [Scans -> SUBSET {"seeds", "cands"}]
    <3>1. \A i \in Scans : [scan[i] EXCEPT !.st = "superseded"] \in ScanRow
      BY DEF TypeOK, ScanRow, ScanStatus
    <3>2. [st |-> "closed", age |-> 0] \in CkptRow
      BY Zeros DEF CkptRow
    <3> QED BY <1>6, <3>1, <3>2 DEF Supersede, TypeOK
  <2>2. pr' \in [Procs -> Process]
    BY <1>6, GotoTyped DEF Supersede, ProcPCs
  <2> QED BY <1>6, <2>1, <2>2 DEF Supersede, TypeOK, refresh
<1>7. ASSUME NEW p \in Procs, PruneQueues(p) PROVE TypeOK'
  <2>1. rows' \in [Scans -> SUBSET {"seeds", "cands"}]
    BY <1>7 DEF PruneQueues, TypeOK
  <2>2. pr' \in [Procs -> Process]
    BY <1>7, GotoTyped DEF PruneQueues, ProcPCs
  <2> QED BY <1>7, <2>1, <2>2 DEF PruneQueues, TypeOK, refresh
<1>8. ASSUME NEW p \in Procs, Heartbeat(p) PROVE TypeOK'
  <2>1. [pr[p] EXCEPT !.beat = 0] \in Process
    BY DEF TypeOK, Process
  <2>2. pr' \in [Procs -> Process]
    BY <1>8, <2>1, BecomeTyped DEF Heartbeat
  <2> QED BY <1>8, <2>2, UpsertTyped DEF Heartbeat, TypeOK, refresh
<1>9. ASSUME NEW p \in Procs, Produce(p) PROVE TypeOK'
  BY <1>9 DEF Produce, TypeOK, refresh
<1>10. ASSUME NEW p \in Procs, PauseScan(p) PROVE TypeOK'
  <2>1. scan' \in [Scans -> ScanRow] /\ ckpt' \in [Scans -> CkptRow]
    BY <1>10, StatusTyped, CkptTyped DEF PauseScan, TypeOK, ScanStatus
  <2>2. pr' \in [Procs -> Process]
    BY <1>10, GotoTyped DEF PauseScan, ProcPCs
  <2> QED BY <1>10, <2>1, <2>2 DEF PauseScan, TypeOK, refresh
<1>11. ASSUME NEW p \in Procs, FinalizeScan(p) PROVE TypeOK'
  <2>1. scan' = scan \/ scan' = [scan EXCEPT ![pr[p].id].st = "completed"]
    BY <1>11 DEF FinalizeScan
  <2>2. ckpt' = ckpt \/ ckpt' = [ckpt EXCEPT ![pr[p].id] = [st |-> "closed", age |-> 0]]
    BY <1>11 DEF FinalizeScan
  <2>3. scan' \in [Scans -> ScanRow] /\ ckpt' \in [Scans -> CkptRow]
    <3>1. [scan EXCEPT ![pr[p].id].st = "completed"] \in [Scans -> ScanRow]
      BY StatusTyped DEF ScanStatus
    <3>2. [ckpt EXCEPT ![pr[p].id] = [st |-> "closed", age |-> 0]] \in [Scans -> CkptRow]
      BY CkptTyped
    <3> QED BY <2>1, <2>2, <3>1, <3>2 DEF TypeOK
  <2>4. pr' \in [Procs -> Process]
    BY <1>11, GotoTyped DEF FinalizeScan, ProcPCs
  <2>5. rows' \in [Scans -> SUBSET {"seeds", "cands"}] /\ learned' \in SUBSET Scans
    BY <1>11 DEF FinalizeScan, TypeOK, Named, At
  <2> QED BY <1>11, <2>3, <2>4, <2>5 DEF FinalizeScan, TypeOK, refresh
<1>12. ASSUME NEW p \in Procs, RunError(p) PROVE TypeOK'
  BY <1>12, GotoTyped DEF RunError, TypeOK, refresh, ProcPCs
<1>13. ASSUME NEW p \in Procs, FailScan(p) PROVE TypeOK'
  <2>1. scan' \in [Scans -> ScanRow]
    <3>1. [scan EXCEPT ![pr[p].id].st = "failed"] \in [Scans -> ScanRow]
      BY StatusTyped DEF ScanStatus
    <3>2. [scan EXCEPT ![pr[p].id].st = "interrupted"] \in [Scans -> ScanRow]
      BY StatusTyped DEF ScanStatus
    <3> QED BY <1>13, <3>1, <3>2 DEF FailScan
  <2> QED BY <1>13, <2>1, GotoTyped DEF FailScan, TypeOK, refresh, ProcPCs
<1>14. ASSUME NEW p \in Procs, CancelScan(p) PROVE TypeOK'
  <2>1. scan' \in [Scans -> ScanRow]
    BY <1>14, StatusTyped DEF CancelScan, ScanStatus
  <2> QED BY <1>14, <2>1, IdleTyped DEF CancelScan, TypeOK, refresh
<1>15. ASSUME NEW p \in Procs, Stop(p) \/ Kill(p) PROVE TypeOK'
  BY <1>15, IdleTyped DEF Stop, Kill, TypeOK, refresh
<1>16. ASSUME NEW p \in Procs, CloseRefresh(p) PROVE TypeOK'
  <2>1. ckpt' \in [Scans -> CkptRow]
    BY <1>16, CkptTyped DEF CloseRefresh, TypeOK
  <2> QED BY <1>16, <2>1, GotoTyped DEF CloseRefresh, TypeOK, refresh, ProcPCs
<1>17. ASSUME NEW p \in Procs, StageWildcards(p) PROVE TypeOK'
  BY <1>17 DEF StageWildcards, TypeOK, Named, At
<1>18. ASSUME NEW p \in Procs, ApplyStaged(p) \/ DiscardStaged(p) PROVE TypeOK'
  <2>1. ASSUME NEW out \in Outcomes PROVE [pr[p] EXCEPT !.pc = "rfinal", !.out = out] \in Process
    BY DEF TypeOK, Process, ProcPCs
  <2>2. pr' \in [Procs -> Process]
    BY <1>18, <2>1, BecomeTyped DEF ApplyStaged, DiscardStaged, Outcomes
  <2> QED BY <1>18, <2>2 DEF ApplyStaged, DiscardStaged, TypeOK
<1>19. ASSUME NEW p \in Procs, FinishRefresh(p) PROVE TypeOK'
  <2>1. pr[p].out \in ScanStatus
    BY DEF TypeOK, Process, Outcomes, ScanStatus
  <2>2. scan' \in [Scans -> ScanRow]
    BY <1>19, <2>1, StatusTyped DEF FinishRefresh
  <2>3. ckpt' \in [Scans -> CkptRow]
    BY <1>19, CkptTyped DEF FinishRefresh, TypeOK
  <2> QED BY <1>19, <2>2, <2>3, IdleTyped DEF FinishRefresh, TypeOK, refresh
<1>20. ASSUME Tick PROVE TypeOK'
  <2>1. scan' \in [Scans -> ScanRow] /\ ckpt' \in [Scans -> CkptRow]
    <3>1. \A a \in Ages : Older(a) \in Ages
      BY DEF Ages, Older
    <3>2. \A i \in Scans : [scan[i] EXCEPT !.age = Older(@)] \in ScanRow
      BY <3>1 DEF TypeOK, ScanRow
    <3>3. \A i \in Scans : [ckpt[i] EXCEPT !.age = Older(@)] \in CkptRow
      BY <3>1 DEF TypeOK, CkptRow
    <3> QED BY <1>20, <3>2, <3>3 DEF Tick
  <2>2. ASSUME NEW p \in Procs, SettingUp(p) \/ Beating(p) PROVE [pr[p] EXCEPT !.beat = @ + 1] \in Process
    <3>1. pr[p] \in Process /\ pr[p].beat \in 0..Beat
      BY DEF TypeOK, Process
    <3>2. pr[p].beat + 1 \in 0..Beat
      BY <1>20, <2>2, <3>1 DEF Tick
    <3> QED BY <3>1, <3>2 DEF Process
  <2>3. pr' \in [Procs -> Process]
    BY <1>20, <2>2 DEF Tick, TypeOK
  <2> QED BY <1>20, <2>1, <2>3 DEF Tick, TypeOK, refresh
<1>21. CASE UNCHANGED vars
  BY <1>21 DEF TypeOK, vars, refresh
<1> QED
  BY <1>1, <1>2, <1>3, <1>4, <1>5, <1>6, <1>7, <1>8, <1>9, <1>10, <1>11, <1>12, <1>13, <1>14, <1>15,
     <1>16, <1>17, <1>18, <1>19, <1>20, <1>21 DEF Next, Setup, Run, Refresh

-----------------------------------------------------------------------------
(* The ownership invariant.                                                *)

\* What a process becomes, and that the others stay as they are.
LEMMA Becomes ==
    ASSUME TypeOK, NEW p \in Procs, NEW r, Become(p, r)
    PROVE pr'[p] = r /\ \A q \in Procs : q # p => pr'[q] = pr[q]
  BY DEF TypeOK, Become

LEMMA Goes ==
    ASSUME TypeOK, NEW p \in Procs, NEW pc, Goto(p, pc)
    PROVE /\ pr'[p].pc = pc /\ pr'[p].id = pr[p].id /\ pr'[p].job = pr[p].job /\ pr'[p].beat = pr[p].beat
          /\ \A q \in Procs : q # p => pr'[q] = pr[q]
  BY DEF TypeOK, Goto, Become, Process

\* A process that gives up its scan leaves the invariant to the others.
LEMMA Leaves ==
    ASSUME TypeOK, NEW p \in Procs, Become(p, Idle)
    PROVE /\ pr'[p].pc = "off" /\ pr'[p].id = 0
          /\ \A q \in Procs : q # p => pr'[q] = pr[q]
  BY Becomes DEF Idle

LEMMA CkptSet ==
    ASSUME TypeOK, NEW i, NEW st, ckpt' = [ckpt EXCEPT ![i] = [st |-> st, age |-> 0]]
    PROVE \A j \in Scans : IF j = i THEN ckpt'[j].st = st /\ ckpt'[j].age = 0 ELSE ckpt'[j] = ckpt[j]
  BY DEF TypeOK

LEMMA Upserted ==
    ASSUME TypeOK, NEW i, ckpt' = Upsert(i)
    PROVE \A j \in Scans :
            IF j = i /\ scan[i].st = "running" /\ ckpt[i].st # "closed"
            THEN ckpt'[j].st = "open" /\ ckpt'[j].age = 0 ELSE ckpt'[j] = ckpt[j]
  BY CkptSet DEF Upsert

\* Finished work stays finished in this step.
Finished ==
    \A i \in Scans : /\ scan[i].st = "completed" => scan'[i].st = "completed"
                     /\ ckpt[i].st = "closed" => ckpt'[i].st = "closed"

\* Nobody else may take, interrupt or supersede a protected scan.
Protected(i) ==
    /\ i \in Scans /\ scan[i].st = "running" /\ scan[i].kind = "scan"
    /\ ~Abandoned(i) /\ ~Reopenable(i) /\ \A k : ~Supersedable(i, k)

\* The lease of a living owner has not run out.
LEMMA OwnerSafe ==
    ASSUME TypeOK, Named, Safe, Beat < Lease, NEW p \in Procs, Owning(p)
    PROVE Protected(pr[p].id)
<1>1. pr[p].id \in Scans /\ scan[pr[p].id].kind = "scan"
  BY DEF Named, Owning, Safe, Kinds
<1>2. pr[p].beat \in 0..Beat /\ ckpt[pr[p].id].age \in Nat /\ scan[pr[p].id].age \in Nat
  BY <1>1, TimeAssumption DEF TypeOK, Process, CkptRow, ScanRow, Ages
<1>3. /\ scan[pr[p].id].st = "running"
      /\ \/ ckpt[pr[p].id].st = "open" /\ ckpt[pr[p].id].age < Lease
         \/ ckpt[pr[p].id].st = "none" /\ scan[pr[p].id].age < Lease
  BY <1>2, TimeAssumption DEF Safe, Leased
<1> QED
  BY <1>1, <1>2, <1>3, TimeAssumption DEF Protected, Abandoned, Reopenable, Supersedable, Stale

LEMMA SafeNext == TypeOK /\ Named /\ Safe /\ Beat < Lease /\ [Next]_vars => Safe' /\ Finished
<1> SUFFICES ASSUME TypeOK, Named, Safe, Beat < Lease, [Next]_vars PROVE Safe' /\ Finished
  OBVIOUS
<1> USE BoundAssumption, TimeAssumption
<1>0. \A q \in Procs : Owning(q) => Protected(pr[q].id)
  BY OwnerSafe
<1>t. top \in Nat /\ \A q \in Procs : pr[q] \in Process /\ pr[q].id \in Nat /\ pr[q].beat \in Nat
  BY DEF TypeOK, Process
<1>s. \A i \in Scans : i \in Nat
  BY DEF Scans
<1>1. ASSUME NEW p \in Procs, Open(p) PROVE Safe' /\ Finished
  <2>1. /\ At(p, "off") /\ (\A q \in Procs : q # p => pr'[q] = pr[q])
        /\ \/ pr'[p] = pr[p]
           \/ \E job \in {"new", "refresh"} : pr'[p] = [Idle EXCEPT !.pc = "new", !.job = job]
           \/ pr'[p] = [Idle EXCEPT !.pc = "find", !.job = "resume"]
    BY <1>1, Becomes DEF Open
  <2>2. /\ At(p, "off") /\ (\A q \in Procs : q # p => pr'[q] = pr[q])
        /\ \/ pr'[p] = pr[p]
           \/ pr'[p].pc \in {"new", "find"} /\ pr'[p].id = 0 /\ (pr'[p].pc = "find" => pr'[p].job = "resume")
    BY <2>1 DEF Idle
  <2>3. \A i \in Scans : /\ scan'[i].kind = scan[i].kind /\ scan'[i].age = scan[i].age
                             /\ scan'[i].st = IF Abandoned(i) THEN "interrupted" ELSE scan[i].st
    BY <1>1 DEF Open, TypeOK, ScanRow
  <2>4. UNCHANGED <<ckpt, rows, top>> /\ \A i \in Scans : Abandoned(i) => scan[i].st = "running"
    BY <1>1 DEF Open, Abandoned
  <2>5. Jobs'
    BY <2>2, <2>3, <2>4 DEF Jobs, Safe, At
  <2>6. Ids'
    BY <2>2, <2>3, <2>4, <1>t, <1>s DEF Ids, Safe
  <2>7. Kinds'
    BY <2>2, <2>3, <2>4 DEF Kinds, Safe, Named, At, Owning, Refreshing
  <2>8. Sole'
    BY <2>2, <2>3, <2>4 DEF Sole, Safe, At, Owning, Refreshing, Holding
  <2>9. Leased'
    BY <2>2, <2>3, <2>4, <1>0, <1>t DEF Leased, Sole, Kinds, Jobs, Named, Safe, At, Owning, Refreshing, Holding, Protected
  <2>10. Work'
    BY <2>2, <2>3, <2>4 DEF Work, Safe
  <2>11. Finished
    BY <2>2, <2>3, <2>4 DEF Finished
  <2> QED BY <2>5, <2>6, <2>7, <2>8, <2>9, <2>10, <2>11 DEF Safe
<1>2. ASSUME NEW p \in Procs, CreateScan(p) PROVE Safe' /\ Finished
  <2>1. At(p, "new") /\ (\A q \in Procs : q # p => pr'[q] = pr[q])
        /\ pr'[p] = [pr[p] EXCEPT !.pc = "check", !.id = top + 1, !.beat = 0]
    BY <1>2, Becomes DEF CreateScan
  <2>2. /\ At(p, "new") /\ pr'[p].pc = "check" /\ pr'[p].id = top + 1 /\ pr'[p].job = pr[p].job
        /\ pr'[p].beat = 0 /\ (\A q \in Procs : q # p => pr'[q] = pr[q])
    BY <2>1, <1>t DEF Process
  <2>3. top + 1 \in Scans /\ top' = top + 1 /\ top \in Nat /\ UNCHANGED <<ckpt, rows>>
    BY <1>2 DEF CreateScan, TypeOK, Scans
  <2>4. /\ \A i \in Scans : i # top + 1 => scan'[i] = scan[i]
        /\ scan'[top + 1].st = "running" /\ scan'[top + 1].age = 0
        /\ scan'[top + 1].kind = IF pr[p].job = "refresh" THEN "refresh" ELSE "scan"
    BY <1>2, <2>3 DEF CreateScan, TypeOK
  <2>5. \A q \in Procs : pr[q].id # top + 1
    BY <2>3, <1>t DEF Safe, Ids
  <2>6. rows[top + 1] = {} /\ ckpt[top + 1].st = "none" /\ scan[top + 1].st = "none"
    BY <2>3 DEF Safe, Ids, Scans
  <2>7. Jobs'
    BY <2>2, <2>3, <2>4, <2>5, <2>6 DEF Jobs, Safe, At
  <2>8. Ids'
    BY <2>2, <2>3, <2>4, <2>5, <2>6, <1>t, <1>s DEF Ids, Safe
  <2>9. Kinds'
    BY <2>2, <2>3, <2>4, <2>5, <2>6 DEF Kinds, Safe, Named, At, Owning, Refreshing
  <2>10. Sole'
    BY <2>2, <2>3, <2>4, <2>5, <2>6 DEF Sole, Safe, At, Owning, Refreshing, Holding
  <2>11. Leased'
    BY <2>2, <2>3, <2>4, <2>5, <2>6, <1>t DEF Leased, Safe, Named, At, Owning
  <2>12. Work'
    BY <2>2, <2>3, <2>4, <2>5, <2>6 DEF Work, Safe
  <2>13. Finished
    BY <2>2, <2>3, <2>4, <2>5, <2>6 DEF Finished
  <2> QED BY <2>7, <2>8, <2>9, <2>10, <2>11, <2>12, <2>13 DEF Safe
<1>3. ASSUME NEW p \in Procs, FindCheckpoint(p) PROVE Safe' /\ Finished
  <2>1. UNCHANGED <<scan, ckpt, rows, top>>
    BY <1>3 DEF FindCheckpoint
  <2>2. At(p, "find") /\ (\A q \in Procs : q # p => pr'[q] = pr[q])
        /\ \/ pr'[p] = Idle
           \/ \E i \in Scans : ckpt[i].st = "open" /\ pr'[p] = [pr[p] EXCEPT !.pc = "found", !.id = i]
    BY <1>3, Becomes DEF FindCheckpoint
  <2>3. /\ At(p, "find") /\ (\A q \in Procs : q # p => pr'[q] = pr[q])
        /\ \/ pr'[p].pc = "off" /\ pr'[p].id = 0
           \/ pr'[p].pc = "found" /\ pr'[p].id \in Scans /\ ckpt[pr'[p].id].st = "open" /\ pr'[p].job = pr[p].job
    <3>1. CASE pr'[p] = Idle
      BY <2>2, <3>1 DEF Idle
    <3>2. ASSUME NEW i \in Scans, ckpt[i].st = "open", pr'[p] = [pr[p] EXCEPT !.pc = "found", !.id = i]
          PROVE pr'[p].pc = "found" /\ pr'[p].id = i /\ pr'[p].job = pr[p].job
      BY <3>2, <1>t DEF Process
    <3> QED BY <2>2, <3>1, <3>2
  <2>4. Jobs' /\ Ids' /\ Work' /\ Finished
    BY <2>1, <2>3, <1>t, <1>s DEF Jobs, Ids, Work, Finished, Safe, At
  <2>5. Kinds' /\ Sole' /\ Leased'
    BY <2>1, <2>3, <1>0 DEF Kinds, Sole, Leased, Jobs, Named, Safe, At, Owning, Refreshing, Holding, Protected
  <2> QED BY <2>4, <2>5 DEF Safe
<1>4. ASSUME NEW p \in Procs, ReopenScan(p) PROVE Safe' /\ Finished
  <2>1. pr[p].id \in Scans /\ UNCHANGED <<rows, top>> /\ At(p, "found")
    BY <1>4 DEF ReopenScan, Named, At
  <2>2. /\ (\A q \in Procs : q # p => pr'[q] = pr[q])
        /\ \/ pr'[p] = Idle /\ UNCHANGED <<scan, ckpt>>
           \/ /\ pr'[p] = [pr[p] EXCEPT !.pc = "check", !.beat = 0]
              /\ scan[pr[p].id].kind = "scan" /\ Reopenable(pr[p].id)
              /\ scan' = [scan EXCEPT ![pr[p].id].st = "running"]
              /\ ckpt' = [ckpt EXCEPT ![pr[p].id].age = 0]
    BY <1>4, Becomes DEF ReopenScan
  <2>3. \/ pr'[p].pc = "off" /\ pr'[p].id = 0 /\ UNCHANGED <<scan, ckpt>>
        \/ /\ pr'[p].pc = "check" /\ pr'[p].id = pr[p].id /\ pr'[p].job = pr[p].job /\ pr'[p].beat = 0
           /\ scan[pr[p].id].kind = "scan" /\ Reopenable(pr[p].id) /\ scan'[pr[p].id].st = "running"
           /\ ckpt'[pr[p].id].st = "open" /\ ckpt'[pr[p].id].age = 0
    <3>1. CASE pr'[p] = Idle /\ UNCHANGED <<scan, ckpt>>
      BY <3>1 DEF Idle
    <3>2. CASE /\ pr'[p] = [pr[p] EXCEPT !.pc = "check", !.beat = 0]
               /\ scan[pr[p].id].kind = "scan" /\ Reopenable(pr[p].id)
               /\ scan' = [scan EXCEPT ![pr[p].id].st = "running"]
               /\ ckpt' = [ckpt EXCEPT ![pr[p].id].age = 0]
      <4>1. pr'[p].pc = "check" /\ pr'[p].id = pr[p].id /\ pr'[p].job = pr[p].job /\ pr'[p].beat = 0
        BY <3>2, <1>t DEF Process
      <4>2. scan'[pr[p].id].st = "running"
        BY <2>1, <3>2 DEF TypeOK, ScanRow
      <4>3. ckpt'[pr[p].id].st = "open" /\ ckpt'[pr[p].id].age = 0
        BY <2>1, <3>2 DEF TypeOK, CkptRow, Reopenable
      <4> QED BY <3>2, <4>1, <4>2, <4>3
    <3> QED BY <2>2, <3>1, <3>2
  <2>4. /\ \A j \in Scans : j # pr[p].id => scan'[j] = scan[j] /\ ckpt'[j] = ckpt[j]
        /\ scan'[pr[p].id].kind = scan[pr[p].id].kind
    BY <2>1, <2>2 DEF TypeOK, ScanRow
  <2>5. (\A q \in Procs : q # p => pr'[q] = pr[q])
    BY <2>2
  <2>6. Jobs'
    BY <2>1, <2>3, <2>4, <2>5 DEF Jobs, Safe, At
  <2>7. Ids'
    BY <2>1, <2>3, <2>4, <2>5, <1>t, <1>s DEF Ids, Safe
  <2>8. Kinds'
    BY <2>1, <2>3, <2>4, <2>5, <1>0 DEF Kinds, Safe, Named, Jobs, At, Owning, Refreshing, Holding, Protected
  <2>9. Sole'
    BY <2>1, <2>3, <2>4, <2>5, <1>0 DEF Sole, Kinds, Jobs, Safe, At, Owning, Refreshing, Holding, Protected
  <2>10. Leased'
    BY <2>1, <2>3, <2>4, <2>5, <1>t DEF Leased, Safe, Named, At, Owning
  <2>11. Work'
    BY <2>1, <2>3, <2>4, <2>5 DEF Work, Safe
  <2>12. Finished
    BY <2>1, <2>3, <2>4, <2>5, <1>0 DEF Finished, Leased, Kinds, Safe, Abandoned, Reopenable, Supersedable, At, Owning, Protected
  <2> QED BY <2>6, <2>7, <2>8, <2>9, <2>10, <2>11, <2>12 DEF Safe
<1>5. ASSUME NEW p \in Procs, FirstCheckpoint(p) PROVE Safe' /\ Finished
  <2>1. At(p, "check") /\ UNCHANGED <<scan, rows, top>> /\ pr[p].id \in Scans
    BY <1>5 DEF FirstCheckpoint, Named, At
  <2>2. /\ (\A q \in Procs : q # p => pr'[q] = pr[q])
        /\ pr'[p] = [pr[p] EXCEPT !.beat = 0,
            !.pc = CASE pr[p].job = "new" -> "supersede" [] pr[p].job = "resume" -> "run" [] OTHER -> "rclose"]
    BY <1>5, Becomes DEF FirstCheckpoint
  <2>3. /\ (\A q \in Procs : q # p => pr'[q] = pr[q])
        /\ pr'[p].id = pr[p].id /\ pr'[p].job = pr[p].job /\ pr'[p].beat = 0
        /\ \/ pr[p].job = "new" /\ pr'[p].pc = "supersede"
           \/ pr[p].job = "resume" /\ pr'[p].pc = "run"
           \/ pr[p].job = "refresh" /\ pr'[p].pc = "rclose"
    BY <2>2, <1>t DEF Process
  <2>4. \A j \in Scans :
            IF j = pr[p].id /\ scan[j].st = "running" /\ ckpt[j].st # "closed"
            THEN ckpt'[j].st = "open" /\ ckpt'[j].age = 0 ELSE ckpt'[j] = ckpt[j]
    BY <1>5, Upserted DEF FirstCheckpoint
  <2>5. Jobs'
    BY <2>1, <2>3, <2>4 DEF Jobs, Safe, At
  <2>6. Ids'
    BY <2>1, <2>3, <2>4, <1>t, <1>s DEF Ids, Safe
  <2>7. Kinds'
    BY <2>1, <2>3, <2>4 DEF Kinds, Safe, Named, At, Owning, Refreshing
  <2>8. Sole'
    BY <2>1, <2>3, <2>4 DEF Sole, Safe, At, Owning, Refreshing, Holding
  <2>9. Leased'
    BY <2>1, <2>3, <2>4, <1>t DEF Leased, Safe, Named, At, Owning
  <2>10. Work'
    BY <2>1, <2>3, <2>4 DEF Work, Safe
  <2>11. Finished
    BY <2>1, <2>3, <2>4 DEF Finished
  <2> QED BY <2>5, <2>6, <2>7, <2>8, <2>9, <2>10, <2>11 DEF Safe
<1>6. ASSUME NEW p \in Procs, Supersede(p) PROVE Safe' /\ Finished
  <2>1. At(p, "supersede") /\ pr'[p].pc = "prune_new" /\ pr'[p].id = pr[p].id
        /\ pr'[p].job = pr[p].job /\ pr'[p].beat = pr[p].beat /\ (\A q \in Procs : q # p => pr'[q] = pr[q])
    BY <1>6, Goes DEF Supersede
  <2>2. top' = top
    BY <1>6 DEF Supersede
  <2>3. \A i \in Scans :
            /\ rows'[i] \subseteq rows[i] /\ (Supersedable(i, pr[p].id) => "seeds" \notin rows'[i])
            /\ (Supersedable(i, pr[p].id) /\ ckpt[i].st # "none") \/ ckpt'[i] = ckpt[i]
    BY <1>6 DEF Supersede, TypeOK
  <2>4. \A i \in Scans :
            /\ scan'[i].st = IF Supersedable(i, pr[p].id) THEN "superseded" ELSE scan[i].st
            /\ scan'[i].kind = scan[i].kind /\ scan'[i].age = scan[i].age
    BY <1>6 DEF Supersede, TypeOK, ScanRow
  <2>5. /\ \A i \in Scans : Supersedable(i, pr[p].id) => scan[i].st # "none"
        /\ \A q \in Procs : Owning(q) => pr[q].id \in Scans /\ ~Supersedable(pr[q].id, pr[p].id)
    BY <1>0 DEF Supersedable, Protected
  <2>6. Jobs'
    BY <2>1, <2>2, <2>3, <2>4, <2>5 DEF Jobs, Safe, At
  <2>7. Ids'
    BY <2>1, <2>2, <2>3, <2>4, <2>5, <1>t, <1>s DEF Ids, Safe
  <2>8. Kinds'
    BY <2>1, <2>2, <2>3, <2>4, <2>5 DEF Kinds, Safe, Named, At, Owning, Refreshing
  <2>9. Sole'
    BY <2>1, <2>2, <2>3, <2>4, <2>5 DEF Sole, Safe, At, Owning, Refreshing, Holding
  <2>10. Leased'
    BY <2>1, <2>2, <2>3, <2>4, <2>5, <1>t DEF Leased, Safe, Named, At, Owning
  <2>11. Work'
    BY <2>1, <2>2, <2>3, <2>4, <2>5 DEF Work, Safe
  <2>12. Finished
    BY <2>1, <2>2, <2>3, <2>4, <2>5, <1>0 DEF Finished, Leased, Kinds, Safe, Abandoned, Reopenable, Supersedable, At, Owning, Protected
  <2> QED BY <2>6, <2>7, <2>8, <2>9, <2>10, <2>11, <2>12 DEF Safe
<1>7. ASSUME NEW p \in Procs, PruneQueues(p) PROVE Safe' /\ Finished
  <2>1. /\ pr[p].pc \in {"prune_new", "prune_end"} /\ pr'[p].pc = (IF At(p, "prune_new") THEN "run" ELSE "stop")
        /\ pr'[p].id = pr[p].id /\ pr'[p].job = pr[p].job /\ pr'[p].beat = pr[p].beat
        /\ (\A q \in Procs : q # p => pr'[q] = pr[q])
    BY <1>7, Goes DEF PruneQueues
  <2>2. UNCHANGED <<scan, ckpt, top>> /\ \A i \in Scans : rows'[i] \subseteq rows[i]
    BY <1>7 DEF PruneQueues, TypeOK
  <2>3. Jobs'
    BY <2>1, <2>2 DEF Jobs, Safe, At
  <2>4. Ids'
    BY <2>1, <2>2, <1>t, <1>s DEF Ids, Safe
  <2>5. Kinds'
    BY <2>1, <2>2 DEF Kinds, Safe, Named, At, Owning, Refreshing
  <2>6. Sole'
    BY <2>1, <2>2 DEF Sole, Safe, At, Owning, Refreshing, Holding
  <2>7. Leased'
    BY <2>1, <2>2, <1>t DEF Leased, Safe, Named, At, Owning
  <2>8. Work'
    BY <2>1, <2>2 DEF Work, Safe
  <2>9. Finished
    BY <2>1, <2>2 DEF Finished
  <2> QED BY <2>3, <2>4, <2>5, <2>6, <2>7, <2>8, <2>9 DEF Safe
<1>8. ASSUME NEW p \in Procs, Heartbeat(p) PROVE Safe' /\ Finished
  <2>1. /\ pr[p].pc \in {"run", "fail", "prune_end", "stop"} /\ pr[p].job # "refresh"
        /\ pr'[p].pc = pr[p].pc /\ pr'[p].id = pr[p].id /\ pr'[p].job = pr[p].job /\ pr'[p].beat = 0
        /\ (\A q \in Procs : q # p => pr'[q] = pr[q])
    BY <1>8, Becomes DEF Heartbeat, TypeOK, Process
  <2>2. UNCHANGED <<scan, rows, top>> /\ pr[p].id \in Scans
    BY <1>8 DEF Heartbeat, Named
  <2>3. \A j \in Scans :
            IF j = pr[p].id /\ scan[j].st = "running" /\ ckpt[j].st # "closed"
            THEN ckpt'[j].st = "open" /\ ckpt'[j].age = 0 ELSE ckpt'[j] = ckpt[j]
    BY <1>8, Upserted DEF Heartbeat
  <2>4. Jobs'
    BY <2>1, <2>2, <2>3 DEF Jobs, Safe, At
  <2>5. Ids'
    BY <2>1, <2>2, <2>3, <1>t, <1>s DEF Ids, Safe
  <2>6. Kinds'
    BY <2>1, <2>2, <2>3 DEF Kinds, Safe, Named, At, Owning, Refreshing
  <2>7. Sole'
    BY <2>1, <2>2, <2>3 DEF Sole, Safe, At, Owning, Refreshing, Holding
  <2>8. Leased'
    BY <2>1, <2>2, <2>3, <1>t DEF Leased, Safe, Named, At, Owning
  <2>9. Work'
    BY <2>1, <2>2, <2>3 DEF Work, Safe
  <2>10. Finished
    BY <2>1, <2>2, <2>3 DEF Finished
  <2> QED BY <2>4, <2>5, <2>6, <2>7, <2>8, <2>9, <2>10 DEF Safe
<1>9. ASSUME NEW p \in Procs, Produce(p) PROVE Safe' /\ Finished
  <2>1. At(p, "run") /\ UNCHANGED <<scan, ckpt, top, pr>> /\ pr[p].id \in Scans
    BY <1>9 DEF Produce, Named, At
  <2>2. \A j \in Scans : j # pr[p].id => rows'[j] = rows[j]
    BY <1>9 DEF Produce, TypeOK
  <2>3. Owning(p) /\ pr[p].id <= top
    BY <2>1 DEF Owning, At, Safe, Jobs, Ids
  <2>4. Jobs'
    BY <2>1, <2>2, <2>3 DEF Jobs, Safe, At
  <2>5. Ids'
    BY <2>1, <2>2, <2>3, <1>t, <1>s DEF Ids, Safe
  <2>6. Kinds'
    BY <2>1, <2>2, <2>3 DEF Kinds, Safe, Named, At, Owning, Refreshing
  <2>7. Sole'
    BY <2>1, <2>2, <2>3 DEF Sole, Safe, At, Owning, Refreshing, Holding
  <2>8. Leased'
    BY <2>1, <2>2, <2>3, <1>t DEF Leased, Safe, Named, At, Owning
  <2>9. Work'
    BY <2>1, <2>2, <2>3, <1>0 DEF Work, Leased, Kinds, Jobs, Safe, Named, At, Owning, Refreshing, Holding, Protected
  <2>10. Finished
    BY <2>1, <2>2, <2>3 DEF Finished
  <2> QED BY <2>4, <2>5, <2>6, <2>7, <2>8, <2>9, <2>10 DEF Safe
<1>10. ASSUME NEW p \in Procs, PauseScan(p) PROVE Safe' /\ Finished
  <2>1. At(p, "run") /\ pr'[p].pc = "stop" /\ pr'[p].id = pr[p].id
        /\ pr'[p].job = pr[p].job /\ pr'[p].beat = pr[p].beat /\ (\A q \in Procs : q # p => pr'[q] = pr[q])
    BY <1>10, Goes DEF PauseScan
  <2>2. Owning(p) /\ pr[p].id \in Scans /\ pr[p].id <= top /\ pr[p].id \in Nat
    BY <2>1 DEF Owning, At, Named, Safe, Jobs, Ids, Scans
  <2>3. UNCHANGED <<rows, top>>
    BY <1>10 DEF PauseScan
  <2>4. /\ \A j \in Scans : j # pr[p].id => scan'[j] = scan[j] /\ ckpt'[j] = ckpt[j]
        /\ scan'[pr[p].id].kind = scan[pr[p].id].kind
        /\ ckpt[pr[p].id].st # "none" => ckpt'[pr[p].id].st = "open"
    BY <1>10, <2>2 DEF PauseScan, TypeOK, ScanRow, CkptRow
  <2>5. Jobs'
    BY <2>1, <2>2, <2>3, <2>4 DEF Jobs, Safe, At
  <2>6. Ids'
    BY <2>1, <2>2, <2>3, <2>4, <1>t, <1>s DEF Ids, Safe
  <2>7. Kinds'
    BY <2>1, <2>2, <2>3, <2>4 DEF Kinds, Safe, Named, At, Owning, Refreshing
  <2>8. Sole'
    BY <2>1, <2>2, <2>3, <2>4 DEF Sole, Safe, At, Owning, Refreshing, Holding
  <2>9. Leased'
    BY <2>1, <2>2, <2>3, <2>4, <1>0, <1>t DEF Leased, Sole, Kinds, Jobs, Named, Safe, At, Owning, Refreshing, Holding, Protected
  <2>10. Work'
    BY <2>1, <2>2, <2>3, <2>4 DEF Work, Safe
  <2>11. Finished
    BY <2>1, <2>2, <2>3, <2>4, <1>0 DEF Finished, Leased, Kinds, Safe, Abandoned, Reopenable, Supersedable, At, Owning, Protected
  <2> QED BY <2>5, <2>6, <2>7, <2>8, <2>9, <2>10, <2>11 DEF Safe
<1>11. ASSUME NEW p \in Procs, FinalizeScan(p) PROVE Safe' /\ Finished
  <2>1. /\ At(p, "run") /\ pr'[p].id = pr[p].id /\ pr'[p].job = pr[p].job /\ pr'[p].beat = pr[p].beat
        /\ \/ pr'[p].pc = "prune_end"
           \/ pr'[p].pc = "fail" /\ UNCHANGED <<scan, ckpt, rows>>
        /\ (\A q \in Procs : q # p => pr'[q] = pr[q])
    BY <1>11, Goes DEF FinalizeScan
  <2>2. Owning(p) /\ pr[p].id \in Scans /\ pr[p].id <= top /\ pr[p].id \in Nat
    BY <2>1 DEF Owning, At, Named, Safe, Jobs, Ids, Scans
  <2>3. top' = top /\ rows'[pr[p].id] \subseteq rows[pr[p].id] /\ (pr'[p].pc = "prune_end" => "seeds" \notin rows'[pr[p].id])
        /\ (ckpt[pr[p].id].st = "closed" => ckpt'[pr[p].id].st = "closed")
    BY <1>11, <2>1, <2>2, Goes DEF FinalizeScan, TypeOK
  <2>4. /\ \A j \in Scans : j # pr[p].id => scan'[j] = scan[j] /\ ckpt'[j] = ckpt[j] /\ rows'[j] = rows[j]
        /\ scan'[pr[p].id].kind = scan[pr[p].id].kind
    BY <1>11, <2>2 DEF FinalizeScan, TypeOK, ScanRow, CkptRow
  <2>5. Jobs'
    BY <2>1, <2>2, <2>3, <2>4 DEF Jobs, Safe, At
  <2>6. Ids'
    BY <2>1, <2>2, <2>3, <2>4, <1>t, <1>s DEF Ids, Safe
  <2>7. Kinds'
    BY <2>1, <2>2, <2>3, <2>4 DEF Kinds, Safe, Named, At, Owning, Refreshing
  <2>8. Sole'
    BY <2>1, <2>2, <2>3, <2>4 DEF Sole, Safe, At, Owning, Refreshing, Holding
  <2>9. Leased'
    BY <2>1, <2>2, <2>3, <2>4, <1>0, <1>t DEF Leased, Sole, Kinds, Jobs, Named, Safe, At, Owning, Refreshing, Holding, Protected
  <2>10. Work'
    BY <2>1, <2>2, <2>3, <2>4 DEF Work, Safe
  <2>11. Finished
    BY <2>1, <2>2, <2>3, <2>4, <1>0 DEF Finished, Leased, Kinds, Safe, Abandoned, Reopenable, Supersedable, At, Owning, Protected
  <2> QED BY <2>5, <2>6, <2>7, <2>8, <2>9, <2>10, <2>11 DEF Safe
<1>12. ASSUME NEW p \in Procs, RunError(p) PROVE Safe' /\ Finished
  <2>1. At(p, "run") /\ pr'[p].pc = "fail" /\ pr'[p].id = pr[p].id
        /\ pr'[p].job = pr[p].job /\ pr'[p].beat = pr[p].beat /\ (\A q \in Procs : q # p => pr'[q] = pr[q])
    BY <1>12, Goes DEF RunError
  <2>2. UNCHANGED <<scan, ckpt, rows, top>>
    BY <1>12 DEF RunError
  <2>3. Jobs' /\ Ids' /\ Work' /\ Finished
    BY <2>1, <2>2, <1>t, <1>s DEF Jobs, Ids, Work, Finished, Safe, At
  <2>4. Kinds' /\ Sole' /\ Leased'
    BY <2>1, <2>2, <1>0 DEF Kinds, Sole, Leased, Jobs, Named, Safe, At, Owning, Refreshing, Holding, Protected
  <2> QED BY <2>3, <2>4 DEF Safe
<1>13. ASSUME NEW p \in Procs, FailScan(p) PROVE Safe' /\ Finished
  <2>1. At(p, "fail") /\ pr'[p].pc = "stop" /\ pr'[p].id = pr[p].id
        /\ pr'[p].job = pr[p].job /\ pr'[p].beat = pr[p].beat /\ (\A q \in Procs : q # p => pr'[q] = pr[q])
    BY <1>13, Goes DEF FailScan
  <2>2. Owning(p) /\ pr[p].id \in Scans /\ pr[p].id <= top /\ pr[p].id \in Nat
    BY <2>1 DEF Owning, At, Named, Safe, Jobs, Ids, Scans
  <2>3. UNCHANGED <<ckpt, rows, top>>
    BY <1>13 DEF FailScan
  <2>4. /\ \A j \in Scans : j # pr[p].id => scan'[j] = scan[j]
        /\ scan'[pr[p].id].kind = scan[pr[p].id].kind
    BY <1>13, <2>2 DEF FailScan, TypeOK, ScanRow
  <2>5. Jobs'
    BY <2>1, <2>2, <2>3, <2>4 DEF Jobs, Safe, At
  <2>6. Ids'
    BY <2>1, <2>2, <2>3, <2>4, <1>t, <1>s DEF Ids, Safe
  <2>7. Kinds'
    BY <2>1, <2>2, <2>3, <2>4 DEF Kinds, Safe, Named, At, Owning, Refreshing
  <2>8. Sole'
    BY <2>1, <2>2, <2>3, <2>4 DEF Sole, Safe, At, Owning, Refreshing, Holding
  <2>9. Leased'
    BY <2>1, <2>2, <2>3, <2>4, <1>0, <1>t DEF Leased, Sole, Kinds, Jobs, Named, Safe, At, Owning, Refreshing, Holding, Protected
  <2>10. Work'
    BY <2>1, <2>2, <2>3, <2>4 DEF Work, Safe
  <2>11. Finished
    BY <2>1, <2>2, <2>3, <2>4, <1>0 DEF Finished, Leased, Kinds, Safe, Abandoned, Reopenable, Supersedable, At, Owning, Protected
  <2> QED BY <2>5, <2>6, <2>7, <2>8, <2>9, <2>10, <2>11 DEF Safe
<1>14. ASSUME NEW p \in Procs, CancelScan(p) PROVE Safe' /\ Finished
  <2>1. At(p, "run") /\ pr'[p].pc = "off" /\ pr'[p].id = 0 /\ (\A q \in Procs : q # p => pr'[q] = pr[q])
    BY <1>14, Leaves DEF CancelScan
  <2>2. Owning(p) /\ pr[p].id \in Scans /\ pr[p].id <= top /\ pr[p].id \in Nat
    BY <2>1 DEF Owning, At, Named, Safe, Jobs, Ids, Scans
  <2>3. UNCHANGED <<ckpt, rows, top>>
    BY <1>14 DEF CancelScan
  <2>4. /\ \A j \in Scans : j # pr[p].id => scan'[j] = scan[j]
        /\ scan'[pr[p].id].kind = scan[pr[p].id].kind
    BY <1>14, <2>2 DEF CancelScan, TypeOK, ScanRow
  <2>5. Jobs'
    BY <2>1, <2>2, <2>3, <2>4 DEF Jobs, Safe, At
  <2>6. Ids'
    BY <2>1, <2>2, <2>3, <2>4, <1>t, <1>s DEF Ids, Safe
  <2>7. Kinds'
    BY <2>1, <2>2, <2>3, <2>4 DEF Kinds, Safe, Named, At, Owning, Refreshing
  <2>8. Sole'
    BY <2>1, <2>2, <2>3, <2>4 DEF Sole, Safe, At, Owning, Refreshing, Holding
  <2>9. Leased'
    BY <2>1, <2>2, <2>3, <2>4, <1>0, <1>t DEF Leased, Sole, Kinds, Jobs, Named, Safe, At, Owning, Refreshing, Holding, Protected
  <2>10. Work'
    BY <2>1, <2>2, <2>3, <2>4 DEF Work, Safe
  <2>11. Finished
    BY <2>1, <2>2, <2>3, <2>4, <1>0 DEF Finished, Leased, Kinds, Safe, Abandoned, Reopenable, Supersedable, At, Owning, Protected
  <2> QED BY <2>5, <2>6, <2>7, <2>8, <2>9, <2>10, <2>11 DEF Safe
<1>15. ASSUME NEW p \in Procs, Stop(p) PROVE Safe' /\ Finished
  <2>1. pr'[p].pc = "off" /\ pr'[p].id = 0 /\ (\A q \in Procs : q # p => pr'[q] = pr[q])
    BY <1>15, Leaves DEF Stop
  <2>2. UNCHANGED <<scan, ckpt, rows, top>>
    BY <1>15 DEF Stop
  <2>3. Jobs' /\ Ids' /\ Work' /\ Finished
    BY <2>1, <2>2, <1>t, <1>s DEF Jobs, Ids, Work, Finished, Safe, At
  <2>4. Kinds' /\ Sole' /\ Leased'
    BY <2>1, <2>2, <1>0 DEF Kinds, Sole, Leased, Jobs, Named, Safe, At, Owning, Refreshing, Holding, Protected
  <2> QED BY <2>3, <2>4 DEF Safe
<1>16. ASSUME NEW p \in Procs, Kill(p) PROVE Safe' /\ Finished
  <2>1. pr'[p].pc = "off" /\ pr'[p].id = 0 /\ (\A q \in Procs : q # p => pr'[q] = pr[q])
    BY <1>16, Leaves DEF Kill
  <2>2. UNCHANGED <<scan, ckpt, rows, top>>
    BY <1>16 DEF Kill
  <2>3. Jobs' /\ Ids' /\ Work' /\ Finished
    BY <2>1, <2>2, <1>t, <1>s DEF Jobs, Ids, Work, Finished, Safe, At
  <2>4. Kinds' /\ Sole' /\ Leased'
    BY <2>1, <2>2, <1>0 DEF Kinds, Sole, Leased, Jobs, Named, Safe, At, Owning, Refreshing, Holding, Protected
  <2> QED BY <2>3, <2>4 DEF Safe
<1>17. ASSUME NEW p \in Procs, CloseRefresh(p) PROVE Safe' /\ Finished
  <2>1. At(p, "rclose") /\ pr'[p].pc = "rrun" /\ pr'[p].id = pr[p].id
        /\ pr'[p].job = pr[p].job /\ pr'[p].beat = pr[p].beat /\ (\A q \in Procs : q # p => pr'[q] = pr[q])
    BY <1>17, Goes DEF CloseRefresh
  <2>2. Refreshing(p) /\ pr[p].id \in Scans /\ pr[p].id <= top /\ pr[p].id \in Nat /\ scan[pr[p].id].kind = "refresh"
        /\ rows[pr[p].id] = {}
    BY <2>1 DEF Refreshing, At, Named, Safe, Jobs, Ids, Kinds, Scans
  <2>3. UNCHANGED <<scan, rows, top>>
    BY <1>17 DEF CloseRefresh
  <2>4. /\ \A j \in Scans : j # pr[p].id => ckpt'[j] = ckpt[j]
        /\ (ckpt[pr[p].id].st = "closed" => ckpt'[pr[p].id].st = "closed")
    BY <1>17, <2>2 DEF CloseRefresh, TypeOK
  <2>5. Jobs'
    BY <2>1, <2>2, <2>3, <2>4 DEF Jobs, Safe, At
  <2>6. Ids'
    BY <2>1, <2>2, <2>3, <2>4, <1>t, <1>s DEF Ids, Safe
  <2>7. Kinds'
    BY <2>1, <2>2, <2>3, <2>4 DEF Kinds, Safe, Named, At, Owning, Refreshing
  <2>8. Sole'
    BY <2>1, <2>2, <2>3, <2>4 DEF Sole, Safe, At, Owning, Refreshing, Holding
  <2>9. Leased'
    BY <2>1, <2>2, <2>3, <2>4, <1>0, <1>t DEF Leased, Sole, Kinds, Jobs, Named, Safe, At, Owning, Refreshing, Holding, Protected
  <2>10. Work'
    BY <2>1, <2>2, <2>3, <2>4 DEF Work, Safe
  <2>11. Finished
    BY <2>1, <2>2, <2>3, <2>4 DEF Finished
  <2> QED BY <2>5, <2>6, <2>7, <2>8, <2>9, <2>10, <2>11 DEF Safe
<1>18. ASSUME NEW p \in Procs, StageWildcards(p) PROVE Safe' /\ Finished
  <2>1. UNCHANGED <<scan, ckpt, rows, top, pr>>
    BY <1>18 DEF StageWildcards
  <2>2. Jobs' /\ Ids' /\ Work' /\ Finished
    BY <2>1, <1>t, <1>s DEF Jobs, Ids, Work, Finished, Safe, At
  <2>3. Kinds' /\ Sole' /\ Leased'
    BY <2>1, <1>0 DEF Kinds, Sole, Leased, Jobs, Named, Safe, At, Owning, Refreshing, Holding, Protected
  <2> QED BY <2>2, <2>3 DEF Safe
<1>19. ASSUME NEW p \in Procs, ApplyStaged(p) PROVE Safe' /\ Finished
  <2>1. At(p, "rrun") /\ (\A q \in Procs : q # p => pr'[q] = pr[q])
        /\ \E out \in Outcomes : pr'[p] = [pr[p] EXCEPT !.pc = "rfinal", !.out = out]
    BY <1>19, Becomes DEF ApplyStaged, Outcomes
  <2>2. At(p, "rrun") /\ pr'[p].pc = "rfinal" /\ pr'[p].id = pr[p].id /\ pr'[p].job = pr[p].job
        /\ (\A q \in Procs : q # p => pr'[q] = pr[q])
    BY <2>1, <1>t DEF Process
  <2>3. UNCHANGED <<scan, ckpt, rows, top>>
    BY <1>19 DEF ApplyStaged
  <2>4. Jobs' /\ Ids' /\ Work' /\ Finished
    BY <2>2, <2>3, <1>t, <1>s DEF Jobs, Ids, Work, Finished, Safe, At
  <2>5. Kinds' /\ Sole' /\ Leased'
    BY <2>2, <2>3, <1>0 DEF Kinds, Sole, Leased, Jobs, Named, Safe, At, Owning, Refreshing, Holding, Protected
  <2> QED BY <2>4, <2>5 DEF Safe
<1>20. ASSUME NEW p \in Procs, DiscardStaged(p) PROVE Safe' /\ Finished
  <2>1. At(p, "rrun") /\ (\A q \in Procs : q # p => pr'[q] = pr[q])
        /\ \E out \in Outcomes : pr'[p] = [pr[p] EXCEPT !.pc = "rfinal", !.out = out]
    BY <1>20, Becomes DEF DiscardStaged, Outcomes
  <2>2. At(p, "rrun") /\ pr'[p].pc = "rfinal" /\ pr'[p].id = pr[p].id /\ pr'[p].job = pr[p].job
        /\ (\A q \in Procs : q # p => pr'[q] = pr[q])
    BY <2>1, <1>t DEF Process
  <2>3. UNCHANGED <<scan, ckpt, rows, top>>
    BY <1>20 DEF DiscardStaged
  <2>4. Jobs' /\ Ids' /\ Work' /\ Finished
    BY <2>2, <2>3, <1>t, <1>s DEF Jobs, Ids, Work, Finished, Safe, At
  <2>5. Kinds' /\ Sole' /\ Leased'
    BY <2>2, <2>3, <1>0 DEF Kinds, Sole, Leased, Jobs, Named, Safe, At, Owning, Refreshing, Holding, Protected
  <2> QED BY <2>4, <2>5 DEF Safe
<1>21. ASSUME NEW p \in Procs, FinishRefresh(p) PROVE Safe' /\ Finished
  <2>1. At(p, "rfinal") /\ pr'[p].pc = "off" /\ pr'[p].id = 0 /\ (\A q \in Procs : q # p => pr'[q] = pr[q])
    BY <1>21, Leaves DEF FinishRefresh
  <2>2. Refreshing(p) /\ pr[p].id \in Scans /\ pr[p].id <= top /\ pr[p].id \in Nat /\ scan[pr[p].id].kind = "refresh"
        /\ rows[pr[p].id] = {}
    BY <2>1 DEF Refreshing, At, Named, Safe, Jobs, Ids, Kinds, Scans
  <2>3. UNCHANGED <<rows, top>>
    BY <1>21 DEF FinishRefresh
  <2>4. /\ \A j \in Scans : j # pr[p].id => scan'[j] = scan[j] /\ ckpt'[j] = ckpt[j]
        /\ scan'[pr[p].id].kind = scan[pr[p].id].kind
        /\ (ckpt[pr[p].id].st = "closed" => ckpt'[pr[p].id].st = "closed")
    BY <1>21, <2>2 DEF FinishRefresh, TypeOK, ScanRow
  <2>5. \A q \in Procs : q # p /\ Holding(q) => pr[q].id # pr[p].id
    BY <2>2 DEF Safe, Sole, Holding
  <2>6. Jobs'
    BY <2>1, <2>2, <2>3, <2>4, <2>5 DEF Jobs, Safe, At
  <2>7. Ids'
    BY <2>1, <2>2, <2>3, <2>4, <2>5, <1>t, <1>s DEF Ids, Safe
  <2>8. Kinds'
    BY <2>1, <2>2, <2>3, <2>4, <2>5, <1>0 DEF Kinds, Safe, Named, Jobs, At, Owning, Refreshing, Holding, Protected
  <2>9. Sole'
    BY <2>1, <2>2, <2>3, <2>4, <2>5 DEF Sole, Safe, At, Owning, Refreshing, Holding
  <2>10. Leased'
    BY <2>1, <2>2, <2>3, <2>4, <2>5, <1>0, <1>t DEF Leased, Sole, Kinds, Jobs, Named, Safe, At, Owning, Refreshing, Holding, Protected
  <2>11. Work'
    BY <2>1, <2>2, <2>3, <2>4, <2>5 DEF Work, Safe
  <2>12. Finished
    BY <2>1, <2>2, <2>3, <2>4, <2>5, <1>0 DEF Finished, Leased, Kinds, Safe, Abandoned, Reopenable, Supersedable, At, Owning, Protected
  <2> QED BY <2>6, <2>7, <2>8, <2>9, <2>10, <2>11, <2>12 DEF Safe
<1>22. ASSUME Tick PROVE Safe' /\ Finished
  <2>1. UNCHANGED <<rows, top>>
    BY <1>22 DEF Tick
  <2>2. \A i \in Scans : /\ scan'[i].st = scan[i].st /\ scan'[i].kind = scan[i].kind
                        /\ scan'[i].age = Older(scan[i].age) /\ ckpt'[i].st = ckpt[i].st
                        /\ ckpt'[i].age = Older(ckpt[i].age)
    BY <1>22 DEF Tick, TypeOK, ScanRow, CkptRow
  <2>3. \A q \in Procs : /\ pr'[q].pc = pr[q].pc /\ pr'[q].id = pr[q].id /\ pr'[q].job = pr[q].job
                        /\ pr'[q].beat = IF SettingUp(q) \/ Beating(q) THEN pr[q].beat + 1 ELSE pr[q].beat
    BY <1>22 DEF Tick, TypeOK, Process
  <2>4. Jobs' /\ Ids' /\ Work' /\ Finished
    BY <2>1, <2>2, <2>3 DEF Jobs, Ids, Work, Safe, Finished
  <2>5. Kinds' /\ Sole'
    BY <2>1, <2>2, <2>3 DEF Kinds, Sole, Safe, Named, Owning, Refreshing, Holding
  <2>6. Leased'
    <3>1. \A q \in Procs : Owning(q) => SettingUp(q) \/ Beating(q)
      BY DEF Owning, SettingUp, Beating
    <3>2. \A i \in Scans : scan[i].age \in Nat /\ ckpt[i].age \in Nat
      BY DEF TypeOK, ScanRow, CkptRow, Ages
    <3>3. \A q \in Procs : pr[q].beat \in Nat
      BY DEF TypeOK, Process
    <3>4. \A a, b \in Nat : a <= b => Older(a) <= b + 1
      BY DEF Older
    <3> QED BY <2>2, <2>3, <3>1, <3>2, <3>3, <3>4 DEF Leased, Safe, Named, Owning, At
  <2> QED BY <2>4, <2>5, <2>6 DEF Safe
<1>23. CASE UNCHANGED vars
  BY <1>23 DEF vars, Finished, Safe, Ids, Jobs, Kinds, Sole, Leased, Work, Owning, Refreshing, Holding, At
<1> QED
  BY <1>1, <1>2, <1>3, <1>4, <1>5, <1>6, <1>7, <1>8, <1>9, <1>10, <1>11, <1>12, <1>13, <1>14, <1>15, <1>16, <1>17, <1>18, <1>19, <1>20, <1>21, <1>22, <1>23 DEF Next, Setup, Run, Refresh

-----------------------------------------------------------------------------
(* Theorems.                                                               *)

LEMMA SafeInit == Init => Safe
<1> SUFFICES ASSUME Init PROVE Safe
  OBVIOUS
<1>1. \A p \in Procs : pr[p].pc = "off" /\ pr[p].id = 0
  BY DEF Init, Idle
<1>2. top = 0 /\ \A i \in Scans : scan[i].st = "none" /\ scan[i].kind = "scan" /\ ckpt[i].st = "none" /\ rows[i] = {}
  BY DEF Init
<1> QED
  BY <1>1, <1>2 DEF Safe, Ids, Jobs, Kinds, Sole, Leased, Work, Owning, Refreshing, Holding

\* Without a heartbeat shorter than the lease only the types are invariant.
Inv == TypeOK /\ Named /\ (Beat < Lease => Safe)

LEMMA NamedNext == TypeOK /\ Named /\ [Next]_vars => Named'
<1> SUFFICES ASSUME TypeOK, Named, [Next]_vars PROVE Named'
  OBVIOUS
<1>1. ASSUME NEW p \in Procs, \A q \in Procs : q # p => pr'[q] = pr[q],
             pr'[p].pc \in {"off", "new", "find"} \/ pr'[p].id \in Scans
      PROVE Named'
  BY <1>1 DEF Named
<1>2. ASSUME NEW p \in Procs, NEW pc, pr[p].pc \notin {"off", "new", "find"}, Goto(p, pc) PROVE Named'
  BY <1>1, <1>2, Goes DEF Named
<1>3. ASSUME NEW p \in Procs, Become(p, Idle) PROVE Named'
  BY <1>1, <1>3, Leaves
<1>4. ASSUME UNCHANGED pr PROVE Named'
  BY <1>4 DEF Named
<1>5. ASSUME NEW p \in Procs, Open(p) PROVE Named'
  <2>1. ASSUME NEW r, Become(p, r), r.pc \in {"new", "find"} PROVE Named'
    BY <2>1, <1>1, Becomes
  <2> QED BY <1>4, <1>5, <2>1 DEF Open, Idle
<1>6. ASSUME NEW p \in Procs, NEW r, Become(p, r), r.id \in Scans PROVE Named'
  BY <1>1, <1>6, Becomes
<1>7. ASSUME NEW p \in Procs, CreateScan(p) PROVE Named'
  <2>1. top + 1 \in Scans /\ pr[p] \in Process
    BY <1>7, BoundAssumption DEF CreateScan, TypeOK, Scans
  <2>2. [pr[p] EXCEPT !.pc = "check", !.id = top + 1, !.beat = 0].id = top + 1
    BY <2>1 DEF Process
  <2> QED BY <1>6, <1>7, <2>1, <2>2 DEF CreateScan
<1>8. ASSUME NEW p \in Procs, FindCheckpoint(p) PROVE Named'
  <2>1. ASSUME NEW i \in Scans PROVE [pr[p] EXCEPT !.pc = "found", !.id = i].id \in Scans
    BY DEF TypeOK, Process
  <2> QED BY <1>3, <1>6, <1>8, <2>1 DEF FindCheckpoint
<1>9. ASSUME NEW p \in Procs, ReopenScan(p) \/ FirstCheckpoint(p) \/ Heartbeat(p) PROVE Named'
  <2>1. pr[p].id \in Scans /\ pr[p] \in Process
    BY <1>9 DEF ReopenScan, FirstCheckpoint, Heartbeat, At, Named, TypeOK
  <2>2. ASSUME NEW pc PROVE /\ [pr[p] EXCEPT !.pc = pc, !.beat = 0].id \in Scans
                            /\ [pr[p] EXCEPT !.beat = 0, !.pc = pc].id \in Scans
                            /\ [pr[p] EXCEPT !.beat = 0].id \in Scans
    BY <2>1 DEF Process
  <2> QED BY <1>3, <1>6, <1>9, <2>2 DEF ReopenScan, FirstCheckpoint, Heartbeat
<1>10. ASSUME NEW p \in Procs, Supersede(p) \/ PruneQueues(p) \/ PauseScan(p) \/ FinalizeScan(p) PROVE Named'
  BY <1>2, <1>10 DEF Supersede, PruneQueues, PauseScan, FinalizeScan, At
<1>11. ASSUME NEW p \in Procs, RunError(p) \/ FailScan(p) \/ CloseRefresh(p) PROVE Named'
  BY <1>2, <1>11 DEF RunError, FailScan, CloseRefresh, At
<1>12. ASSUME NEW p \in Procs, CancelScan(p) \/ Stop(p) \/ Kill(p) \/ FinishRefresh(p) PROVE Named'
  BY <1>3, <1>12 DEF CancelScan, Stop, Kill, FinishRefresh
<1>13. ASSUME NEW p \in Procs, Produce(p) \/ StageWildcards(p) PROVE Named'
  BY <1>4, <1>13 DEF Produce, StageWildcards
<1>14. ASSUME NEW p \in Procs, ApplyStaged(p) \/ DiscardStaged(p) PROVE Named'
  <2>1. pr[p].id \in Scans /\ pr[p] \in Process
    BY <1>14 DEF ApplyStaged, DiscardStaged, At, Named, TypeOK
  <2>2. ASSUME NEW out PROVE [pr[p] EXCEPT !.pc = "rfinal", !.out = out].id \in Scans
    BY <2>1 DEF Process
  <2> QED BY <1>6, <1>14, <2>2 DEF ApplyStaged, DiscardStaged
<1>15. ASSUME Tick PROVE Named'
  <2>1. \A q \in Procs : pr'[q].pc = pr[q].pc /\ pr'[q].id = pr[q].id
    BY <1>15 DEF Tick, TypeOK, Process
  <2> QED BY <2>1 DEF Named
<1>16. CASE UNCHANGED vars
  BY <1>4, <1>16 DEF vars
<1> QED
  BY <1>5, <1>7, <1>8, <1>9, <1>10, <1>11, <1>12, <1>13, <1>14, <1>15, <1>16 DEF Next, Setup, Run, Refresh

\* The strengthened invariant: a process knows its scan, ids are given out in
\* order, and the lease of a scan is as fresh as the last heartbeat of its owner.
THEOREM Invariant == Spec => []Inv
<1>1. Init => Inv
  BY TypeInit, SafeInit DEF Inv
<1>2. Inv /\ [Next]_vars => Inv'
  BY TypeNext, NamedNext, SafeNext DEF Inv
<1> QED BY <1>1, <1>2, PTL DEF Spec

\* The columns of the two tables and the state of a process keep their types,
\* whatever the lease and the heartbeat are.
THEOREM LifecycleTyped == Spec => []TypeOK
<1>1. Inv => TypeOK
  BY DEF Inv
<1> QED BY <1>1, Invariant, PTL

\* reopen_scan never gives a scan to a second process while the first one beats in
\* time, for any number of processes and scans and any Beat < Lease.
THEOREM OwnersDistinct == Spec => []OneOwner
<1>1. Inv => OneOwner
  BY DEF Inv, Safe, Sole, Holding, OneOwner
<1> QED BY <1>1, Invariant, PTL

\* reconcile_stale_scans, supersession and another process's finalization never
\* reach the scan of a living process.
THEOREM OwnersRun == Spec => []OwnerRunning
<1>1. Inv => OwnerRunning
  BY DEF Inv, Safe, Leased, OwnerRunning
<1> QED BY <1>1, Invariant, PTL

\* Seeds and feeds left in the database belong to an open checkpoint.
THEOREM WorkReachable == Spec => []NoStrandedWork
<1>1. Inv => NoStrandedWork
  BY DEF Inv, Safe, Work, NoStrandedWork
<1> QED BY <1>1, Invariant, PTL

\* Every step keeps completed scans completed and closed checkpoints closed.
THEOREM FinishedForGood == Spec => ClosedStays
<1>1. Inv /\ [Next]_vars =>
        [Beat < Lease => \A i \in Scans :
            /\ scan[i].st = "completed" => scan'[i].st = "completed"
            /\ ckpt[i].st = "closed" => ckpt'[i].st = "closed"]_vars
  BY SafeNext DEF Inv, Finished
<1> QED BY <1>1, Invariant, PTL DEF Spec, ClosedStays
=============================================================================

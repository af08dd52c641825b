------------------------ MODULE PassiveRefreshProofs ------------------------
(* Proofs about PassiveRefresh, for every number of processes, every budget *)
(* and grace, and every listing.                                           *)
EXTENDS PassiveRefresh, FiniteSetTheorems, TLAPS

\* The processes between the acquisition of their lease and its release.
Holding == Working \cup {"release"}

\* Owner ids are fresh: each holder and each pending release has an id of its own
\* that was given out.
OwnersFresh ==
    /\ lease.owner <= hist.owners
    /\ \A p \in Procs : w[p].pc \in Holding => w[p].own \in 1..hist.owners
    /\ \A j \in jobs : j.own \in 1..hist.owners
    /\ \A p, q \in Procs : w[p].pc \in Holding /\ w[q].pc \in Holding /\ w[p].own = w[q].own => p = q
    /\ \A j \in jobs, q \in Procs : w[q].pc \in Holding => j.own # w[q].own

\* A connector before its deadline holds the lease, and the lease lasts longer.
LeaseCovers ==
    hist.jumps = 0 => \A p \in Procs :
        w[p].pc \in Working /\ w[p].left > 0 => lease.owner = w[p].own /\ lease.left > w[p].left

IInv == TypeOK /\ OwnersFresh /\ LeaseCovers

-----------------------------------------------------------------------------

LEMMA IdleType == Idle \in Connector
  BY BoundAssumption DEF Idle, Connector, Working

LEMMA KeptType ==
    ASSUME NEW r \in Connector
    PROVE  /\ Kept(r) \in Connector
           /\ Kept(r).pc = r.pc /\ Kept(r).own = r.own
           /\ r.pc # "release" => Kept(r).left = r.left
<1>1. CASE r.pc = "release"
  <2>1. Kept(r) = [Idle EXCEPT !.pc = r.pc, !.own = r.own] BY <1>1 DEF Kept
  <2> QED BY <2>1, <1>1, IdleType DEF Connector
<1>2. CASE r.pc \in {"partial", "own_finish", "own_complete"}
  <2>1. Kept(r) = [Idle EXCEPT !.pc = r.pc, !.own = r.own, !.left = r.left, !.names = r.names]
    BY <1>2 DEF Kept
  <2> QED BY <2>1, <1>2, IdleType DEF Connector
<1>3. CASE r.pc = "fetch"
  <2>1. Kept(r) = [r EXCEPT !.page = {}] BY <1>3 DEF Kept
  <2> QED BY <2>1 DEF Connector
<1>4. CASE r.pc \notin {"release", "partial", "own_finish", "own_complete", "fetch"}
  <2>1. Kept(r) = r BY <1>4 DEF Kept
  <2> QED BY <2>1
<1> QED BY <1>1, <1>2, <1>3, <1>4

LEMMA PageFinite ==
    ASSUME NEW S \in SUBSET Records
    PROVE  IsFiniteSet(S) /\ Cardinality(S) \in Nat
  BY DataAssumption, FS_Subset, FS_CardinalityType

LEMMA PageAtType ==
    ASSUME TypeOK, NEW k \in Nat \ {0}
    PROVE  PageAt(k) \in SUBSET Records /\ list.total \in Nat /\ Len(list.page) \in Nat
  BY DataAssumption DEF TypeOK, PageAt, Listing

\* A step of the connector of p that leaves the lease alone and goes on under the
\* same owner, or comes to its release.
Quiet(p) ==
    /\ \E r \in Connector :
          /\ w' = [w EXCEPT ![p] = Kept(r)]
          /\ r.pc \in Holding /\ r.own = w[p].own /\ r.left = w[p].left
    /\ w[p].pc \in Working
    /\ UNCHANGED <<lease, jobs>>
    /\ hist'.owners = hist.owners /\ hist'.jumps = hist.jumps

LEMMA QuietStep ==
    ASSUME IInv, NEW p \in Procs, Quiet(p)
    PROVE  w' \in [Procs -> Connector] /\ OwnersFresh' /\ LeaseCovers'
<1>1. PICK r \in Connector : w' = [w EXCEPT ![p] = Kept(r)] /\ r.pc \in Holding /\ r.own = w[p].own /\ r.left = w[p].left
  BY DEF Quiet
<1>2. /\ Kept(r) \in Connector /\ Kept(r).pc = r.pc /\ Kept(r).own = r.own
      /\ r.pc # "release" => Kept(r).left = r.left
  BY KeptType
<1>3. w \in [Procs -> Connector] BY DEF IInv, TypeOK
<1>4. w' \in [Procs -> Connector] BY <1>1, <1>2, <1>3
<1>5. /\ w'[p].pc \in Holding /\ w'[p].own = w[p].own
      /\ w'[p].pc \in Working => w'[p].left = w[p].left
      /\ \A q \in Procs : q # p => w'[q] = w[q]
  BY <1>1, <1>2, <1>3 DEF Holding, Working
<1>6. w[p].pc \in Working /\ w[p].pc \in Holding
  BY DEF Quiet, Holding
<1>7. OwnersFresh'
  BY <1>5, <1>6 DEF OwnersFresh, IInv, Quiet
<1>8. LeaseCovers'
  BY <1>5, <1>6 DEF LeaseCovers, IInv, Quiet
<1> QED BY <1>4, <1>7, <1>8

-----------------------------------------------------------------------------
\* The part of TypeOK outside the lease, the pending releases and the connectors.
Stored ==
    /\ kind \in Kinds /\ list \in Listings
    /\ sess \in [active : BOOLEAN, old : BOOLEAN, gen : Nat]
    /\ lane \in Lane
    /\ evid \in [Scope -> [times : Nat, gen : Nat]]
    /\ cache \in {"none", "stale", "fresh"}
    /\ log \in Seq(SUBSET Records)
    /\ hist \in History

LEMMA QuietKeeps ==
    ASSUME IInv, NEW p \in Procs, Quiet(p), Stored'
    PROVE  IInv'
<1>1. w' \in [Procs -> Connector] /\ OwnersFresh' /\ LeaseCovers' BY QuietStep
<1>2. lease' = lease /\ jobs' = jobs BY DEF Quiet
<1> QED BY <1>1, <1>2 DEF IInv, TypeOK, Stored

LEMMA ConnectorOf ==
    ASSUME IInv, NEW p \in Procs
    PROVE  w[p] \in Connector /\ Stored
  BY DEF IInv, TypeOK, Stored

LEMMA NoLaneType == NoLane \in Lane
  BY DEF NoLane, Lane

LEMMA FailedType ==
    ASSUME NEW p \in Procs, w[p] \in Connector
    PROVE  /\ Failed(p) \in Connector /\ Failed(p).pc \in {"partial", "release"}
           /\ Failed(p).own = w[p].own /\ Failed(p).left = w[p].left
  BY DEF Failed, Connector, Working

LEMMA GotoQuiet ==
    ASSUME IInv, NEW p \in Procs, NEW pc \in Holding, Goto(p, pc), w[p].pc \in Working,
           UNCHANGED <<lease, jobs>>, hist'.owners = hist.owners, hist'.jumps = hist.jumps
    PROVE  Quiet(p)
<1>1. w[p] \in Connector BY ConnectorOf
<1>2. pc \in Working \cup {"off", "acquire", "release"} BY DEF Holding
<1>3. /\ [w[p] EXCEPT !.pc = pc] \in Connector /\ [w[p] EXCEPT !.pc = pc].pc = pc
      /\ [w[p] EXCEPT !.pc = pc].own = w[p].own /\ [w[p] EXCEPT !.pc = pc].left = w[p].left
  BY <1>1, <1>2 DEF Connector
<1> QED BY <1>3 DEF Quiet, Goto, Become

LEMMA FailedQuiet ==
    ASSUME IInv, NEW p \in Procs, Become(p, Failed(p)), w[p].pc \in Working,
           UNCHANGED <<lease, jobs>>, hist'.owners = hist.owners, hist'.jumps = hist.jumps
    PROVE  Quiet(p)
<1>1. w[p] \in Connector BY ConnectorOf
<1>2. /\ Failed(p) \in Connector /\ Failed(p).pc \in {"partial", "release"}
      /\ Failed(p).own = w[p].own /\ Failed(p).left = w[p].left
  BY <1>1, FailedType
<1>3. Failed(p).pc \in Holding BY <1>2 DEF Holding, Working
<1> QED BY <1>2, <1>3 DEF Quiet, Become

LEMMA NextOpaqueType ==
    ASSUME NEW r \in Connector
    PROVE  /\ NextOpaque(r) \in Connector
           /\ NextOpaque(r).pc \in {"own_complete", "partial", "release", "fetch"}
           /\ NextOpaque(r).own = r.own /\ NextOpaque(r).left = r.left
<1>1. Advance(r, IF r.bad THEN "partial" ELSE "own_complete") \in {"own_complete", "partial", "release", "fetch"}
  BY DEF Advance
<1> DEFINE pc == Advance(r, IF r.bad THEN "partial" ELSE "own_complete")
<1>2. NextOpaque(r) = [r EXCEPT !.next = @ + 1, !.pc = pc] BY DEF NextOpaque
<1>3. pc \in {"own_complete", "partial", "release", "fetch"} BY <1>1
<1> HIDE DEF pc
<1>4. r.next + 1 \in Nat \ {0} BY DEF Connector
<1>5. pc \in Working \cup {"off", "acquire", "release"} BY <1>3 DEF Working
<1> QED BY <1>2, <1>3, <1>4, <1>5 DEF Connector

LEMMA UnstoredType ==
    ASSUME NEW p \in Procs, w[p] \in Connector
    PROVE  /\ Unstored(p) \in Connector
           /\ Unstored(p).pc \in {"own_complete", "partial", "release", "fetch"}
           /\ Unstored(p).own = w[p].own /\ Unstored(p).left = w[p].left
<1> DEFINE r == [w[p] EXCEPT !.names = @ \cup (w[p].page \cap Scope), !.bad = TRUE]
<1>1. r \in Connector /\ r.own = w[p].own /\ r.left = w[p].left
  BY DEF Connector
<1>2. Unstored(p) = NextOpaque(r) BY DEF Unstored
<1> HIDE DEF r
<1> QED BY <1>1, <1>2, NextOpaqueType

LEMMA PageWrittenType ==
    ASSUME TypeOK, NEW p \in Procs, PageWritten(p)
    PROVE  /\ sess' \in [active : BOOLEAN, old : BOOLEAN, gen : Nat]
           /\ evid' \in [Scope -> [times : Nat, gen : Nat]]
           /\ cache' \in {"none", "stale", "fresh"}
           /\ hist' \in History
           /\ hist'.owners = hist.owners /\ hist'.jumps = hist.jumps
<1>1. sess' \in [active : BOOLEAN, old : BOOLEAN, gen : Nat]
  BY DEF PageWritten, Begun, TypeOK
<1>2. evid' \in [Scope -> [times : Nat, gen : Nat]]
  <2>1. sess'.gen \in Nat BY <1>1
  <2>2. \A n \in Scope : evid[n] \in [times : Nat, gen : Nat] BY DEF TypeOK
  <2> QED BY <2>1, <2>2 DEF PageWritten, Seen
<1>3. cache' \in {"none", "stale", "fresh"}
  BY DEF PageWritten, Marked, TypeOK
<1>4. /\ hist' \in History
      /\ hist'.owners = hist.owners /\ hist'.jumps = hist.jumps
  <2>1. hist' = hist \/ hist' = [hist EXCEPT !.gcs = @ + 1] BY DEF PageWritten
  <2>2. hist \in History BY DEF TypeOK
  <2>3. CASE hist' = hist BY <2>2, <2>3
  <2>4. CASE hist' = [hist EXCEPT !.gcs = @ + 1] BY <2>2, <2>4 DEF History
  <2> QED BY <2>1, <2>3, <2>4
<1> QED BY <1>1, <1>2, <1>3, <1>4

-----------------------------------------------------------------------------
(* Each quiet step.                                                        *)

LEMMA PrepareKeeps ==
    ASSUME IInv, NEW p \in Procs, Prepare(p)
    PROVE  IInv'
<1>1. Stored BY ConnectorOf
<1>2. w[p].pc \in Working /\ UNCHANGED <<lease, jobs, kind, list, evid, cache>>
  BY DEF Prepare, At, Working
<1>3. CASE Goto(p, "release") /\ UNCHANGED <<sess, hist, lane, log>>
  <2>1. Quiet(p) BY <1>2, <1>3, GotoQuiet DEF Holding
  <2>2. Stored' BY <1>1, <1>2, <1>3 DEF Stored
  <2> QED BY <2>1, <2>2, QuietKeeps
<1>4. CASE /\ sess' = IF GivenUp THEN [sess EXCEPT !.active = FALSE, !.old = FALSE] ELSE sess
           /\ hist' = IF GivenUp THEN [hist EXCEPT !.gcs = @ + 1] ELSE hist
           /\ lane' = IF GivenUp \/ lane.ver = "old" THEN NoLane ELSE lane
           /\ log' = IF lane'.ver = "none" THEN <<>> ELSE log
           /\ Goto(p, "load")
  <2>1. hist \in History BY <1>1 DEF Stored
  <2>2. hist' \in History /\ hist'.owners = hist.owners /\ hist'.jumps = hist.jumps
    <3>1. CASE GivenUp BY <1>4, <2>1, <3>1 DEF History
    <3>2. CASE ~GivenUp BY <1>4, <2>1, <3>2
    <3> QED BY <3>1, <3>2
  <2>3. Quiet(p) BY <1>2, <1>4, <2>2, GotoQuiet DEF Holding, Working
  <2>4. sess' \in [active : BOOLEAN, old : BOOLEAN, gen : Nat] BY <1>1, <1>4 DEF Stored
  <2>5. lane' \in Lane BY <1>1, <1>4, NoLaneType DEF Stored
  <2>6. log' \in Seq(SUBSET Records) BY <1>1, <1>4 DEF Stored
  <2>7. Stored' BY <1>1, <1>2, <2>2, <2>4, <2>5, <2>6 DEF Stored
  <2> QED BY <2>3, <2>7, QuietKeeps
<1> QED BY <1>3, <1>4 DEF Prepare

LEMMA LoadKeeps ==
    ASSUME IInv, NEW p \in Procs, Load(p)
    PROVE  IInv'
<1>1. Stored /\ w[p] \in Connector BY ConnectorOf
<1>2. w[p].pc \in Working /\ UNCHANGED <<lease, jobs, kind, list, sess, evid, cache, log, hist>>
  BY DEF Load, At, Working
<1>3. lane' = lane \/ lane' = NoLane BY DEF Load
<1>4. Stored' BY <1>1, <1>2, <1>3, NoLaneType DEF Stored
<1>5. CASE Goto(p, "release")
  <2>1. Quiet(p) BY <1>2, <1>5, GotoQuiet DEF Holding
  <2> QED BY <2>1, <1>4, QuietKeeps
<1>6. CASE lane.ver # "cur" /\ Become(p, [w[p] EXCEPT !.pc = "fetch"])
  <2>1. Quiet(p) BY <1>2, <1>6, GotoQuiet DEF Holding, Working, Goto
  <2> QED BY <2>1, <1>4, QuietKeeps
<1>7. ASSUME NEW pc \in {"own_complete", "release", "fetch"},
             Become(p, [w[p] EXCEPT !.next = lane.next, !.seen = lane.seen, !.known = TRUE,
                               !.total = lane.total, !.pages = lane.pages, !.hashes = {lane.hash} \ {{}},
                               !.pc = pc])
      PROVE  IInv'
  <2> DEFINE r == [w[p] EXCEPT !.next = lane.next, !.seen = lane.seen, !.known = TRUE,
                               !.total = lane.total, !.pages = lane.pages, !.hashes = {lane.hash} \ {{}},
                               !.pc = pc]
  <2>1. lane \in Lane BY <1>1 DEF Stored
  <2>2. /\ lane.next \in Nat \ {0} /\ lane.seen \in Nat /\ lane.total \in Nat /\ lane.pages \in Nat
        /\ {lane.hash} \ {{}} \in SUBSET SUBSET Records
    BY <2>1 DEF Lane
  <2>3. pc \in Working \cup {"off", "acquire", "release"} BY <1>7 DEF Working
  <2>4. r \in Connector /\ r.pc = pc /\ r.own = w[p].own /\ r.left = w[p].left
    BY <1>1, <2>2, <2>3 DEF Connector
  <2>5. pc \in Holding BY <1>7 DEF Holding, Working
  <2>6. w' = [w EXCEPT ![p] = Kept(r)] BY <1>7 DEF Become
  <2> HIDE DEF r
  <2>7. Quiet(p) BY <1>2, <2>4, <2>5, <2>6 DEF Quiet
  <2> QED BY <2>7, <1>4, QuietKeeps
<1>8. \/ Goto(p, "release")
      \/ lane.ver # "cur" /\ Become(p, [w[p] EXCEPT !.pc = "fetch"])
      \/ \E pc \in {"own_complete", "release", "fetch"} :
            Become(p, [w[p] EXCEPT !.next = lane.next, !.seen = lane.seen, !.known = TRUE,
                               !.total = lane.total, !.pages = lane.pages, !.hashes = {lane.hash} \ {{}},
                               !.pc = pc])
  <2>1. (CASE lane.done -> "own_complete" [] ~lane.done /\ lane.next > PageLimit -> "release"
           [] OTHER -> "fetch") \in {"own_complete", "release", "fetch"}
    OBVIOUS
  <2> QED BY <2>1 DEF Load
<1> QED BY <1>5, <1>6, <1>7, <1>8

LEMMA FetchPageKeeps ==
    ASSUME IInv, NEW p \in Procs, FetchPage(p)
    PROVE  IInv'
<1>1. Stored /\ w[p] \in Connector /\ TypeOK BY ConnectorOf DEF IInv
<1>2. w[p].pc \in Working /\ UNCHANGED <<kind, list, lease, jobs, sess, lane, evid, cache, log, hist>>
  BY DEF FetchPage, At, Working, db
<1>3. Stored' BY <1>1, <1>2 DEF Stored
<1> DEFINE page == PageAt(w[p].next)
           r == [w[p] EXCEPT !.page = page, !.total = list.total, !.pages = Len(list.page)]
<1>4. w[p].next \in Nat \ {0} BY <1>1 DEF Connector
<1>5. page \in SUBSET Records /\ list.total \in Nat /\ Len(list.page) \in Nat BY <1>1, <1>4, PageAtType
<1>6. r \in Connector /\ r.own = w[p].own /\ r.left = w[p].left
  BY <1>1, <1>5 DEF Connector
<1>7. CASE Become(p, Failed(p))
  <2>1. Quiet(p) BY <1>2, <1>7, FailedQuiet
  <2> QED BY <2>1, <1>3, QuietKeeps
<1>8. CASE Become(p, [r EXCEPT !.pc = "own"])
  <2>1. /\ [r EXCEPT !.pc = "own"] \in Connector /\ [r EXCEPT !.pc = "own"].pc = "own"
        /\ [r EXCEPT !.pc = "own"].own = w[p].own /\ [r EXCEPT !.pc = "own"].left = w[p].left
    BY <1>6 DEF Connector, Working
  <2> HIDE DEF r
  <2>2. Quiet(p) BY <1>2, <1>8, <2>1 DEF Quiet, Become, Holding, Working
  <2> QED BY <2>2, <1>3, QuietKeeps
<1>9. CASE Become(p, NextOpaque(r))
  <2> HIDE DEF r
  <2>1. /\ NextOpaque(r) \in Connector
        /\ NextOpaque(r).pc \in {"own_complete", "partial", "release", "fetch"}
        /\ NextOpaque(r).own = r.own /\ NextOpaque(r).left = r.left
    BY <1>6, NextOpaqueType
  <2>2. NextOpaque(r).pc \in Holding BY <2>1 DEF Holding, Working
  <2>3. Quiet(p) BY <1>2, <1>6, <1>9, <2>1, <2>2 DEF Quiet, Become
  <2> QED BY <2>3, <1>3, QuietKeeps
<1>10. Become(p, Failed(p)) \/ Become(p, [r EXCEPT !.pc = "own"]) \/ Become(p, NextOpaque(r))
  BY DEF FetchPage
<1> QED BY <1>7, <1>8, <1>9, <1>10

LEMMA FetchTimeoutKeeps ==
    ASSUME IInv, NEW p \in Procs, FetchTimeout(p)
    PROVE  IInv'
<1>1. Stored BY ConnectorOf
<1>2. /\ w[p].pc \in Working /\ UNCHANGED <<kind, list, lease, jobs, sess, lane, evid, cache, log, hist>>
      /\ Goto(p, "partial")
  BY DEF FetchTimeout, At, Working, db
<1>3. Stored' BY <1>1, <1>2 DEF Stored
<1>4. Quiet(p) BY <1>2, GotoQuiet DEF Holding, Working
<1> QED BY <1>3, <1>4, QuietKeeps

LEMMA UnstoredQuiet ==
    ASSUME IInv, NEW p \in Procs, Become(p, Unstored(p)), w[p].pc \in Working,
           UNCHANGED <<lease, jobs>>, hist'.owners = hist.owners, hist'.jumps = hist.jumps
    PROVE  Quiet(p)
<1>1. w[p] \in Connector BY ConnectorOf
<1>2. /\ Unstored(p) \in Connector
      /\ Unstored(p).pc \in {"own_complete", "partial", "release", "fetch"}
      /\ Unstored(p).own = w[p].own /\ Unstored(p).left = w[p].left
  BY <1>1, UnstoredType
<1>3. Unstored(p).pc \in Holding BY <1>2 DEF Holding, Working
<1> QED BY <1>2, <1>3 DEF Quiet, Become

LEMMA StorePageKeeps ==
    ASSUME IInv, NEW p \in Procs, StorePage(p)
    PROVE  IInv'
<1>1. Stored /\ w[p] \in Connector /\ TypeOK BY ConnectorOf DEF IInv
<1>2. w[p].pc \in Working /\ UNCHANGED <<kind, list, lease, jobs, lane, log>>
  BY DEF StorePage, At, Working
<1>3. Stored' /\ hist'.owners = hist.owners /\ hist'.jumps = hist.jumps
  <2>1. CASE PageWritten(p) BY <1>1, <1>2, <2>1, PageWrittenType DEF Stored
  <2>2. CASE UNCHANGED <<sess, hist, evid, cache>> BY <1>1, <1>2, <2>2 DEF Stored
  <2> QED BY <2>1, <2>2 DEF StorePage
<1> DEFINE r == [w[p] EXCEPT !.names = @ \cup (w[p].page \cap Scope)]
<1>4. r \in Connector /\ r.own = w[p].own /\ r.left = w[p].left
  BY <1>1 DEF Connector
<1>5. Become(p, Unstored(p)) \/ Become(p, NextOpaque(r)) BY DEF StorePage
<1> HIDE DEF r
<1>6. CASE Become(p, Unstored(p))
  <2>1. Quiet(p) BY <1>2, <1>3, <1>6, UnstoredQuiet
  <2> QED BY <2>1, <1>3, QuietKeeps
<1>7. CASE Become(p, NextOpaque(r))
  <2>1. /\ NextOpaque(r) \in Connector
        /\ NextOpaque(r).pc \in {"own_complete", "partial", "release", "fetch"}
        /\ NextOpaque(r).own = r.own /\ NextOpaque(r).left = r.left
    BY <1>4, NextOpaqueType
  <2>2. NextOpaque(r).pc \in Holding BY <2>1 DEF Holding, Working
  <2>3. Quiet(p) BY <1>2, <1>3, <1>4, <1>7, <2>1, <2>2 DEF Quiet, Become
  <2> QED BY <2>3, <1>3, QuietKeeps
<1> QED BY <1>5, <1>6, <1>7

LEMMA CommitPageKeeps ==
    ASSUME IInv, NEW p \in Procs, CommitPage(p)
    PROVE  IInv'
<1>1. Stored /\ w[p] \in Connector /\ TypeOK BY ConnectorOf DEF IInv
<1>2. w[p].pc \in Working /\ UNCHANGED <<kind, list, lease, jobs>>
  BY DEF CommitPage, At, Working
<1>3. w[p].page \in SUBSET Records /\ w[p].next \in Nat \ {0} /\ w[p].seen \in Nat
      /\ w[p].total \in Nat /\ w[p].pages \in Nat
  BY <1>1 DEF Connector
<1>4. Sum(p) \in Nat
  <2>1. Cardinality(w[p].page) \in Nat BY <1>3, PageFinite
  <2> QED BY <1>3, <2>1 DEF Sum
<1> DEFINE r == [w[p] EXCEPT !.seen = Sum(p), !.known = TRUE, !.names = @ \cup (w[p].page \cap Scope),
                             !.hashes = @ \cup ({w[p].page} \ {{}})]
           last == IF r.seen = r.total THEN "own_finish" ELSE IF r.names # {} THEN "partial" ELSE "release"
           next == [r EXCEPT !.next = @ + 1, !.pc = Advance(r, last)]
           new == [ver |-> "cur", next |-> w[p].next + 1, seen |-> Sum(p), total |-> w[p].total,
                   pages |-> w[p].pages, hash |-> w[p].page, done |-> FALSE]
<1>5. CASE Become(p, Failed(p)) /\ UNCHANGED <<db, hist>>
  <2>1. Quiet(p) BY <1>2, <1>5, FailedQuiet
  <2>2. Stored' BY <1>1, <1>2, <1>5 DEF Stored, db
  <2> QED BY <2>1, <2>2, QuietKeeps
<1>6. r \in Connector /\ r.own = w[p].own /\ r.left = w[p].left
  <2>1. w[p].names \cup (w[p].page \cap Scope) \in SUBSET Scope BY <1>1 DEF Connector
  <2>2. w[p].hashes \cup ({w[p].page} \ {{}}) \in SUBSET SUBSET Records BY <1>1, <1>3 DEF Connector
  <2> QED BY <1>1, <1>4, <2>1, <2>2 DEF Connector
<1>7. last \in {"own_finish", "partial", "release"} OBVIOUS
<1>8. new \in Lane BY <1>3, <1>4 DEF Lane
<1>9. \/ Become(p, Failed(p)) /\ UNCHANGED <<db, hist>>
      \/ PageWritten(p) /\ lane' = new /\ log' = Append(log, w[p].page) /\ Become(p, next)
      \/ Become(p, next) /\ UNCHANGED <<db, hist>>
  BY DEF CommitPage
<1>10. CASE Become(p, next)
  <2>1. Stored' /\ hist'.owners = hist.owners /\ hist'.jumps = hist.jumps
    <3>1. CASE UNCHANGED <<db, hist>> BY <1>1, <1>2, <3>1 DEF Stored, db
    <3>2. CASE PageWritten(p) /\ lane' = new /\ log' = Append(log, w[p].page)
      <4>1. log' \in Seq(SUBSET Records) BY <1>1, <1>3, <3>2 DEF Stored
      <4> HIDE DEF new
      <4> QED BY <1>1, <1>2, <1>8, <3>2, <4>1, PageWrittenType DEF Stored
    <3> HIDE DEF new, next
    <3> QED BY <3>1, <3>2, <1>9
  <2> HIDE DEF r, last
  <2>2. Advance(r, last) \in {"own_finish", "partial", "release", "fetch"} BY <1>7 DEF Advance
  <2>3. r.next + 1 \in Nat \ {0} BY <1>6 DEF Connector
  <2>4. Advance(r, last) \in Working \cup {"off", "acquire", "release"} BY <2>2 DEF Working
  <2>5. next \in Connector /\ next.pc = Advance(r, last) /\ next.own = w[p].own /\ next.left = w[p].left
    BY <1>6, <2>3, <2>4 DEF Connector
  <2>6. next.pc \in Holding BY <2>2, <2>5 DEF Holding, Working
  <2> HIDE DEF next
  <2>7. Quiet(p) BY <1>2, <1>10, <2>1, <2>5, <2>6 DEF Quiet, Become
  <2> QED BY <2>1, <2>7, QuietKeeps
<1> HIDE DEF next, new
<1> QED BY <1>5, <1>9, <1>10

LEMMA FinishLaneKeeps ==
    ASSUME IInv, NEW p \in Procs, FinishLane(p)
    PROVE  IInv'
<1>1. Stored BY ConnectorOf
<1>2. w[p].pc \in Working /\ UNCHANGED <<kind, list, lease, jobs, sess, evid, cache, log, hist>>
  BY DEF FinishLane, At, Working
<1>3. Stored'
  <2>1. lane' = lane \/ lane' = [lane EXCEPT !.done = TRUE] BY DEF FinishLane
  <2>2. lane' \in Lane BY <1>1, <2>1 DEF Stored, Lane
  <2> QED BY <1>1, <1>2, <2>2 DEF Stored
<1>4. CASE Goto(p, "own_complete")
  <2>1. Quiet(p) BY <1>2, <1>4, GotoQuiet DEF Holding, Working
  <2> QED BY <2>1, <1>3, QuietKeeps
<1>5. CASE Become(p, Failed(p))
  <2>1. Quiet(p) BY <1>2, <1>5, FailedQuiet
  <2> QED BY <2>1, <1>3, QuietKeeps
<1> QED BY <1>4, <1>5 DEF FinishLane

LEMMA PublishKeeps ==
    ASSUME IInv, NEW p \in Procs, Publish(p)
    PROVE  IInv'
<1>1. Stored BY ConnectorOf
<1>2. w[p].pc \in Working /\ UNCHANGED <<kind, list, lease, jobs, evid>> /\ Goto(p, "release")
  BY DEF Publish, At, Working
<1>3. Stored' /\ hist'.owners = hist.owners /\ hist'.jumps = hist.jumps
  <2>1. CASE UNCHANGED <<cache, lane, log, sess, hist>> BY <1>1, <1>2, <2>1 DEF Stored
  <2>2. CASE /\ cache' = "fresh" /\ lane' = NoLane /\ log' = <<>>
             /\ sess' = [sess EXCEPT !.active = FALSE, !.old = FALSE]
             /\ hist' = [hist EXCEPT !.pubs = @ + 1]
    <3>1. hist' \in History /\ hist'.owners = hist.owners /\ hist'.jumps = hist.jumps
      <4>1. hist \in History BY <1>1 DEF Stored
      <4>2. hist' = [hist EXCEPT !.pubs = @ + 1] BY <2>2
      <4> QED BY <4>1, <4>2 DEF History
    <3>2. sess' \in [active : BOOLEAN, old : BOOLEAN, gen : Nat] BY <1>1, <2>2 DEF Stored
    <3> QED BY <1>1, <1>2, <2>2, <3>1, <3>2, NoLaneType DEF Stored
  <2> QED BY <2>1, <2>2 DEF Publish
<1>4. Quiet(p) BY <1>2, <1>3, GotoQuiet DEF Holding
<1> QED BY <1>3, <1>4, QuietKeeps

LEMMA MarkPartialKeeps ==
    ASSUME IInv, NEW p \in Procs, MarkPartial(p)
    PROVE  IInv'
<1>1. Stored BY ConnectorOf
<1>2. /\ w[p].pc \in Working /\ UNCHANGED <<kind, list, lease, jobs, sess, lane, evid, log, hist>>
      /\ Goto(p, "release")
  BY DEF MarkPartial, At, Working
<1>3. cache' \in {"none", "stale", "fresh"} BY <1>1 DEF MarkPartial, Marked, Stored
<1>4. Stored' BY <1>1, <1>2, <1>3 DEF Stored
<1>5. Quiet(p) BY <1>2, GotoQuiet DEF Holding
<1> QED BY <1>4, <1>5, QuietKeeps

-----------------------------------------------------------------------------
(* The steps on the lease.                                                 *)

\* A step that makes p idle and takes away at most the lease of p.
LEMMA IdleKeeps ==
    ASSUME IInv, NEW p \in Procs, Become(p, Idle),
           UNCHANGED <<kind, list, sess, lane, evid, cache, log, hist>>,
           \/ lease' = lease
           \/ w[p].pc \in Holding /\ lease' = Without(w[p].own),
           \/ jobs' \subseteq jobs
           \/ w[p].pc \in Holding /\ jobs' = jobs \cup {[proc |-> p, own |-> w[p].own]}
    PROVE  IInv'
<1>1. Stored /\ w[p] \in Connector /\ w \in [Procs -> Connector] BY ConnectorOf DEF IInv, TypeOK
<1>2. Kept(Idle) = Idle /\ Idle.pc = "off" BY DEF Kept, Idle
<1>3. w' = [w EXCEPT ![p] = Idle] BY <1>2 DEF Become
<1>4. w' \in [Procs -> Connector] BY <1>1, <1>3, IdleType
<1>5. w'[p].pc \notin Holding /\ w'[p].pc \notin Working /\ \A q \in Procs : q # p => w'[q] = w[q]
  BY <1>1, <1>2, <1>3 DEF Holding, Working
<1>6. hist' = hist BY DEF IInv
<1>7. lease' \in [owner : 0..MaxOwner, left : 0..Ttl]
  BY BoundAssumption DEF IInv, TypeOK, Without, NoLease, Ttl
<1>8. jobs' \subseteq [proc : Procs, own : 1..MaxOwner] /\ \A j \in jobs' : j \in jobs \/ (w[p].pc \in Holding /\ j.own = w[p].own)
  <2>1. w[p].pc \in Holding => w[p].own \in 1..hist.owners BY DEF IInv, OwnersFresh
  <2>2. hist.owners \in 0..MaxOwner BY <1>1 DEF Stored, History
  <2>3. w[p].pc \in Holding => w[p].own \in 1..MaxOwner BY <2>1, <2>2, BoundAssumption
  <2> QED BY <2>3 DEF IInv, TypeOK
<1>9. lease'.owner \in {0, lease.owner} BY DEF Without, NoLease
<1>10. OwnersFresh'
  <2>1. hist.owners \in Nat BY <1>1 DEF Stored, History
  <2>2. lease'.owner <= hist'.owners BY <1>6, <1>9, <2>1 DEF IInv, OwnersFresh
  <2>3. \A q \in Procs : w'[q].pc \in Holding => w'[q].own \in 1..hist'.owners
    BY <1>5, <1>6 DEF IInv, OwnersFresh
  <2>4. \A j \in jobs' : j.own \in 1..hist'.owners BY <1>6, <1>8 DEF IInv, OwnersFresh
  <2>5. \A a, b \in Procs : w'[a].pc \in Holding /\ w'[b].pc \in Holding /\ w'[a].own = w'[b].own => a = b
    BY <1>5 DEF IInv, OwnersFresh
  <2>6. \A j \in jobs', q \in Procs : w'[q].pc \in Holding => j.own # w'[q].own
    BY <1>5, <1>8 DEF IInv, OwnersFresh
  <2> QED BY <2>2, <2>3, <2>4, <2>5, <2>6 DEF OwnersFresh
<1>11. LeaseCovers'
  <2>1. SUFFICES ASSUME hist.jumps = 0, NEW q \in Procs, w'[q].pc \in Working, w'[q].left > 0
                 PROVE  lease'.owner = w'[q].own /\ lease'.left > w'[q].left
    BY <1>6 DEF LeaseCovers
  <2>2. q # p /\ w'[q] = w[q] BY <2>1, <1>5
  <2>3. lease.owner = w[q].own /\ lease.left > w[q].left BY <2>1, <2>2 DEF IInv, LeaseCovers
  <2>4. w[p].pc \in Holding => w[p].own # w[q].own
    BY <2>1, <2>2 DEF IInv, OwnersFresh, Holding
  <2>5. lease' = lease BY <2>3, <2>4 DEF Without
  <2> QED BY <2>2, <2>3, <2>5
<1>12. Stored' BY <1>1 DEF Stored
<1> QED BY <1>4, <1>7, <1>8, <1>10, <1>11, <1>12 DEF IInv, TypeOK, Stored

LEMMA BeginKeeps ==
    ASSUME IInv, NEW p \in Procs, Begin(p)
    PROVE  IInv'
<1> DEFINE r == [Idle EXCEPT !.pc = "acquire", !.left = Budget]
<1>0. Budget \in 0..Budget BY BoundAssumption
<1>1. r \in Connector /\ r.pc = "acquire" BY <1>0, IdleType DEF Connector
<1>2. w' = [w EXCEPT ![p] = Kept(r)] /\ UNCHANGED <<kind, list, lease, jobs, sess, lane, evid, cache, log, hist>>
  BY DEF Begin, Become, db
<1> HIDE DEF r
<1>3. Kept(r) \in Connector /\ Kept(r).pc = "acquire" BY <1>1, KeptType
<1>4. w \in [Procs -> Connector] BY DEF IInv, TypeOK
<1>5. /\ w' \in [Procs -> Connector] /\ w'[p].pc \notin Holding /\ w'[p].pc \notin Working
      /\ \A q \in Procs : q # p => w'[q] = w[q]
  BY <1>2, <1>3, <1>4 DEF Holding, Working
<1>6. OwnersFresh' BY <1>2, <1>5 DEF IInv, OwnersFresh
<1>7. LeaseCovers' BY <1>2, <1>5 DEF IInv, LeaseCovers
<1> QED BY <1>2, <1>5, <1>6, <1>7 DEF IInv, TypeOK

LEMMA AcquireKeeps ==
    ASSUME IInv, NEW p \in Procs, Acquire(p)
    PROVE  IInv'
<1>1. Stored /\ w[p] \in Connector /\ w \in [Procs -> Connector] BY ConnectorOf DEF IInv, TypeOK
<1>2. UNCHANGED <<kind, list, jobs, sess, lane, evid, cache, log>> BY DEF Acquire, db
<1>3. CASE Become(p, Idle) /\ UNCHANGED <<lease, hist>>
  BY <1>2, <1>3, IdleKeeps
<1>4. CASE /\ InTime(p) /\ lease.left = 0 /\ hist.owners < MaxOwner
           /\ hist' = [hist EXCEPT !.owners = @ + 1]
           /\ lease' = [owner |-> hist'.owners, left |-> Ttl]
           /\ Become(p, [w[p] EXCEPT !.own = hist'.owners,
                                     !.pc = IF kind = "numeric" THEN "prepare" ELSE "fetch"])
  <2> DEFINE new == hist.owners + 1
             pc == IF kind = "numeric" THEN "prepare" ELSE "fetch"
             r == [w[p] EXCEPT !.own = new, !.pc = pc]
  <2>1. hist \in History BY <1>1 DEF Stored
  <2>2. /\ new \in 1..MaxOwner /\ hist' \in History /\ hist'.owners = new /\ hist'.jumps = hist.jumps
        /\ hist.owners \in Nat
    BY <1>4, <2>1, BoundAssumption DEF History
  <2>3. pc \in {"prepare", "fetch"} OBVIOUS
  <2>4. w' = [w EXCEPT ![p] = Kept(r)] BY <1>4, <2>2 DEF Become
  <2> HIDE DEF pc, new
  <2>5. new \in 0..MaxOwner /\ pc \in Working BY <2>2, <2>3 DEF Working
  <2>6. r \in Connector /\ r.pc = pc /\ r.own = new /\ r.left = w[p].left
    BY <1>1, <2>5 DEF Connector
  <2> HIDE DEF r
  <2>7. Kept(r) \in Connector /\ Kept(r).pc = pc /\ Kept(r).own = new /\ Kept(r).left = w[p].left
    BY <2>3, <2>6, KeptType
  <2>8. /\ w' \in [Procs -> Connector] /\ w'[p].pc \in Working /\ w'[p].own = new /\ w'[p].left = w[p].left
        /\ \A q \in Procs : q # p => w'[q] = w[q]
    BY <1>1, <2>4, <2>5, <2>7
  <2>9. lease' = [owner |-> new, left |-> Ttl] BY <1>4, <2>2
  <2>10. OwnersFresh'
    <3>1. lease'.owner <= hist'.owners BY <2>2, <2>9
    <3>2. \A q \in Procs : w'[q].pc \in Holding => w'[q].own \in 1..hist'.owners
      <4>1. \A q \in Procs : w[q].pc \in Holding => w[q].own \in 1..hist.owners BY DEF IInv, OwnersFresh
      <4>2. hist'.owners = hist.owners + 1 BY <2>2 DEF new
      <4>3. new \in 1..hist'.owners BY <2>2
      <4> QED BY <2>2, <2>8, <4>1, <4>2, <4>3
    <3>3. \A j \in jobs' : j.own \in 1..hist'.owners
      <4>1. \A j \in jobs : j.own \in 1..hist.owners BY DEF IInv, OwnersFresh
      <4>2. hist'.owners = hist.owners + 1 BY <2>2 DEF new
      <4> QED BY <1>2, <2>2, <4>1, <4>2
    <3>4. \A q \in Procs : w[q].pc \in Holding => w[q].own # new
      BY <2>2 DEF IInv, OwnersFresh, new
    <3>5. \A j \in jobs : j.own # new BY <2>2 DEF IInv, OwnersFresh, new
    <3>6. \A a, b \in Procs : w'[a].pc \in Holding /\ w'[b].pc \in Holding /\ w'[a].own = w'[b].own => a = b
      BY <2>8, <3>4 DEF IInv, OwnersFresh
    <3>7. \A j \in jobs', q \in Procs : w'[q].pc \in Holding => j.own # w'[q].own
      BY <1>2, <2>8, <3>5 DEF IInv, OwnersFresh
    <3> QED BY <3>1, <3>2, <3>3, <3>6, <3>7 DEF OwnersFresh
  <2>11. LeaseCovers'
    <3>1. SUFFICES ASSUME hist.jumps = 0, NEW q \in Procs, w'[q].pc \in Working, w'[q].left > 0
                   PROVE  lease'.owner = w'[q].own /\ lease'.left > w'[q].left
      BY <2>2 DEF LeaseCovers
    <3>2. CASE q = p
      <4>1. w[p].left \in 0..Budget BY <1>1 DEF Connector
      <4>2. Ttl > w[p].left BY <4>1, BoundAssumption DEF Ttl
      <4> QED BY <2>8, <2>9, <3>2, <4>2
    <3>3. CASE q # p
      <4>1. lease.left > w[q].left /\ w[q].left > 0 BY <2>8, <3>1, <3>3 DEF IInv, LeaseCovers
      <4>2. w[q].left \in Nat BY <1>1, BoundAssumption DEF Connector
      <4> QED BY <1>4, <4>1, <4>2
    <3> QED BY <3>2, <3>3
  <2>12. lease' \in [owner : 0..MaxOwner, left : 0..Ttl]
    BY <2>5, <2>9, BoundAssumption DEF Ttl
  <2>13. Stored' BY <1>1, <1>2, <2>2 DEF Stored
  <2> QED BY <1>2, <2>8, <2>10, <2>11, <2>12, <2>13 DEF IInv, TypeOK, Stored
<1> QED BY <1>3, <1>4 DEF Acquire

LEMMA EnsureOwnedKeeps ==
    ASSUME IInv, NEW p \in Procs, EnsureOwned(p)
    PROVE  IInv'
<1>1. Stored /\ w[p] \in Connector /\ w \in [Procs -> Connector] BY ConnectorOf DEF IInv, TypeOK
<1>2. w[p].pc \in Working /\ UNCHANGED <<kind, list, jobs, sess, lane, evid, cache, log, hist>>
  BY DEF EnsureOwned, Working, db
<1>3. Stored' BY <1>1, <1>2 DEF Stored
<1>4. CASE Become(p, [w[p] EXCEPT !.pc = "release"]) /\ UNCHANGED lease
  <2>1. Quiet(p) BY <1>2, <1>4, GotoQuiet DEF Holding, Goto
  <2> QED BY <2>1, <1>3, QuietKeeps
<1>5. CASE Become(p, Unstored(p)) /\ UNCHANGED lease
  <2>1. Quiet(p) BY <1>2, <1>5, UnstoredQuiet
  <2> QED BY <2>1, <1>3, QuietKeeps
<1>6. CASE Become(p, Failed(p)) /\ UNCHANGED lease
  <2>1. Quiet(p) BY <1>2, <1>6, FailedQuiet
  <2> QED BY <2>1, <1>3, QuietKeeps
<1>7. ASSUME NEW pc \in {"commit", "store", "finish", "complete"},
             InTime(p), Owns(p), lease' = [lease EXCEPT !.left = Renewed(p)], Goto(p, pc)
      PROVE  IInv'
  <2> DEFINE r == [w[p] EXCEPT !.pc = pc]
  <2>1. pc \in Working BY <1>7 DEF Working
  <2>2. r \in Connector /\ r.pc = pc /\ r.own = w[p].own /\ r.left = w[p].left
    BY <1>1, <2>1 DEF Connector
  <2>3. w' = [w EXCEPT ![p] = Kept(r)] BY <1>7 DEF Goto, Become
  <2> HIDE DEF r
  <2>4. Kept(r) \in Connector /\ Kept(r).pc = pc /\ Kept(r).own = w[p].own /\ Kept(r).left = w[p].left
    BY <2>1, <2>2, KeptType, <1>7
  <2>5. /\ w' \in [Procs -> Connector] /\ w'[p].pc \in Working /\ w'[p].own = w[p].own
        /\ w'[p].left = w[p].left /\ \A q \in Procs : q # p => w'[q] = w[q]
    BY <1>1, <2>1, <2>3, <2>4
  <2>6. lease \in [owner : 0..MaxOwner, left : 0..Ttl] BY DEF IInv, TypeOK
  <2>7. w[p].left \in 0..Budget BY <1>1 DEF Connector
  <2>8. Renewed(p) \in 0..Ttl /\ Renewed(p) > w[p].left
    BY <2>7, BoundAssumption DEF Renewed, Ttl
  <2>9. lease' \in [owner : 0..MaxOwner, left : 0..Ttl] /\ lease'.owner = lease.owner /\ lease'.left = Renewed(p)
    BY <1>7, <2>6, <2>8
  <2>10. OwnersFresh' BY <1>2, <2>5, <2>9 DEF IInv, OwnersFresh, Holding
  <2>11. LeaseCovers'
    <3>1. SUFFICES ASSUME hist.jumps = 0, NEW q \in Procs, w'[q].pc \in Working, w'[q].left > 0
                   PROVE  lease'.owner = w'[q].own /\ lease'.left > w'[q].left
      BY <1>2 DEF LeaseCovers
    <3>2. w[q].pc \in Working /\ w[q].left > 0 /\ w'[q].own = w[q].own
      BY <1>2, <2>5, <3>1
    <3>3. lease.owner = w[q].own BY <3>1, <3>2 DEF IInv, LeaseCovers
    <3>4. w[q].own = w[p].own BY <3>3, <1>7 DEF Owns
    <3>5. q = p BY <1>2, <3>2, <3>4 DEF IInv, OwnersFresh, Holding
    <3> QED BY <2>5, <2>8, <2>9, <3>3, <3>5
  <2> QED BY <1>2, <1>3, <2>5, <2>9, <2>10, <2>11 DEF IInv, TypeOK, Stored
<1>8. \/ Become(p, [w[p] EXCEPT !.pc = "release"]) /\ UNCHANGED lease
      \/ Become(p, Unstored(p)) /\ UNCHANGED lease
      \/ Become(p, Failed(p)) /\ UNCHANGED lease
      \/ \E pc \in {"commit", "store", "finish", "complete"} :
            InTime(p) /\ Owns(p) /\ lease' = [lease EXCEPT !.left = Renewed(p)] /\ Goto(p, pc)
  BY DEF EnsureOwned
<1> QED BY <1>4, <1>5, <1>6, <1>7, <1>8

LEMMA ReleaseKeeps ==
    ASSUME IInv, NEW p \in Procs, Release(p) \/ Drop(p) \/ Kill(p)
    PROVE  IInv'
<1>1. Become(p, Idle) /\ UNCHANGED <<kind, list, sess, lane, evid, cache, log, hist>>
  BY DEF Release, Drop, Kill, db
<1>2. lease' = lease \/ (w[p].pc \in Holding /\ lease' = Without(w[p].own))
  BY DEF Release, Drop, Kill, At, Holding, Working
<1>3. jobs' \subseteq jobs \/ (w[p].pc \in Holding /\ jobs' = jobs \cup {[proc |-> p, own |-> w[p].own]})
  BY DEF Release, Drop, Kill, At, Holding
<1> QED BY <1>1, <1>2, <1>3, IdleKeeps

LEMMA DeferredReleaseKeeps ==
    ASSUME IInv, NEW j \in jobs, DeferredRelease(j)
    PROVE  IInv'
<1>1. /\ UNCHANGED <<kind, list, sess, lane, evid, cache, log, w, hist>>
      /\ jobs' \subseteq jobs /\ lease' \in {lease, Without(j.own)}
  BY DEF DeferredRelease, db
<1>2. lease' \in [owner : 0..MaxOwner, left : 0..Ttl] /\ lease'.owner \in {0, lease.owner}
  BY <1>1, BoundAssumption DEF IInv, TypeOK, Without, NoLease, Ttl
<1>3. OwnersFresh'
  <2>1. hist.owners \in Nat BY DEF IInv, TypeOK, History
  <2> QED BY <1>1, <1>2, <2>1 DEF IInv, OwnersFresh
<1>4. LeaseCovers'
  <2>1. SUFFICES ASSUME hist.jumps = 0, NEW q \in Procs, w[q].pc \in Working, w[q].left > 0
                 PROVE  lease'.owner = w[q].own /\ lease'.left > w[q].left
    BY <1>1 DEF LeaseCovers
  <2>2. lease.owner = w[q].own /\ lease.left > w[q].left BY <2>1 DEF IInv, LeaseCovers
  <2>3. j.own # w[q].own BY <2>1 DEF IInv, OwnersFresh, Holding
  <2>4. lease' = lease BY <1>1, <2>2, <2>3 DEF Without
  <2> QED BY <2>2, <2>4
<1> QED BY <1>1, <1>2, <1>3, <1>4 DEF IInv, TypeOK

LEMMA TickKeeps ==
    ASSUME IInv, Tick
    PROVE  IInv'
<1>1. /\ UNCHANGED <<kind, list, jobs, sess, lane, evid, cache, log, hist>>
      /\ lease' = [lease EXCEPT !.left = Less(@)]
      /\ w' = [p \in Procs |-> [w[p] EXCEPT !.left = Less(@)]]
  BY DEF Tick, db
<1>2. \A p \in Procs : w[p] \in Connector BY DEF IInv, TypeOK
<1>3. \A p \in Procs : w[p].left \in 0..Budget /\ Less(w[p].left) \in 0..Budget
  BY <1>2, BoundAssumption DEF Connector, Less
<1>4. w' \in [Procs -> Connector] BY <1>1, <1>2, <1>3 DEF Connector
<1>5. \A p \in Procs : w'[p].pc = w[p].pc /\ w'[p].own = w[p].own /\ w'[p].left = Less(w[p].left)
  BY <1>1, <1>2 DEF Connector
<1>6. lease \in [owner : 0..MaxOwner, left : 0..Ttl] BY DEF IInv, TypeOK
<1>7. Less(lease.left) \in 0..Ttl /\ lease.left \in Nat BY <1>6, BoundAssumption DEF Less, Ttl
<1>8. /\ lease' \in [owner : 0..MaxOwner, left : 0..Ttl]
      /\ lease'.owner = lease.owner /\ lease'.left = Less(lease.left)
  BY <1>1, <1>6, <1>7
<1>9. OwnersFresh'
  <2>1. OwnersFresh /\ jobs' = jobs /\ hist' = hist BY <1>1 DEF IInv
  <2>2. lease'.owner = lease.owner BY <1>8
  <2>3. \A p \in Procs : w'[p].pc = w[p].pc /\ w'[p].own = w[p].own BY <1>5
  <2> QED BY <2>1, <2>2, <2>3 DEF OwnersFresh
<1>10. LeaseCovers'
  <2>1. SUFFICES ASSUME hist.jumps = 0, NEW q \in Procs, w'[q].pc \in Working, w'[q].left > 0
                 PROVE  lease'.owner = w'[q].own /\ lease'.left > w'[q].left
    BY <1>1 DEF LeaseCovers
  <2>2. w[q].pc \in Working /\ w[q].left > 0 /\ w'[q].left = w[q].left - 1
    BY <1>3, <1>5, <2>1, BoundAssumption DEF Less
  <2>3. lease.owner = w[q].own /\ lease.left > w[q].left BY <2>1, <2>2 DEF IInv, LeaseCovers
  <2> QED BY <1>3, <1>5, <1>7, <1>8, <2>2, <2>3, BoundAssumption DEF Less
<1> QED BY <1>1, <1>4, <1>8, <1>9, <1>10 DEF IInv, TypeOK

LEMMA EnvironmentKeeps ==
    ASSUME IInv, Jump \/ Expire \/ Abandon \/ Change
    PROVE  IInv'
<1>1. CASE Jump
  <2>1. /\ UNCHANGED <<kind, list, jobs, sess, lane, evid, cache, log, w>>
        /\ hist' = [hist EXCEPT !.jumps = @ + 1] /\ lease' = [lease EXCEPT !.left = 0]
        /\ hist.jumps < MaxJumps
    BY <1>1 DEF Jump, db
  <2>2. hist \in History BY DEF IInv, TypeOK
  <2>3. hist' \in History /\ hist'.owners = hist.owners /\ hist'.jumps # 0
    BY <2>1, <2>2, BoundAssumption DEF History
  <2>4. lease' \in [owner : 0..MaxOwner, left : 0..Ttl] /\ lease'.owner = lease.owner
    <3>1. lease \in [owner : 0..MaxOwner, left : 0..Ttl] BY DEF IInv, TypeOK
    <3>2. 0 \in 0..Ttl BY BoundAssumption DEF Ttl
    <3> QED BY <2>1, <3>1, <3>2
  <2>5. OwnersFresh' BY <2>1, <2>3, <2>4 DEF IInv, OwnersFresh
  <2>6. LeaseCovers' BY <2>3 DEF LeaseCovers
  <2> QED BY <2>1, <2>3, <2>4, <2>5, <2>6 DEF IInv, TypeOK
<1>2. CASE Expire
  BY <1>2 DEF Expire, IInv, TypeOK, OwnersFresh, LeaseCovers
<1>3. CASE Abandon
  <2>1. UNCHANGED <<kind, list, lease, jobs, lane, evid, cache, log, w, hist>> BY <1>3 DEF Abandon
  <2>2. sess' \in [active : BOOLEAN, old : BOOLEAN, gen : Nat] BY <1>3 DEF Abandon, IInv, TypeOK
  <2>3. OwnersFresh' /\ LeaseCovers' BY <2>1 DEF IInv, OwnersFresh, LeaseCovers
  <2> QED BY <2>1, <2>2, <2>3 DEF IInv, TypeOK
<1>4. CASE Change
  <2>1. /\ UNCHANGED <<kind, lease, jobs, sess, lane, evid, cache, log, w>> /\ list' \in Listings
        /\ hist' = [hist EXCEPT !.changes = @ + 1] /\ hist.changes < MaxChanges
    BY <1>4 DEF Change, db
  <2>2. hist \in History BY DEF IInv, TypeOK
  <2>3. hist' \in History /\ hist'.owners = hist.owners /\ hist'.jumps = hist.jumps
    BY <2>1, <2>2, BoundAssumption DEF History
  <2>4. OwnersFresh' /\ LeaseCovers' BY <2>1, <2>3 DEF IInv, OwnersFresh, LeaseCovers
  <2> QED BY <2>1, <2>3, <2>4 DEF IInv, TypeOK
<1> QED BY <1>1, <1>2, <1>3, <1>4

-----------------------------------------------------------------------------

LEMMA InitIInv == Init => IInv
<1> SUFFICES ASSUME Init PROVE IInv OBVIOUS
<1>1. w \in [Procs -> Connector] BY IdleType DEF Init
<1>2. \A p \in Procs : w[p].pc = "off" BY DEF Init, Idle
<1>3. lane \in Lane /\ sess \in [active : BOOLEAN, old : BOOLEAN, gen : Nat]
  <2>1. CASE lane = NoLane /\ sess = [active |-> FALSE, old |-> FALSE, gen |-> 0]
    BY <2>1, NoLaneType
  <2>2. CASE lane = [NoLane EXCEPT !.ver = "old", !.next = 2] /\ sess = [active |-> TRUE, old |-> FALSE, gen |-> 1]
    <3>1. lane = [ver |-> "old", next |-> 2, seen |-> 0, total |-> 0, pages |-> 0, hash |-> {}, done |-> FALSE]
      BY <2>2 DEF NoLane
    <3>2. lane \in Lane BY <3>1 DEF Lane
    <3> QED BY <2>2, <3>2
  <2> QED BY <2>1, <2>2 DEF Init
<1>4. hist \in History /\ hist.owners = 0 /\ lease \in [owner : 0..MaxOwner, left : 0..Ttl] /\ lease.owner = 0
  BY BoundAssumption DEF Init, History, NoLease, Ttl
<1>5. TypeOK
  BY <1>1, <1>3, <1>4 DEF Init, TypeOK
<1>6. OwnersFresh BY <1>2, <1>4 DEF Init, OwnersFresh, Holding, Working
<1>7. LeaseCovers BY <1>2 DEF LeaseCovers, Working
<1> QED BY <1>5, <1>6, <1>7 DEF IInv

LEMMA NextIInv == IInv /\ [Next]_vars => IInv'
<1> SUFFICES ASSUME IInv, [Next]_vars PROVE IInv' OBVIOUS
<1>1. CASE UNCHANGED vars
  BY <1>1 DEF vars, db, IInv, TypeOK, OwnersFresh, LeaseCovers
<1>2. CASE Tick BY <1>2, TickKeeps
<1>3. CASE Jump \/ Expire \/ Abandon \/ Change BY <1>3, EnvironmentKeeps
<1>4. CASE \E j \in jobs : DeferredRelease(j) BY <1>4, DeferredReleaseKeeps
<1>5. ASSUME NEW p \in Procs, Reserve(p) PROVE IInv'
  BY <1>5, BeginKeeps, AcquireKeeps, PrepareKeeps, LoadKeeps DEF Reserve
<1>6. ASSUME NEW p \in Procs, Collect(p) PROVE IInv'
  BY <1>6, FetchPageKeeps, FetchTimeoutKeeps, EnsureOwnedKeeps, StorePageKeeps, CommitPageKeeps DEF Collect
<1>7. ASSUME NEW p \in Procs, End(p) PROVE IInv'
  BY <1>7, FinishLaneKeeps, PublishKeeps, MarkPartialKeeps, ReleaseKeeps DEF End
<1> QED BY <1>1, <1>2, <1>3, <1>4, <1>5, <1>6, <1>7 DEF Next

LEMMA AlwaysIInv == Spec => []IInv
  BY InitIInv, NextIInv, PTL DEF Spec

\* Every step of a refresh keeps the types of the lease, the session, the checkpoint,
\* the evidence and the connectors; a renewal never exceeds the acquired duration.
THEOREM RefreshTyped == Spec => []TypeOK
<1>1. IInv => TypeOK BY DEF IInv
<1> QED BY <1>1, AlwaysIInv, PTL

\* While the clocks agree, a process that works on the source before its deadline is
\* alone and holds the lease, whatever the number of processes and leases: releases that
\* come late and takeovers of expired leases included.
THEOREM SingleRefresher == Spec => []OneRefresher
<1>1. IInv => OneRefresher
  <2>1. SUFFICES ASSUME IInv, hist.jumps = 0, NEW p \in Procs, Refreshing(p)
                 PROVE  /\ lease.owner = w[p].own /\ lease.left > 0
                        /\ \A q \in Procs : Refreshing(q) => p = q
    BY DEF OneRefresher
  <2>2. \A q \in Procs : Refreshing(q) => lease.owner = w[q].own /\ lease.left > w[q].left
    BY <2>1 DEF IInv, LeaseCovers, InTime, Refreshing
  <2>3. lease.left > 0
    <3>1. w[p].left > 0 /\ w[p].left \in 0..Budget BY <2>1 DEF IInv, TypeOK, Connector, InTime, Refreshing
    <3>2. lease.left \in 0..Ttl BY <2>1 DEF IInv, TypeOK
    <3> QED BY <2>1, <2>2, <3>1, <3>2, BoundAssumption DEF Ttl
  <2>4. \A q \in Procs : Refreshing(q) => p = q
    BY <2>1, <2>2 DEF IInv, OwnersFresh, Holding, Refreshing
  <2> QED BY <2>1, <2>2, <2>3, <2>4
<1> QED BY <1>1, AlwaysIInv, PTL

\* What LaneForward says of one step.
Forwarded ==
    lane.ver = "cur" /\ lane'.ver = "cur" => lane'.next >= lane.next /\ (lane.done => lane' = lane)

LEMMA StepForwarded ==
    ASSUME TypeOK, [Next]_vars
    PROVE  Forwarded
<1>1. lane \in Lane BY DEF TypeOK
<1>2. CASE lane' = lane BY <1>1, <1>2 DEF Forwarded, Lane
<1>3. CASE lane' = NoLane BY <1>3 DEF Forwarded, NoLane
<1>4. ASSUME NEW p \in Procs, CommitPage(p), lane' # lane PROVE Forwarded
  <2>1. Forward(p) /\ lane'.next = w[p].next + 1 BY <1>4 DEF CommitPage, db
  <2>2. w[p] \in Connector BY DEF TypeOK
  <2>3. CASE Agrees(p) /\ w[p].next = lane.next BY <1>1, <2>1, <2>2, <2>3 DEF Agrees, Forwarded, Lane, Connector
  <2>4. CASE lane.ver = "none" BY <2>4 DEF Forwarded
  <2> QED BY <2>1, <2>3, <2>4 DEF Forward
<1>5. ASSUME NEW p \in Procs, FinishLane(p) PROVE Forwarded
  <2>1. lane' = lane \/ lane' = [lane EXCEPT !.done = TRUE] BY <1>5 DEF FinishLane
  <2>2. CASE lane' = [lane EXCEPT !.done = TRUE]
    <3>1. lane'.next = lane.next /\ lane.next \in Nat BY <1>1, <2>2 DEF Lane
    <3>2. lane.done => lane' = lane BY <1>1, <2>2 DEF Lane
    <3> QED BY <3>1, <3>2 DEF Forwarded
  <2> QED BY <1>2, <2>1, <2>2
<1>6. CASE UNCHANGED vars \/ Tick \/ Jump \/ Expire \/ Abandon \/ Change
  BY <1>2, <1>6 DEF vars, db, Tick, Jump, Expire, Abandon, Change
<1>7. CASE \E j \in jobs : DeferredRelease(j) BY <1>2, <1>7 DEF DeferredRelease, db
<1>8. ASSUME NEW p \in Procs, Reserve(p) PROVE Forwarded
  BY <1>2, <1>3, <1>8 DEF Reserve, Begin, Acquire, Prepare, Load, db
<1>9. ASSUME NEW p \in Procs, Collect(p) PROVE Forwarded
  <2>1. CASE FetchPage(p) \/ FetchTimeout(p) \/ EnsureOwned(p) \/ StorePage(p)
    BY <1>2, <2>1 DEF FetchPage, FetchTimeout, EnsureOwned, StorePage, db
  <2> QED BY <1>2, <1>4, <1>9, <2>1 DEF Collect
<1>10. ASSUME NEW p \in Procs, End(p) PROVE Forwarded
  <2>1. CASE Publish(p) BY <1>2, <1>3, <2>1 DEF Publish
  <2>2. CASE MarkPartial(p) \/ Release(p) \/ Drop(p) \/ Kill(p)
    BY <1>2, <2>2 DEF MarkPartial, Release, Drop, Kill, db
  <2> QED BY <1>5, <1>10, <2>1, <2>2 DEF End
<1> QED BY <1>6, <1>7, <1>8, <1>9, <1>10 DEF Next

\* A durable checkpoint never moves back, and a finished lane changes only when it is
\* removed, whatever two processes, a late answer or a crash do.
THEOREM CheckpointForward == Spec => LaneForward
<1>1. TypeOK /\ [Next]_vars => [Forwarded]_vars BY StepForwarded
<1> QED BY <1>1, RefreshTyped, PTL DEF Spec, LaneForward, Forwarded

-----------------------------------------------------------------------------
(* What is durable: the checkpoint, the evidence and the publications.     *)

\* An abandoned session of a numeric lane is given up before a page is read.
Clear(p) == kind = "numeric" /\ GivenUp => w[p].pc \in {"off", "acquire", "prepare", "release"}

\* The lane belongs to numeric connectors, the writer's pages to opaque ones.
Staged(p) ==
    IF kind = "numeric" THEN w[p].pc # "store" ELSE w[p].pc \notin {"prepare", "load", "commit"}

\* An opaque connector that has not met an error has stored all its names.
Recorded(p) ==
    /\ w[p].pc \in {"off", "acquire", "prepare"} => w[p].names = {}
    /\ /\ kind = "opaque"
       /\ w[p].pc \in {"own_complete", "complete"} \/ (w[p].pc \in {"fetch", "own", "store"} /\ w[p].bad = FALSE)
       => \A n \in w[p].names : evid[n].times > 0

Orderly(p) == Clear(p) /\ Staged(p) /\ Recorded(p)

\* The checkpoint stands for the pages of the log.
Backed ==
    /\ lane.ver # "cur" => log = <<>>
    /\ lane.ver = "cur" =>
        /\ kind = "numeric" /\ sess.active = TRUE /\ lane.next = Len(log) + 1
        /\ Totals(log, lane.seen)
        /\ \A i \in Committed : \A n \in log[i] \cap Scope : evid[n].gen = sess.gen
        /\ lane.done = TRUE => lane.seen = lane.total /\ lane.next > lane.pages

\* times_seen is paid by generations, and a generation ends published or given up.
Ledger ==
    /\ \A n \in Scope :
          /\ evid[n].times <= evid[n].gen /\ evid[n].gen <= sess.gen
          /\ evid[n].gen > 0 => evid[n].times > 0
    /\ sess.active = TRUE => sess.gen > 0
    /\ sess.gen <= hist.pubs + hist.gcs + (IF sess.active = TRUE THEN 1 ELSE 0)

DInv == (\A p \in Procs : Orderly(p)) /\ Backed /\ Ledger

\* The database parts that DInv is about are left alone.
Untouched == UNCHANGED <<kind, sess, lane, evid, log>> /\ hist'.pubs = hist.pubs /\ hist'.gcs = hist.gcs

LEMMA UntouchedKeeps ==
    ASSUME DInv, Untouched
    PROVE  Backed' /\ Ledger' /\ (GivenUp' => GivenUp)
<1>1. Backed' BY DEF DInv, Backed, Untouched, Committed, Totals
<1>2. Ledger' BY DEF DInv, Ledger, Untouched
<1>3. GivenUp' => GivenUp BY DEF GivenUp, Untouched
<1> QED BY <1>1, <1>2, <1>3

\* A connector that does not move stays orderly.
LEMMA StillOrderly ==
    ASSUME NEW q \in Procs, Orderly(q), w[q] \in Connector, kind' = kind, GivenUp' => GivenUp,
           w'[q].pc = w[q].pc, w'[q].names = w[q].names, w'[q].bad = w[q].bad,
           \A n \in Scope : evid[n].times > 0 => evid'[n].times > 0
    PROVE  Orderly(q)'
<1>1. Clear(q)' BY DEF Orderly, Clear
<1>2. Staged(q)' BY DEF Orderly, Staged
<1>3. w[q].names \subseteq Scope BY DEF Connector
<1>4. Recorded(q)' BY <1>3 DEF Orderly, Recorded
<1> QED BY <1>1, <1>2, <1>4 DEF Orderly

\* What one connector does leaves the others orderly.
LEMMA OthersOrderly ==
    ASSUME IInv, DInv, NEW p \in Procs, \A q \in Procs : q # p => w'[q] = w[q], kind' = kind,
           GivenUp' => GivenUp, \A n \in Scope : evid[n].times > 0 => evid'[n].times > 0,
           Orderly(p)'
    PROVE  \A q \in Procs : Orderly(q)'
<1> SUFFICES ASSUME NEW q \in Procs, q # p PROVE Orderly(q)' OBVIOUS
<1>1. w[q] \in Connector /\ Orderly(q) /\ w'[q] = w[q] BY ConnectorOf DEF DInv
<1> QED BY <1>1, StillOrderly

LEMMA BecomeFacts ==
    ASSUME IInv, NEW p \in Procs, NEW r \in Connector, Become(p, r)
    PROVE  /\ w'[p].pc = r.pc
           /\ r.pc # "release" => w'[p].names = r.names
           /\ r.pc \in {"fetch", "own", "store"} => w'[p].bad = r.bad
           /\ \A q \in Procs : q # p => w'[q] = w[q]
<1>1. w \in [Procs -> Connector] BY DEF IInv, TypeOK
<1>2. w'[p] = Kept(r) /\ \A q \in Procs : q # p => w'[q] = w[q] BY <1>1 DEF Become
<1>3. Kept(r).pc = r.pc BY KeptType
<1>4. CASE r.pc = "release" BY <1>2, <1>3, <1>4
<1>5. CASE r.pc \in {"partial", "own_finish", "own_complete"}
  <2>1. Kept(r) = [Idle EXCEPT !.pc = r.pc, !.own = r.own, !.left = r.left, !.names = r.names]
    BY <1>5 DEF Kept
  <2>2. Kept(r).names = r.names BY <2>1 DEF Idle
  <2> QED BY <1>2, <1>3, <1>5, <2>2
<1>6. CASE r.pc = "fetch"
  <2>1. Kept(r) = [r EXCEPT !.page = {}] BY <1>6 DEF Kept
  <2>2. Kept(r).names = r.names /\ Kept(r).bad = r.bad BY <2>1 DEF Connector
  <2> QED BY <1>2, <1>3, <2>2
<1>7. CASE r.pc \notin {"release", "partial", "own_finish", "own_complete", "fetch"}
  <2>1. Kept(r) = r BY <1>7 DEF Kept
  <2> QED BY <1>2, <2>1
<1> QED BY <1>4, <1>5, <1>6, <1>7

\* A connector on its way out, or idle, is orderly.
LEMMA LeavingOrderly ==
    ASSUME NEW p \in Procs, w'[p].pc = "release"
    PROVE  Orderly(p)'
  BY DEF Orderly, Clear, Staged, Recorded

LEMMA IdleOrderly ==
    ASSUME IInv, NEW p \in Procs, Become(p, Idle)
    PROVE  Orderly(p)' /\ \A q \in Procs : q # p => w'[q] = w[q]
<1>1. Idle \in Connector /\ Idle.pc = "off" /\ Idle.names = {} BY IdleType DEF Idle
<1>2. w'[p].pc = "off" /\ w'[p].names = {} /\ \A q \in Procs : q # p => w'[q] = w[q]
  BY <1>1, BecomeFacts
<1> QED BY <1>2 DEF Orderly, Clear, Staged, Recorded

LEMMA GotoFacts ==
    ASSUME IInv, NEW p \in Procs, NEW pc \in Working \cup {"off", "acquire", "release"}, Goto(p, pc)
    PROVE  /\ w'[p].pc = pc
           /\ pc # "release" => w'[p].names = w[p].names
           /\ pc \in {"fetch", "own", "store"} => w'[p].bad = w[p].bad
           /\ \A q \in Procs : q # p => w'[q] = w[q]
<1>1. w[p] \in Connector BY ConnectorOf
<1> DEFINE r == [w[p] EXCEPT !.pc = pc]
<1>2. r \in Connector /\ r.pc = pc /\ r.names = w[p].names /\ r.bad = w[p].bad BY <1>1 DEF Connector
<1>3. Become(p, r) BY DEF Goto
<1> HIDE DEF r
<1> QED BY <1>2, <1>3, BecomeFacts

\* Between the load and the end of its lane a numeric connector needs its session alive
\* only for Clear; a step that does not revive GivenUp keeps the rest.
LEMMA FailedOrderly ==
    ASSUME IInv, DInv, NEW p \in Procs, Become(p, Failed(p)), kind' = kind, GivenUp' => GivenUp,
           w[p].pc \in Working \ {"prepare"}
    PROVE  Orderly(p)' /\ \A q \in Procs : q # p => w'[q] = w[q]
<1>1. w[p] \in Connector /\ Clear(p) BY ConnectorOf DEF DInv, Orderly
<1>2. Failed(p) \in Connector /\ Failed(p).pc \in {"partial", "release"} BY <1>1, FailedType
<1>3. w'[p].pc \in {"partial", "release"} /\ \A q \in Procs : q # p => w'[q] = w[q]
  BY <1>2, BecomeFacts
<1>4. ~(kind = "numeric" /\ GivenUp) BY <1>1 DEF Clear, Working
<1> QED BY <1>3, <1>4 DEF Orderly, Clear, Staged, Recorded

-----------------------------------------------------------------------------
(* The steps that leave the checkpoint and the evidence alone.             *)

LEMMA NextOpaqueFacts ==
    ASSUME NEW r \in Connector
    PROVE  /\ NextOpaque(r).names = r.names /\ NextOpaque(r).bad = r.bad
           /\ NextOpaque(r).pc = "own_complete" => r.bad = FALSE
<1> DEFINE pc == Advance(r, IF r.bad THEN "partial" ELSE "own_complete")
<1>1. NextOpaque(r) = [r EXCEPT !.next = @ + 1, !.pc = pc] BY DEF NextOpaque
<1>2. pc = "own_complete" => r.bad = FALSE BY DEF Advance, Connector
<1> HIDE DEF pc
<1> QED BY <1>1, <1>2 DEF Connector

\* What these steps have in common.
LEMMA UntouchedStep ==
    ASSUME IInv, DInv, Untouched, NEW p \in Procs, Orderly(p)', \A q \in Procs : q # p => w'[q] = w[q]
    PROVE  DInv'
<1>1. Backed' /\ Ledger' /\ (GivenUp' => GivenUp) BY UntouchedKeeps
<1>2. kind' = kind /\ evid' = evid BY DEF Untouched
<1>3. \A q \in Procs : Orderly(q)' BY <1>1, <1>2, OthersOrderly
<1> QED BY <1>1, <1>3 DEF DInv

LEMMA IdleStep ==
    ASSUME IInv, DInv, Untouched, NEW p \in Procs, Become(p, Idle)
    PROVE  DInv'
  BY IdleOrderly, UntouchedStep

LEMMA BeginDurable ==
    ASSUME IInv, DInv, NEW p \in Procs, Begin(p)
    PROVE  DInv'
<1> DEFINE r == [Idle EXCEPT !.pc = "acquire", !.left = Budget]
<1>1. Budget \in 0..Budget BY BoundAssumption
<1>2. r \in Connector /\ r.pc = "acquire" /\ r.names = {} BY <1>1, IdleType DEF Connector, Idle
<1>3. Become(p, r) /\ Untouched BY DEF Begin, Untouched, db
<1> HIDE DEF r
<1>4. w'[p].pc = "acquire" /\ w'[p].names = {} /\ \A q \in Procs : q # p => w'[q] = w[q]
  BY <1>2, <1>3, BecomeFacts
<1>5. Orderly(p)' BY <1>4 DEF Orderly, Clear, Staged, Recorded
<1> QED BY <1>3, <1>4, <1>5, UntouchedStep

LEMMA AcquireDurable ==
    ASSUME IInv, DInv, NEW p \in Procs, Acquire(p)
    PROVE  DInv'
<1>1. w[p] \in Connector /\ Orderly(p) /\ hist \in History BY ConnectorOf DEF DInv, IInv, TypeOK
<1>2. UNCHANGED <<kind, sess, lane, evid, log>> BY DEF Acquire, db
<1>3. CASE Become(p, Idle) /\ UNCHANGED <<lease, hist>>
  BY <1>2, <1>3, IdleStep DEF Untouched
<1>4. CASE /\ hist.owners < MaxOwner
           /\ hist' = [hist EXCEPT !.owners = @ + 1]
           /\ Become(p, [w[p] EXCEPT !.own = hist'.owners,
                                     !.pc = IF kind = "numeric" THEN "prepare" ELSE "fetch"])
  <2> DEFINE new == hist'.owners
             pc == IF kind = "numeric" THEN "prepare" ELSE "fetch"
             r == [w[p] EXCEPT !.own = new, !.pc = pc]
  <2>1. new \in 0..MaxOwner /\ hist'.pubs = hist.pubs /\ hist'.gcs = hist.gcs
    BY <1>1, <1>4, BoundAssumption DEF History
  <2>2. Untouched BY <1>2, <2>1 DEF Untouched
  <2>3. pc \in {"prepare", "fetch"} /\ (kind = "numeric" <=> pc = "prepare") OBVIOUS
  <2>4. Become(p, r) BY <1>4
  <2> HIDE DEF new, pc
  <2>5. pc \in Working BY <2>3 DEF Working
  <2>6. r \in Connector /\ r.pc = pc /\ r.names = w[p].names BY <1>1, <2>1, <2>5 DEF Connector
  <2> HIDE DEF r
  <2>7. w[p].names = {} BY <1>1 DEF Orderly, Recorded, Acquire, At
  <2>8. w'[p].pc = pc /\ w'[p].names = {} /\ \A q \in Procs : q # p => w'[q] = w[q]
    BY <2>3, <2>4, <2>6, <2>7, BecomeFacts
  <2>9. kind' = kind BY <1>2
  <2>10. Orderly(p)' BY <2>3, <2>8, <2>9 DEF Orderly, Clear, Staged, Recorded
  <2> QED BY <2>2, <2>8, <2>10, UntouchedStep
<1> QED BY <1>3, <1>4 DEF Acquire

LEMMA FetchPageDurable ==
    ASSUME IInv, DInv, NEW p \in Procs, FetchPage(p)
    PROVE  DInv'
<1>1. w[p] \in Connector /\ Orderly(p) /\ TypeOK BY ConnectorOf DEF DInv, IInv
<1>2. Untouched /\ w[p].pc = "fetch" BY DEF FetchPage, Untouched, db, At
<1>3. kind' = kind /\ evid' = evid /\ (GivenUp' => GivenUp) BY <1>2, UntouchedKeeps DEF Untouched
<1>4. ~(kind = "numeric" /\ GivenUp) BY <1>1, <1>2 DEF Orderly, Clear
<1> DEFINE page == PageAt(w[p].next)
           r == [w[p] EXCEPT !.page = page, !.total = list.total, !.pages = Len(list.page)]
<1>5. w[p].next \in Nat \ {0} BY <1>1 DEF Connector
<1>6. page \in SUBSET Records /\ list.total \in Nat /\ Len(list.page) \in Nat BY <1>1, <1>5, PageAtType
<1>7. r \in Connector /\ r.names = w[p].names /\ r.bad = w[p].bad BY <1>1, <1>6 DEF Connector
<1>8. CASE Become(p, Failed(p))
  <2>1. w[p].pc \in Working \ {"prepare"} BY <1>2 DEF Working
  <2> QED BY <1>2, <1>3, <1>8, <2>1, FailedOrderly, UntouchedStep
<1>9. CASE Become(p, [r EXCEPT !.pc = "own"])
  <2>1. /\ [r EXCEPT !.pc = "own"] \in Connector /\ [r EXCEPT !.pc = "own"].pc = "own"
        /\ [r EXCEPT !.pc = "own"].names = w[p].names /\ [r EXCEPT !.pc = "own"].bad = w[p].bad
    BY <1>7 DEF Connector, Working
  <2> HIDE DEF r
  <2>2. /\ w'[p].pc = "own" /\ w'[p].names = w[p].names /\ w'[p].bad = w[p].bad
        /\ \A q \in Procs : q # p => w'[q] = w[q]
    BY <1>9, <2>1, BecomeFacts
  <2>3. Orderly(p)' BY <1>1, <1>2, <1>3, <1>4, <2>2 DEF Orderly, Clear, Staged, Recorded
  <2> QED BY <1>2, <2>2, <2>3, UntouchedStep
<1>10. CASE kind = "opaque" /\ Become(p, NextOpaque(r))
  <2> HIDE DEF r
  <2>1. /\ NextOpaque(r) \in Connector
        /\ NextOpaque(r).pc \in {"own_complete", "partial", "release", "fetch"}
        /\ NextOpaque(r).names = r.names /\ NextOpaque(r).bad = r.bad
        /\ NextOpaque(r).pc = "own_complete" => r.bad = FALSE
    BY <1>7, NextOpaqueType, NextOpaqueFacts
  <2>2. /\ w'[p].pc \in {"own_complete", "partial", "release", "fetch"}
        /\ w'[p].pc # "release" => w'[p].names = w[p].names
        /\ w'[p].pc = "fetch" => w'[p].bad = w[p].bad
        /\ w'[p].pc = "own_complete" => w[p].bad = FALSE
        /\ \A q \in Procs : q # p => w'[q] = w[q]
    BY <1>7, <1>10, <2>1, BecomeFacts
  <2>3. Orderly(p)' BY <1>1, <1>2, <1>3, <1>4, <2>2 DEF Orderly, Clear, Staged, Recorded
  <2> QED BY <1>2, <2>2, <2>3, UntouchedStep
<1> QED BY <1>8, <1>9, <1>10 DEF FetchPage

LEMMA FetchTimeoutDurable ==
    ASSUME IInv, DInv, NEW p \in Procs, FetchTimeout(p)
    PROVE  DInv'
<1>1. Orderly(p) /\ Untouched /\ w[p].pc = "fetch" /\ Goto(p, "partial")
  BY DEF DInv, FetchTimeout, Untouched, db, At
<1>2. kind' = kind /\ (GivenUp' => GivenUp) BY <1>1, UntouchedKeeps DEF Untouched
<1>3. w'[p].pc = "partial" /\ \A q \in Procs : q # p => w'[q] = w[q] BY <1>1, GotoFacts DEF Working
<1>4. Orderly(p)' BY <1>1, <1>2, <1>3 DEF Orderly, Clear, Staged, Recorded
<1> QED BY <1>1, <1>3, <1>4, UntouchedStep

\* A page that could not be stored makes the connector bad: it never comes to publish.
LEMMA UnstoredOrderly ==
    ASSUME IInv, DInv, NEW p \in Procs, Become(p, Unstored(p)), kind = "opaque", kind' = kind
    PROVE  Orderly(p)' /\ \A q \in Procs : q # p => w'[q] = w[q]
<1>1. w[p] \in Connector BY ConnectorOf
<1> DEFINE r == [w[p] EXCEPT !.names = @ \cup (w[p].page \cap Scope), !.bad = TRUE]
<1>2. r \in Connector /\ r.bad = TRUE BY <1>1 DEF Connector
<1>3. Unstored(p) = NextOpaque(r) BY DEF Unstored
<1> HIDE DEF r
<1>4. /\ Unstored(p) \in Connector /\ Unstored(p).bad = TRUE
      /\ Unstored(p).pc \in {"partial", "release", "fetch"}
  <2>1. /\ NextOpaque(r) \in Connector /\ NextOpaque(r).bad = r.bad
        /\ NextOpaque(r).pc \in {"own_complete", "partial", "release", "fetch"}
    BY <1>2, NextOpaqueType, NextOpaqueFacts
  <2>2. NextOpaque(r).pc # "own_complete" BY <1>2, NextOpaqueFacts
  <2> QED BY <1>2, <1>3, <2>1, <2>2
<1>5. /\ w'[p].pc \in {"partial", "release", "fetch"} /\ (w'[p].pc = "fetch" => w'[p].bad = TRUE)
      /\ \A q \in Procs : q # p => w'[q] = w[q]
  BY <1>4, BecomeFacts
<1> QED BY <1>5 DEF Orderly, Clear, Staged, Recorded

LEMMA EnsureOwnedDurable ==
    ASSUME IInv, DInv, NEW p \in Procs, EnsureOwned(p)
    PROVE  DInv'
<1>1. w[p] \in Connector /\ Orderly(p) /\ kind \in {"numeric", "opaque"}
  BY ConnectorOf, DataAssumption DEF DInv, IInv, TypeOK
<1>2. Untouched /\ w[p].pc \in {"own", "own_finish", "own_complete"}
  BY DEF EnsureOwned, Untouched, db
<1>3. kind' = kind /\ evid' = evid /\ (GivenUp' => GivenUp) BY <1>2, UntouchedKeeps DEF Untouched
<1>4. ~(kind = "numeric" /\ GivenUp) BY <1>1, <1>2 DEF Orderly, Clear
<1> DEFINE pc == CASE At(p, "own") -> IF kind = "numeric" THEN "commit" ELSE "store"
                   [] At(p, "own_finish") -> "finish"
                   [] OTHER -> "complete"
<1>5. CASE Goto(p, pc)
  <2>1. /\ pc \in Working /\ (pc = "commit" => kind = "numeric")
        /\ pc = "store" => kind # "numeric" /\ w[p].pc = "own"
        /\ pc = "complete" => w[p].pc = "own_complete"
        /\ pc \in {"commit", "store", "finish", "complete"}
    BY <1>2 DEF At, Working
  <2> HIDE DEF pc
  <2>2. /\ w'[p].pc = pc /\ w'[p].names = w[p].names /\ (pc = "store" => w'[p].bad = w[p].bad)
        /\ \A q \in Procs : q # p => w'[q] = w[q]
    BY <1>5, <2>1, GotoFacts
  <2>3. Orderly(p)' BY <1>1, <1>3, <1>4, <2>1, <2>2 DEF Orderly, Clear, Staged, Recorded
  <2> QED BY <1>2, <2>2, <2>3, UntouchedStep
<1>6. CASE Become(p, [w[p] EXCEPT !.pc = "release"])
  <2>1. Goto(p, "release") BY <1>6 DEF Goto
  <2>2. w'[p].pc = "release" /\ \A q \in Procs : q # p => w'[q] = w[q] BY <2>1, GotoFacts
  <2> QED BY <1>2, <2>2, LeavingOrderly, UntouchedStep
<1>7. CASE kind = "opaque" /\ Become(p, Unstored(p))
  BY <1>2, <1>3, <1>7, UnstoredOrderly, UntouchedStep
<1>8. CASE Become(p, Failed(p))
  <2>1. w[p].pc \in Working \ {"prepare"} BY <1>2 DEF Working
  <2> QED BY <1>2, <1>3, <1>8, <2>1, FailedOrderly, UntouchedStep
<1>9. \/ Goto(p, pc) \/ Become(p, [w[p] EXCEPT !.pc = "release"])
      \/ kind = "opaque" /\ Become(p, Unstored(p))
      \/ Become(p, Failed(p))
  BY <1>2 DEF EnsureOwned, At
<1> QED BY <1>5, <1>6, <1>7, <1>8, <1>9

LEMMA LeavingDurable ==
    ASSUME IInv, DInv, NEW p \in Procs, MarkPartial(p) \/ Release(p) \/ Drop(p) \/ Kill(p)
    PROVE  DInv'
<1>1. Untouched
  BY DEF MarkPartial, Release, Drop, Kill, Untouched, db
<1>2. CASE MarkPartial(p)
  <2>1. Goto(p, "release") BY <1>2 DEF MarkPartial
  <2>2. w'[p].pc = "release" /\ \A q \in Procs : q # p => w'[q] = w[q] BY <2>1, GotoFacts
  <2> QED BY <1>1, <2>2, LeavingOrderly, UntouchedStep
<1>3. CASE Release(p) \/ Drop(p) \/ Kill(p)
  <2>1. Become(p, Idle) BY <1>3 DEF Release, Drop, Kill
  <2> QED BY <1>1, <2>1, IdleStep
<1> QED BY <1>2, <1>3

\* A step of time or of the provider, which moves no connector.
LEMMA EnvironmentDurable ==
    ASSUME IInv, DInv, Tick \/ Jump \/ Expire \/ Change \/ (\E j \in jobs : DeferredRelease(j)) \/ UNCHANGED vars
    PROVE  DInv'
<1>1. hist \in History /\ w \in [Procs -> Connector] BY DEF IInv, TypeOK
<1>2. UNCHANGED <<kind, sess, lane, evid, log>>
  BY DEF Tick, Jump, Expire, Change, DeferredRelease, vars, db
<1>3. hist'.pubs = hist.pubs /\ hist'.gcs = hist.gcs
  BY <1>1 DEF Tick, Jump, Expire, Change, DeferredRelease, vars, db, History
<1>4. \A q \in Procs : w'[q].pc = w[q].pc /\ w'[q].names = w[q].names /\ w'[q].bad = w[q].bad
  <2>1. CASE Tick
    <3>1. w' = [q \in Procs |-> [w[q] EXCEPT !.left = Less(@)]] BY <2>1 DEF Tick
    <3>2. SUFFICES ASSUME NEW q \in Procs
                   PROVE  w'[q].pc = w[q].pc /\ w'[q].names = w[q].names /\ w'[q].bad = w[q].bad
      OBVIOUS
    <3>3. w'[q] = [w[q] EXCEPT !.left = Less(@)] /\ w[q] \in Connector BY <1>1, <3>1
    <3> QED BY <3>3 DEF Connector
  <2>2. CASE ~Tick BY <2>2 DEF Jump, Expire, Change, DeferredRelease, vars, db
  <2> QED BY <2>1, <2>2
<1>5. Untouched BY <1>2, <1>3 DEF Untouched
<1>6. Backed' /\ Ledger' /\ (GivenUp' => GivenUp) BY <1>5, UntouchedKeeps
<1>7. \A q \in Procs : Orderly(q)'
  <2> SUFFICES ASSUME NEW q \in Procs PROVE Orderly(q)' OBVIOUS
  <2>1. Orderly(q) /\ w[q] \in Connector BY ConnectorOf DEF DInv
  <2> QED BY <1>2, <1>4, <1>6, <2>1, StillOrderly
<1> QED BY <1>6, <1>7 DEF DInv

\* A session is found abandoned when nobody works on the source.
LEMMA AbandonDurable ==
    ASSUME IInv, DInv, Abandon
    PROVE  DInv'
<1>1. sess \in [active : BOOLEAN, old : BOOLEAN, gen : Nat] BY DEF IInv, TypeOK
<1>2. sess'.active = sess.active /\ sess'.gen = sess.gen BY <1>1 DEF Abandon
<1>3. UNCHANGED <<kind, lane, evid, log, w, hist>> BY DEF Abandon
<1>4. Backed' BY <1>2, <1>3 DEF DInv, Backed, Committed
<1>5. Ledger' BY <1>2, <1>3 DEF DInv, Ledger
<1>6. \A q \in Procs : Orderly(q)'
  <2> SUFFICES ASSUME NEW q \in Procs PROVE Orderly(q)' OBVIOUS
  <2>1. Orderly(q) /\ w'[q] = w[q] /\ w[q].pc \in {"off", "acquire"} BY <1>3 DEF DInv, Abandon
  <2> QED BY <1>3, <2>1 DEF Orderly, Clear, Staged, Recorded
<1> QED BY <1>4, <1>5, <1>6 DEF DInv

-----------------------------------------------------------------------------
(* The steps on the checkpoint and the evidence.                           *)

LEMMA PrepareDurable ==
    ASSUME IInv, DInv, NEW p \in Procs, Prepare(p)
    PROVE  DInv'
<1>1. Stored /\ Orderly(p) BY ConnectorOf DEF DInv
<1>2. UNCHANGED <<kind, evid>> /\ w[p].pc = "prepare" BY DEF Prepare, At
<1>3. CASE Goto(p, "release") /\ UNCHANGED <<sess, hist, lane, log>>
  <2>1. Untouched BY <1>2, <1>3 DEF Untouched
  <2>2. w'[p].pc = "release" /\ \A q \in Procs : q # p => w'[q] = w[q] BY <1>3, GotoFacts
  <2> QED BY <2>1, <2>2, LeavingOrderly, UntouchedStep
<1>4. CASE /\ sess' = IF GivenUp THEN [sess EXCEPT !.active = FALSE, !.old = FALSE] ELSE sess
           /\ hist' = IF GivenUp THEN [hist EXCEPT !.gcs = @ + 1] ELSE hist
           /\ lane' = IF GivenUp \/ lane.ver = "old" THEN NoLane ELSE lane
           /\ log' = IF lane'.ver = "none" THEN <<>> ELSE log
           /\ Goto(p, "load")
  <2>1. hist \in History /\ sess \in [active : BOOLEAN, old : BOOLEAN, gen : Nat] /\ lane \in Lane
    BY <1>1 DEF Stored
  <2>2. ~GivenUp'
    <3>1. CASE GivenUp
      <4>1. sess'.active = FALSE BY <1>4, <2>1, <3>1
      <4> QED BY <4>1 DEF GivenUp
    <3>2. CASE ~GivenUp
      <4>1. sess' = sess BY <1>4, <3>2
      <4> QED BY <4>1, <3>2 DEF GivenUp
    <3> QED BY <3>1, <3>2
  <2>3. Ledger'
    <3>1. CASE GivenUp
      <4>1. sess.active = TRUE BY <2>1, <3>1 DEF GivenUp
      <4>2. /\ sess'.active = FALSE /\ sess'.gen = sess.gen
            /\ hist'.pubs = hist.pubs /\ hist'.gcs = hist.gcs + 1
        BY <1>4, <2>1, <3>1 DEF History
      <4>3. sess.gen \in Nat /\ hist.pubs \in Nat /\ hist.gcs \in Nat BY <2>1 DEF History
      <4> QED BY <1>2, <4>1, <4>2, <4>3 DEF DInv, Ledger
    <3>2. CASE ~GivenUp
      <4>1. sess' = sess /\ hist' = hist BY <1>4, <3>2
      <4> QED BY <1>2, <4>1 DEF DInv, Ledger
    <3> QED BY <3>1, <3>2
  <2>4. Backed'
    <3>1. CASE GivenUp \/ lane.ver = "old"
      <4>1. lane' = NoLane BY <1>4, <3>1
      <4>2. lane'.ver = "none" BY <4>1 DEF NoLane
      <4>3. log' = <<>> BY <1>4, <4>2
      <4> QED BY <4>2, <4>3 DEF Backed
    <3>2. CASE ~(GivenUp \/ lane.ver = "old")
      <4>1. sess' = sess /\ lane' = lane BY <1>4, <3>2
      <4>2. lane.ver = "none" => log = <<>> BY DEF DInv, Backed
      <4>3. log' = log BY <1>4, <4>1, <4>2
      <4> QED BY <1>2, <4>1, <4>3 DEF DInv, Backed, Committed
    <3> QED BY <3>1, <3>2
  <2>5. w'[p].pc = "load" /\ \A q \in Procs : q # p => w'[q] = w[q] BY <1>4, GotoFacts DEF Working
  <2>6. kind = "numeric" BY <1>1, <1>2 DEF Orderly, Staged
  <2>7. Orderly(p)' BY <1>2, <2>2, <2>5, <2>6 DEF Orderly, Clear, Staged, Recorded
  <2>8. \A q \in Procs : Orderly(q)' BY <1>2, <2>2, <2>5, <2>7, OthersOrderly
  <2> QED BY <2>3, <2>4, <2>8 DEF DInv
<1> QED BY <1>3, <1>4 DEF Prepare

LEMMA LoadDurable ==
    ASSUME IInv, DInv, NEW p \in Procs, Load(p)
    PROVE  DInv'
<1>1. Stored /\ Orderly(p) /\ w[p] \in Connector BY ConnectorOf DEF DInv
<1>2. UNCHANGED <<kind, sess, evid, log, hist>> /\ w[p].pc = "load" BY DEF Load, At
<1>3. kind = "numeric" /\ ~GivenUp BY <1>1, <1>2 DEF Orderly, Clear, Staged
<1>4. Backed'
  <2>1. CASE lane' = lane BY <1>2, <2>1 DEF DInv, Backed, Committed
  <2>2. CASE lane.ver = "old" /\ lane' = NoLane
    <3>1. lane'.ver = "none" /\ log' = <<>> BY <1>2, <2>2 DEF NoLane, DInv, Backed
    <3> QED BY <3>1 DEF Backed
  <2> QED BY <2>1, <2>2 DEF Load
<1>5. Ledger' BY <1>2 DEF DInv, Ledger
<1>6. ~GivenUp' BY <1>2, <1>3 DEF GivenUp
<1>7. w'[p].pc \in {"own_complete", "release", "fetch"} /\ \A q \in Procs : q # p => w'[q] = w[q]
  <2>1. CASE Goto(p, "release") BY <2>1, GotoFacts
  <2>2. CASE Become(p, [w[p] EXCEPT !.pc = "fetch"])
    <3>1. Goto(p, "fetch") BY <2>2 DEF Goto
    <3> QED BY <3>1, GotoFacts DEF Working
  <2>3. ASSUME NEW pc \in {"own_complete", "release", "fetch"},
               Become(p, [w[p] EXCEPT !.next = lane.next, !.seen = lane.seen, !.known = TRUE,
                               !.total = lane.total, !.pages = lane.pages, !.hashes = {lane.hash} \ {{}},
                               !.pc = pc])
        PROVE  w'[p].pc \in {"own_complete", "release", "fetch"} /\ \A q \in Procs : q # p => w'[q] = w[q]
    <3> DEFINE r == [w[p] EXCEPT !.next = lane.next, !.seen = lane.seen, !.known = TRUE,
                               !.total = lane.total, !.pages = lane.pages, !.hashes = {lane.hash} \ {{}},
                               !.pc = pc]
    <3>1. lane \in Lane BY <1>1 DEF Stored
    <3>2. /\ lane.next \in Nat \ {0} /\ lane.seen \in Nat /\ lane.total \in Nat /\ lane.pages \in Nat
          /\ {lane.hash} \ {{}} \in SUBSET SUBSET Records
      BY <3>1 DEF Lane
    <3>3. pc \in Working \cup {"off", "acquire", "release"} BY <2>3 DEF Working
    <3>4. r \in Connector /\ r.pc = pc BY <1>1, <3>2, <3>3 DEF Connector
    <3>5. Become(p, r) BY <2>3
    <3> HIDE DEF r
    <3> QED BY <2>3, <3>4, <3>5, BecomeFacts
  <2>4. (CASE lane.done -> "own_complete" [] ~lane.done /\ lane.next > PageLimit -> "release"
           [] OTHER -> "fetch") \in {"own_complete", "release", "fetch"}
    OBVIOUS
  <2> QED BY <2>1, <2>2, <2>3, <2>4 DEF Load
<1>8. Orderly(p)' BY <1>2, <1>3, <1>6, <1>7 DEF Orderly, Clear, Staged, Recorded
<1>9. \A q \in Procs : Orderly(q)' BY <1>2, <1>6, <1>7, <1>8, OthersOrderly
<1> QED BY <1>4, <1>5, <1>9 DEF DInv

LEMMA TotalsEmpty == Totals(<<>>, 0)
<1> DEFINE sum == [i \in 0..0 |-> 0]
<1>1. sum \in [0..Len(<<>>) -> 0..0] /\ sum[0] = 0 /\ sum[Len(<<>>)] = 0 OBVIOUS
<1>2. \A i \in DOMAIN <<>> : sum[i] = sum[i - 1] + Cardinality(<<>>[i]) OBVIOUS
<1> HIDE DEF sum
<1> QED BY <1>1, <1>2 DEF Totals

LEMMA TotalsAppend ==
    ASSUME NEW lg \in Seq(SUBSET Records), NEW t \in Nat, Totals(lg, t), NEW page \in SUBSET Records
    PROVE  Totals(Append(lg, page), t + Cardinality(page))
<1> DEFINE n == Len(lg)
           more == t + Cardinality(page)
           new == Append(lg, page)
<1>1. Cardinality(page) \in Nat BY PageFinite
<1>2. PICK sum \in [0..n -> 0..t] :
        /\ sum[0] = 0 /\ sum[n] = t
        /\ \A i \in DOMAIN lg : sum[i] = sum[i - 1] + Cardinality(lg[i])
  BY DEF Totals
<1>3. /\ n \in Nat /\ DOMAIN lg = 1..n /\ Len(new) = n + 1 /\ DOMAIN new = 1..(n + 1)
      /\ new[n + 1] = page /\ \A i \in 1..n : new[i] = lg[i]
  OBVIOUS
<1> DEFINE next == [i \in 0..(n + 1) |-> IF i = n + 1 THEN more ELSE sum[i]]
<1>4. more \in Nat /\ t <= more BY <1>1
<1> HIDE DEF n, more, new
<1>5. next \in [0..(n + 1) -> 0..more]
  <2> SUFFICES ASSUME NEW i \in 0..(n + 1) PROVE (IF i = n + 1 THEN more ELSE sum[i]) \in 0..more OBVIOUS
  <2>1. i # n + 1 => i \in 0..n BY <1>3
  <2> QED BY <1>2, <1>3, <1>4, <2>1
<1>6. next[0] = 0 /\ next[n + 1] = more BY <1>2, <1>3
<1>7. \A i \in 1..(n + 1) : next[i] = next[i - 1] + Cardinality(new[i])
  <2> SUFFICES ASSUME NEW i \in 1..(n + 1) PROVE next[i] = next[i - 1] + Cardinality(new[i]) OBVIOUS
  <2>1. CASE i = n + 1
    <3>1. next[i] = more /\ next[i - 1] = sum[n] /\ new[i] = page BY <1>3, <2>1
    <3> QED BY <1>1, <1>2, <3>1 DEF more
  <2>2. CASE i # n + 1
    <3>1. i \in 1..n /\ i - 1 \in 0..n /\ i - 1 # n + 1 BY <1>3, <2>2
    <3>2. next[i] = sum[i] /\ next[i - 1] = sum[i - 1] /\ new[i] = lg[i] BY <1>3, <2>2, <3>1
    <3> QED BY <1>2, <1>3, <3>1, <3>2
  <2> QED BY <2>1, <2>2
<1> HIDE DEF next
<1>8. Totals(new, more) BY <1>3, <1>5, <1>6, <1>7 DEF Totals
<1> QED BY <1>8 DEF new, more

LEMMA PageWrittenFacts ==
    ASSUME IInv, DInv, NEW p \in Procs, PageWritten(p)
    PROVE  /\ Ledger' /\ sess'.active = TRUE /\ ~GivenUp'
           /\ hist'.pubs = hist.pubs
           /\ \A n \in Scope : evid[n].times > 0 => evid'[n].times > 0
           /\ \A n \in w[p].page \cap Scope : evid'[n].times > 0 /\ evid'[n].gen = sess'.gen
           /\ \A n \in Scope : n \notin w[p].page => evid'[n] = evid[n]
           /\ sess.active = TRUE /\ ~GivenUp => sess'.gen = sess.gen
<1>1. /\ sess \in [active : BOOLEAN, old : BOOLEAN, gen : Nat] /\ hist \in History
      /\ evid \in [Scope -> [times : Nat, gen : Nat]]
  BY DEF IInv, TypeOK
<1> DEFINE a == sess.active
           o == sess.old
           g == sess.gen
           h == sess'.gen
<1>2. sess'.active = TRUE /\ sess'.old = FALSE /\ h = (IF a /\ ~o THEN g ELSE g + 1)
  BY DEF PageWritten, Begun
<1>3. g \in Nat /\ (a = TRUE => g > 0) BY <1>1 DEF DInv, Ledger
<1>4. h \in Nat /\ h > 0 /\ g <= h
  BY <1>1, <1>2, <1>3
<1>5. ~GivenUp' BY <1>2 DEF GivenUp
<1>6. hist'.pubs = hist.pubs /\ hist'.gcs = (IF GivenUp THEN hist.gcs + 1 ELSE hist.gcs)
      /\ hist.pubs \in Nat /\ hist.gcs \in Nat
  BY <1>1 DEF PageWritten, History
<1>7. evid' = [n \in Scope |-> IF n \in w[p].page \cap Scope
         THEN [times |-> IF evid[n].gen = h THEN evid[n].times ELSE evid[n].times + 1, gen |-> h]
         ELSE evid[n]]
  BY DEF PageWritten, Seen
<1>8. \A n \in Scope : /\ evid[n].times \in Nat /\ evid[n].gen \in Nat
                       /\ evid[n].times <= evid[n].gen /\ evid[n].gen <= g
                       /\ evid[n].gen > 0 => evid[n].times > 0
  BY <1>1 DEF DInv, Ledger
<1> HIDE DEF h, g
<1>9. \A n \in w[p].page \cap Scope :
         /\ evid'[n].gen = h
         /\ evid'[n].times = IF evid[n].gen = h THEN evid[n].times ELSE evid[n].times + 1
  BY <1>7
<1>10. \A n \in Scope : n \notin w[p].page => evid'[n] = evid[n] BY <1>7
<1>11. \A n \in Scope : /\ evid'[n].times <= evid'[n].gen /\ evid'[n].gen <= h
                        /\ evid'[n].gen > 0 => evid'[n].times > 0
  <2> SUFFICES ASSUME NEW n \in Scope
               PROVE  /\ evid'[n].times <= evid'[n].gen /\ evid'[n].gen <= h
                      /\ evid'[n].gen > 0 => evid'[n].times > 0
    OBVIOUS
  <2>1. CASE n \in w[p].page BY <1>3, <1>4, <1>8, <1>9, <2>1
  <2>2. CASE n \notin w[p].page BY <1>3, <1>4, <1>8, <1>10, <2>2
  <2> QED BY <2>1, <2>2
<1>12. \A n \in w[p].page \cap Scope : evid'[n].times > 0 BY <1>4, <1>8, <1>9
<1>13. \A n \in Scope : evid[n].times > 0 => evid'[n].times > 0
  <2> SUFFICES ASSUME NEW n \in Scope, evid[n].times > 0 PROVE evid'[n].times > 0 OBVIOUS
  <2> QED BY <1>10, <1>12
<1>14. h <= hist'.pubs + hist'.gcs + 1
  <2>1. g <= hist.pubs + hist.gcs + (IF a = TRUE THEN 1 ELSE 0) BY DEF DInv, Ledger, g
  <2>2. CASE a = TRUE /\ o = FALSE
    <3>1. h = g /\ ~GivenUp BY <1>2, <2>2 DEF GivenUp
    <3> QED BY <1>3, <1>6, <2>1, <2>2, <3>1
  <2>3. CASE a = TRUE /\ o = TRUE
    <3>1. h = g + 1 /\ GivenUp BY <1>2, <2>3 DEF GivenUp
    <3> QED BY <1>3, <1>6, <2>1, <2>3, <3>1
  <2>4. CASE a = FALSE
    <3>1. h = g + 1 /\ ~GivenUp BY <1>2, <2>4 DEF GivenUp
    <3> QED BY <1>3, <1>6, <2>1, <2>4, <3>1
  <2>5. a \in BOOLEAN /\ o \in BOOLEAN BY <1>1
  <2> QED BY <2>2, <2>3, <2>4, <2>5
<1>15. Ledger' BY <1>2, <1>4, <1>11, <1>14 DEF Ledger, h
<1>16. a = TRUE /\ ~GivenUp => h = g BY <1>1, <1>2 DEF GivenUp
<1> QED BY <1>2, <1>5, <1>6, <1>9, <1>10, <1>12, <1>13, <1>15, <1>16 DEF h, g

LEMMA StorePageDurable ==
    ASSUME IInv, DInv, NEW p \in Procs, StorePage(p)
    PROVE  DInv'
<1>1. Stored /\ Orderly(p) /\ w[p] \in Connector /\ kind \in {"numeric", "opaque"}
  BY ConnectorOf, DataAssumption DEF DInv, Stored
<1>2. UNCHANGED <<kind, lane, log>> /\ w[p].pc = "store" BY DEF StorePage, At
<1>3. kind = "opaque" BY <1>1, <1>2 DEF Orderly, Staged
<1>4. CASE Become(p, Unstored(p)) /\ UNCHANGED <<sess, hist, evid, cache>>
  <2>1. Untouched BY <1>2, <1>4 DEF Untouched
  <2> QED BY <1>2, <1>3, <1>4, <2>1, UnstoredOrderly, UntouchedStep
<1>5. CASE PageWritten(p)
  <2>1. /\ Ledger' /\ ~GivenUp'
        /\ \A n \in Scope : evid[n].times > 0 => evid'[n].times > 0
        /\ \A n \in w[p].page \cap Scope : evid'[n].times > 0
    BY <1>5, PageWrittenFacts
  <2>2. Backed' BY <1>2, <1>3 DEF DInv, Backed
  <2>3. Orderly(p)' /\ \A q \in Procs : q # p => w'[q] = w[q]
    <3>1. CASE Become(p, Unstored(p)) BY <1>2, <1>3, <3>1, UnstoredOrderly
    <3>2. CASE Become(p, NextOpaque([w[p] EXCEPT !.names = @ \cup (w[p].page \cap Scope)]))
      <4> DEFINE r == [w[p] EXCEPT !.names = @ \cup (w[p].page \cap Scope)]
      <4>1. r \in Connector /\ r.names = w[p].names \cup (w[p].page \cap Scope) /\ r.bad = w[p].bad
        BY <1>1 DEF Connector
      <4>2. Become(p, NextOpaque(r)) BY <3>2
      <4> HIDE DEF r
      <4>3. /\ NextOpaque(r) \in Connector
            /\ NextOpaque(r).pc \in {"own_complete", "partial", "release", "fetch"}
            /\ NextOpaque(r).names = r.names /\ NextOpaque(r).bad = r.bad
            /\ NextOpaque(r).pc = "own_complete" => r.bad = FALSE
        BY <4>1, NextOpaqueType, NextOpaqueFacts
      <4>4. /\ w'[p].pc \in {"own_complete", "partial", "release", "fetch"}
            /\ w'[p].pc # "release" => w'[p].names = w[p].names \cup (w[p].page \cap Scope)
            /\ w'[p].pc = "fetch" => w'[p].bad = w[p].bad
            /\ w'[p].pc = "own_complete" => w[p].bad = FALSE
            /\ \A q \in Procs : q # p => w'[q] = w[q]
        BY <4>1, <4>2, <4>3, BecomeFacts
      <4>5. w[p].names \subseteq Scope BY <1>1 DEF Connector
      <4>6. w[p].bad = FALSE => \A n \in w[p].names \cup (w[p].page \cap Scope) : evid'[n].times > 0
        BY <1>1, <1>2, <1>3, <2>1, <4>5 DEF Orderly, Recorded
      <4>7. Orderly(p)' BY <1>2, <1>3, <4>4, <4>6 DEF Orderly, Clear, Staged, Recorded
      <4> QED BY <4>4, <4>7
    <3> QED BY <1>5, <3>1, <3>2 DEF StorePage
  <2>4. \A q \in Procs : Orderly(q)' BY <1>2, <2>1, <2>3, OthersOrderly
  <2> QED BY <2>1, <2>2, <2>4 DEF DInv
<1> QED BY <1>4, <1>5 DEF StorePage

LEMMA CommitPageDurable ==
    ASSUME IInv, DInv, NEW p \in Procs, CommitPage(p)
    PROVE  DInv'
<1>1. Stored /\ Orderly(p) /\ w[p] \in Connector BY ConnectorOf DEF DInv
<1>2. kind' = kind /\ w[p].pc = "commit" BY DEF CommitPage, At
<1>3. kind = "numeric" /\ ~GivenUp
  BY <1>1, <1>2 DEF Orderly, Clear, Staged
<1>4. w[p].page \in SUBSET Records /\ w[p].next \in Nat \ {0} /\ w[p].seen \in Nat
      /\ w[p].total \in Nat /\ w[p].pages \in Nat
  BY <1>1 DEF Connector
<1>5. Cardinality(w[p].page) \in Nat /\ Sum(p) = w[p].seen + Cardinality(w[p].page) /\ Sum(p) \in Nat
  <2>1. Cardinality(w[p].page) \in Nat BY <1>4, PageFinite
  <2> QED BY <1>4, <2>1 DEF Sum
<1> DEFINE r == [w[p] EXCEPT !.seen = Sum(p), !.known = TRUE, !.names = @ \cup (w[p].page \cap Scope),
                             !.hashes = @ \cup ({w[p].page} \ {{}})]
           last == IF r.seen = r.total THEN "own_finish" ELSE IF r.names # {} THEN "partial" ELSE "release"
           next == [r EXCEPT !.next = @ + 1, !.pc = Advance(r, last)]
           new == [ver |-> "cur", next |-> w[p].next + 1, seen |-> Sum(p), total |-> w[p].total,
                   pages |-> w[p].pages, hash |-> w[p].page, done |-> FALSE]
<1>6. CASE Become(p, Failed(p)) /\ UNCHANGED <<db, hist>>
  <2>1. Untouched BY <1>2, <1>6 DEF Untouched, db
  <2>2. w[p].pc \in Working \ {"prepare"} BY <1>2 DEF Working
  <2>3. GivenUp' => GivenUp BY <2>1, UntouchedKeeps
  <2> QED BY <1>2, <1>6, <2>1, <2>2, <2>3, FailedOrderly, UntouchedStep
<1>7. r \in Connector
  <2>1. w[p].names \cup (w[p].page \cap Scope) \in SUBSET Scope BY <1>1 DEF Connector
  <2>2. w[p].hashes \cup ({w[p].page} \ {{}}) \in SUBSET SUBSET Records BY <1>1, <1>4 DEF Connector
  <2> QED BY <1>1, <1>5, <2>1, <2>2 DEF Connector
<1>8. last \in {"own_finish", "partial", "release"} OBVIOUS
<1>9. \/ Become(p, Failed(p)) /\ UNCHANGED <<db, hist>>
      \/ Become(p, next) /\ Forward(p) /\ PageWritten(p) /\ lane' = new /\ log' = Append(log, w[p].page)
      \/ Become(p, next) /\ UNCHANGED <<db, hist>>
  BY DEF CommitPage
<1>10. ASSUME Become(p, next), ~GivenUp'
       PROVE  Orderly(p)' /\ \A q \in Procs : q # p => w'[q] = w[q]
  <2> HIDE DEF r, last
  <2>1. Advance(r, last) \in {"own_finish", "partial", "release", "fetch"} BY <1>8 DEF Advance
  <2>2. r.next + 1 \in Nat \ {0} BY <1>7 DEF Connector
  <2>3. Advance(r, last) \in Working \cup {"off", "acquire", "release"} BY <2>1 DEF Working
  <2>4. next \in Connector /\ next.pc = Advance(r, last) BY <1>7, <2>2, <2>3 DEF Connector
  <2> HIDE DEF next
  <2>5. w'[p].pc \in {"own_finish", "partial", "release", "fetch"} /\ \A q \in Procs : q # p => w'[q] = w[q]
    BY <1>10, <2>1, <2>4, BecomeFacts
  <2>6. Orderly(p)' BY <1>2, <1>3, <1>10, <2>5 DEF Orderly, Clear, Staged, Recorded
  <2> QED BY <2>5, <2>6
<1> HIDE DEF next
<1>11. CASE Become(p, next) /\ UNCHANGED <<db, hist>>
  <2>1. Untouched BY <1>2, <1>11 DEF Untouched, db
  <2>2. ~GivenUp' BY <1>3, <2>1, UntouchedKeeps
  <2> QED BY <1>10, <1>11, <2>1, <2>2, UntouchedStep
<1>12. CASE Become(p, next) /\ Forward(p) /\ PageWritten(p) /\ lane' = new /\ log' = Append(log, w[p].page)
  <2>1. /\ Ledger' /\ ~GivenUp' /\ sess'.active = TRUE
        /\ \A n \in Scope : evid[n].times > 0 => evid'[n].times > 0
        /\ \A n \in w[p].page \cap Scope : evid'[n].gen = sess'.gen
        /\ \A n \in Scope : n \notin w[p].page => evid'[n] = evid[n]
        /\ sess.active = TRUE => sess'.gen = sess.gen
    BY <1>3, <1>12, PageWrittenFacts
  <2>2. Orderly(p)' /\ \A q \in Procs : q # p => w'[q] = w[q] BY <1>10, <1>12, <2>1
  <2>3. \A q \in Procs : Orderly(q)' BY <1>2, <2>1, <2>2, OthersOrderly
  <2>4. log \in Seq(SUBSET Records) /\ lane \in Lane BY <1>1 DEF Stored
  <2>5. /\ lane'.ver = "cur" /\ lane'.next = w[p].next + 1 /\ lane'.seen = Sum(p)
        /\ lane'.done = FALSE
    BY <1>12
  <2>6. w[p].next = Len(log) + 1 /\ Totals(log, w[p].seen)
    <3>1. CASE lane.ver = "none" /\ w[p].next = 1 /\ w[p].seen = 0
      <4>1. log = <<>> BY <3>1 DEF DInv, Backed
      <4> QED BY <3>1, <4>1, TotalsEmpty
    <3>2. CASE Agrees(p) /\ w[p].next = lane.next /\ w[p].seen = lane.seen
      BY <3>2 DEF Agrees, DInv, Backed
    <3> QED BY <1>12, <3>1, <3>2 DEF Forward
  <2>7. Totals(log', lane'.seen)
    <3>1. Totals(Append(log, w[p].page), w[p].seen + Cardinality(w[p].page))
      BY <1>4, <2>4, <2>6, TotalsAppend
    <3> QED BY <1>5, <1>12, <2>5, <3>1
  <2>8. /\ Len(log') = Len(log) + 1 /\ DOMAIN log' = 1..(Len(log) + 1) /\ log'[Len(log) + 1] = w[p].page
        /\ DOMAIN log = 1..Len(log) /\ \A i \in 1..Len(log) : log'[i] = log[i]
        /\ Len(log) \in Nat
    BY <1>4, <1>12, <2>4
  <2>9. \A i \in DOMAIN log : \A n \in log[i] \cap Scope : evid[n].gen = sess.gen /\ sess'.gen = sess.gen
    <3>1. CASE lane.ver = "cur" BY <2>1, <3>1 DEF DInv, Backed, Committed
    <3>2. CASE lane.ver # "cur"
      <4>1. log = <<>> BY <3>2 DEF DInv, Backed
      <4> QED BY <4>1
    <3> QED BY <3>1, <3>2
  <2>10. \A i \in DOMAIN log' : \A n \in log'[i] \cap Scope : evid'[n].gen = sess'.gen
    <3> SUFFICES ASSUME NEW i \in DOMAIN log', NEW n \in log'[i] \cap Scope PROVE evid'[n].gen = sess'.gen
      OBVIOUS
    <3>1. CASE n \in w[p].page BY <2>1, <3>1
    <3>2. CASE n \notin w[p].page
      <4>1. i \in 1..Len(log) /\ log'[i] = log[i] BY <2>8, <3>2
      <4> QED BY <2>1, <2>8, <2>9, <3>2, <4>1
    <3> QED BY <3>1, <3>2
  <2>11. lane'.next = Len(log') + 1 BY <2>5, <2>6, <2>8
  <2>12. Backed' BY <1>2, <1>3, <2>1, <2>5, <2>7, <2>10, <2>11 DEF Backed, Committed
  <2> QED BY <2>1, <2>3, <2>12 DEF DInv
<1> HIDE DEF new
<1> QED BY <1>6, <1>9, <1>11, <1>12

LEMMA FinishLaneDurable ==
    ASSUME IInv, DInv, NEW p \in Procs, FinishLane(p)
    PROVE  DInv'
<1>1. Stored /\ Orderly(p) BY ConnectorOf DEF DInv
<1>2. UNCHANGED <<kind, sess, evid, log, hist>> /\ w[p].pc = "finish" BY DEF FinishLane, At
<1>3. CASE Become(p, Failed(p)) /\ UNCHANGED lane
  <2>1. Untouched BY <1>2, <1>3 DEF Untouched
  <2>2. w[p].pc \in Working \ {"prepare"} BY <1>2 DEF Working
  <2>3. GivenUp' => GivenUp BY <2>1, UntouchedKeeps
  <2> QED BY <1>2, <1>3, <2>1, <2>2, <2>3, FailedOrderly, UntouchedStep
<1>4. CASE /\ lane.ver = "cur" /\ lane.seen = lane.total
           /\ IF lane.pages = 0 THEN lane.seen = 0 /\ lane.next = 2 ELSE lane.next = lane.pages + 1
           /\ lane' = [lane EXCEPT !.done = TRUE]
           /\ Goto(p, "own_complete")
  <2>1. lane \in Lane BY <1>1 DEF Stored
  <2>2. lane'.ver = "cur" /\ lane'.next = lane.next /\ lane'.seen = lane.seen
        /\ lane'.total = lane.total /\ lane'.pages = lane.pages
    BY <1>4, <2>1 DEF Lane
  <2>3. lane'.next > lane'.pages /\ lane'.seen = lane'.total BY <1>4, <2>1, <2>2 DEF Lane
  <2>4. Backed' BY <1>2, <1>4, <2>2, <2>3 DEF DInv, Backed, Committed
  <2>5. Ledger' BY <1>2 DEF DInv, Ledger
  <2>6. kind = "numeric" BY <1>4 DEF DInv, Backed
  <2>7. ~GivenUp' BY <1>1, <1>2, <2>6 DEF Orderly, Clear, GivenUp
  <2>8. w'[p].pc = "own_complete" /\ \A q \in Procs : q # p => w'[q] = w[q]
    BY <1>4, GotoFacts DEF Working
  <2>9. Orderly(p)' BY <1>2, <2>6, <2>7, <2>8 DEF Orderly, Clear, Staged, Recorded
  <2>10. \A q \in Procs : Orderly(q)' BY <1>2, <2>7, <2>8, <2>9, OthersOrderly
  <2> QED BY <2>4, <2>5, <2>10 DEF DInv
<1> QED BY <1>3, <1>4 DEF FinishLane

LEMMA PublishDurable ==
    ASSUME IInv, DInv, NEW p \in Procs, Publish(p)
    PROVE  DInv'
<1>1. Stored BY ConnectorOf
<1>2. UNCHANGED <<kind, evid>> /\ Goto(p, "release") BY DEF Publish
<1>3. w'[p].pc = "release" /\ \A q \in Procs : q # p => w'[q] = w[q] BY <1>2, GotoFacts
<1>4. Orderly(p)' BY <1>3, LeavingOrderly
<1>5. CASE UNCHANGED <<cache, lane, log, sess, hist>>
  <2>1. Untouched BY <1>2, <1>5 DEF Untouched
  <2> QED BY <1>3, <1>4, <2>1, UntouchedStep
<1>6. CASE /\ lane' = NoLane /\ log' = <<>>
           /\ sess' = [sess EXCEPT !.active = FALSE, !.old = FALSE]
           /\ hist' = [hist EXCEPT !.pubs = @ + 1]
  <2>1. sess \in [active : BOOLEAN, old : BOOLEAN, gen : Nat] /\ hist \in History BY <1>1 DEF Stored
  <2>2. sess'.active = FALSE /\ sess'.gen = sess.gen BY <1>6, <2>1
  <2>3. /\ hist'.pubs = hist.pubs + 1 /\ hist'.gcs = hist.gcs
        /\ hist.pubs \in Nat /\ hist.gcs \in Nat /\ sess.gen \in Nat
    BY <1>6, <2>1 DEF History
  <2>4. lane'.ver = "none" BY <1>6 DEF NoLane
  <2>5. Backed' BY <1>6, <2>4 DEF Backed
  <2>6. Ledger'
    <3>1. sess.gen <= hist.pubs + hist.gcs + 1 BY <2>3 DEF DInv, Ledger
    <3> QED BY <1>2, <2>2, <2>3, <3>1 DEF DInv, Ledger
  <2>7. ~GivenUp' BY <2>2 DEF GivenUp
  <2>8. \A q \in Procs : Orderly(q)' BY <1>2, <1>3, <1>4, <2>7, OthersOrderly
  <2> QED BY <2>5, <2>6, <2>8 DEF DInv
<1> QED BY <1>5, <1>6 DEF Publish

-----------------------------------------------------------------------------

LEMMA InitDInv == Init => DInv
<1> SUFFICES ASSUME Init PROVE DInv OBVIOUS
<1>1. \A p \in Procs : w[p].pc = "off" /\ w[p].names = {} BY DEF Init, Idle
<1>2. \A p \in Procs : Orderly(p) BY <1>1 DEF Orderly, Clear, Staged, Recorded
<1>3. lane.ver # "cur" /\ log = <<>>
  <2>1. CASE lane = NoLane BY <2>1 DEF NoLane, Init
  <2>2. CASE lane = [NoLane EXCEPT !.ver = "old", !.next = 2]
    <3>1. lane.ver = "old" BY <2>2 DEF NoLane
    <3> QED BY <3>1 DEF Init
  <2> QED BY <2>1, <2>2 DEF Init
<1>4. Backed BY <1>3 DEF Backed
<1>5. /\ \A n \in Scope : evid[n].times = 0 /\ evid[n].gen = 0
      /\ hist.pubs = 0 /\ hist.gcs = 0
  BY DEF Init
<1>6. \/ sess.active = FALSE /\ sess.gen = 0
      \/ sess.active = TRUE /\ sess.gen = 1
  BY DEF Init
<1>7. Ledger BY <1>5, <1>6 DEF Ledger
<1> QED BY <1>2, <1>4, <1>7 DEF DInv

LEMMA NextDInv == IInv /\ DInv /\ [Next]_vars => DInv'
<1> SUFFICES ASSUME IInv, DInv, [Next]_vars PROVE DInv' OBVIOUS
<1>1. CASE Tick \/ Jump \/ Expire \/ Change \/ (\E j \in jobs : DeferredRelease(j)) \/ UNCHANGED vars
  BY <1>1, EnvironmentDurable
<1>2. CASE Abandon BY <1>2, AbandonDurable
<1>3. ASSUME NEW p \in Procs, Reserve(p) PROVE DInv'
  BY <1>3, BeginDurable, AcquireDurable, PrepareDurable, LoadDurable DEF Reserve
<1>4. ASSUME NEW p \in Procs, Collect(p) PROVE DInv'
  BY <1>4, FetchPageDurable, FetchTimeoutDurable, EnsureOwnedDurable, StorePageDurable, CommitPageDurable DEF Collect
<1>5. ASSUME NEW p \in Procs, End(p) PROVE DInv'
  BY <1>5, FinishLaneDurable, PublishDurable, LeavingDurable DEF End
<1> QED BY <1>1, <1>2, <1>3, <1>4, <1>5 DEF Next

LEMMA AlwaysDInv == Spec => [](IInv /\ DInv)
  BY InitIInv, NextIInv, InitDInv, NextDInv, PTL DEF Spec

\* A page of a numeric source is committed once and at its place, whatever two paging
\* processes, replays, takeovers and crashes do: the checkpoint counts exactly the pages
\* before its position, their names carry the generation of the session, and no name is
\* counted more often than there were refreshes.
THEOREM PagesCommittedOnce == Spec => []PagesOnce
<1>1. IInv /\ DInv => PagesOnce
  <2> SUFFICES ASSUME IInv, DInv PROVE PagesOnce OBVIOUS
  <2>1. CheckpointBacked BY DEF DInv, Backed, CheckpointBacked
  <2>2. SeenOncePerRefresh
    <3>1. /\ sess.gen \in Nat /\ hist.pubs \in Nat /\ hist.gcs \in Nat
          /\ \A n \in Scope : evid[n].times \in Nat /\ evid[n].gen \in Nat
      BY DEF IInv, TypeOK, History
    <3>2. \A n \in Scope : evid[n].times <= sess.gen BY <3>1 DEF DInv, Ledger
    <3>3. sess.gen <= hist.pubs + hist.gcs + 1 BY <3>1 DEF DInv, Ledger
    <3> QED BY <3>1, <3>2, <3>3 DEF SeenOncePerRefresh
  <2> QED BY <2>1, <2>2 DEF PagesOnce
<1> QED BY <1>1, AlwaysDInv, PTL

\* What PublishedWhole says of one step.
Whole ==
    hist'.pubs # hist.pubs =>
       IF kind = "numeric"
       THEN /\ Len(log) >= lane.pages /\ Totals(log, lane.total)
            /\ \A i \in Committed : \A n \in log[i] \cap Scope : evid[n].gen = sess.gen
       ELSE \A p \in Procs : At(p, "complete") /\ ~At(p, "complete")' =>
               \A n \in w[p].names : evid[n].times > 0

LEMMA StepWhole ==
    ASSUME IInv, DInv, [Next]_vars
    PROVE  Whole
<1>1. hist \in History /\ lane \in Lane /\ log \in Seq(SUBSET Records) /\ kind \in {"numeric", "opaque"}
  BY DataAssumption DEF IInv, TypeOK
<1>2. SUFFICES ASSUME hist'.pubs # hist.pubs
               PROVE  IF kind = "numeric"
                      THEN /\ Len(log) >= lane.pages /\ Totals(log, lane.total)
                           /\ \A i \in Committed : \A n \in log[i] \cap Scope : evid[n].gen = sess.gen
                      ELSE \A p \in Procs : At(p, "complete") /\ ~At(p, "complete")' =>
                              \A n \in w[p].names : evid[n].times > 0
  BY DEF Whole
<1>3. PICK p \in Procs : Publish(p)
  <2>1. CASE Tick \/ Jump \/ Expire \/ Abandon \/ Change \/ (\E j \in jobs : DeferredRelease(j)) \/ UNCHANGED vars
    BY <1>1, <1>2, <2>1 DEF Tick, Jump, Expire, Abandon, Change, DeferredRelease, vars, db, History
  <2>2. ASSUME NEW p \in Procs, Reserve(p) PROVE FALSE
    BY <1>1, <1>2, <2>2 DEF Reserve, Begin, Acquire, Prepare, Load, db, History
  <2>3. ASSUME NEW p \in Procs, Collect(p) PROVE FALSE
    <3>1. CASE FetchPage(p) \/ FetchTimeout(p) \/ EnsureOwned(p)
      BY <1>2, <3>1 DEF FetchPage, FetchTimeout, EnsureOwned, db
    <3>2. CASE StorePage(p) \/ CommitPage(p)
      <4>1. PageWritten(p) \/ hist' = hist BY <3>2 DEF StorePage, CommitPage
      <4> QED BY <1>2, <4>1, PageWrittenFacts
    <3> QED BY <2>3, <3>1, <3>2 DEF Collect
  <2>4. ASSUME NEW p \in Procs, End(p), ~Publish(p) PROVE FALSE
    BY <1>2, <2>4 DEF End, FinishLane, MarkPartial, Release, Drop, Kill, db
  <2> QED BY <2>1, <2>2, <2>3, <2>4 DEF Next
<1>4. CASE kind = "numeric"
  <2>1. lane.ver = "cur" /\ lane.done = TRUE BY <1>1, <1>2, <1>3, <1>4 DEF Publish, Lane
  <2>2. /\ lane.next = Len(log) + 1 /\ Totals(log, lane.seen) /\ lane.seen = lane.total
        /\ lane.next > lane.pages
        /\ \A i \in Committed : \A n \in log[i] \cap Scope : evid[n].gen = sess.gen
    BY <2>1 DEF DInv, Backed
  <2>3. Len(log) \in Nat /\ lane.pages \in Nat BY <1>1 DEF Lane
  <2>4. Len(log) >= lane.pages BY <2>2, <2>3
  <2> QED BY <1>4, <2>2, <2>4
<1>5. CASE kind # "numeric"
  <2>1. \A q \in Procs : At(q, "complete") => \A n \in w[q].names : evid[n].times > 0
    BY <1>1, <1>5 DEF DInv, Orderly, Recorded, At
  <2> QED BY <1>5, <2>1
<1> QED BY <1>4, <1>5

\* A source becomes fresh only when it is whole: every page the provider announced is in
\* the log and its records add up to the announced total, or every name the publisher
\* decoded is stored.
THEOREM FreshIsWhole == Spec => PublishedWhole
<1>1. IInv /\ DInv /\ [Next]_vars => [Whole]_vars BY StepWhole
<1> QED BY <1>1, AlwaysDInv, PTL DEF Spec, PublishedWhole, Whole

=============================================================================

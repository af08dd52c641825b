--------------------------- MODULE PassiveRefresh ---------------------------
(***************************************************************************)
(* The refresh of one passive source of one domain: the lease that         *)
(* reserves it, its session and generation, the durable checkpoint of a    *)
(* paginated connector, the evidence of each page, and the publication of  *)
(* freshness (db/passive.rs, db.rs, scanner/passive_phase.rs,              *)
(* scanner/support.rs, passive/pagination.rs, passive/keyed_sources.rs).   *)
(* Each action is one SQLite transaction, one answer of the provider or    *)
(* one step of a guard; processes share one database.                      *)
(*                                                                         *)
(* Time is counted in ticks that remain: until the deadline of a connector *)
(* (monotonic clock) and until the lease expires (wall clock).             *)
(***************************************************************************)
EXTENDS Naturals, FiniteSets, FiniteSetsExt, Sequences

CONSTANTS
    Procs,       \* processes that scan the domain
    Kinds,       \* kinds of connector: "numeric" pagination, or "opaque" cursors
    Records,     \* records a provider may return
    Scope,       \* the records that are names under the domain
    Listings,    \* what the provider may hold: pages, reported total, pages reported
    PageLimit,   \* VIEWDNS_MAX_PAGES
    Budget,      \* total time of a connector
    Grace,       \* how much longer the lease lasts, whole seconds rounded down
    MaxOwner,    \* bound: leases given out
    MaxJumps,    \* bound: jumps of the wall clock
    MaxChanges   \* bound: changes of the provider's listing

Listing == [page : Seq(SUBSET Records), total : Nat]
ASSUME DataAssumption ==
    /\ IsFiniteSet(Records) /\ Scope \subseteq Records
    /\ Listings \subseteq Listing
    /\ Kinds \subseteq {"numeric", "opaque"}
ASSUME BoundAssumption ==
    /\ PageLimit \in Nat \ {0} /\ Budget \in Nat \ {0} /\ Grace \in Nat \ {0}
    /\ MaxOwner \in Nat /\ MaxJumps \in Nat /\ MaxChanges \in Nat

VARIABLES
    kind,    \* the kind of this source's connector
    list,    \* the provider's listing
    lease,   \* passive_refresh_leases: owner (0: no row) and time left
    jobs,    \* releases handed to the cleanup threads of a process
    sess,    \* passive_refresh_sessions: generation (0: no row), active, past 90 days
    lane,    \* passive_pagination_state of the only lane
    evid,    \* observation_evidence: times_seen and generation of each name
    cache,   \* passive_cache: no row, stale, or fresh
    w,       \* the connector of each process
    log,     \* history: the pages committed to the lane
    hist     \* history: owners given out, publications, sessions given up, jumps, changes

db == <<sess, lane, evid, cache, log>>
vars == <<kind, list, lease, jobs, db, w, hist>>

Ttl == Budget + Grace
NoLease == [owner |-> 0, left |-> 0]
NoLane == [ver |-> "none", next |-> 1, seen |-> 0, total |-> 0, pages |-> 0, hash |-> {}, done |-> FALSE]

Idle == [pc |-> "off", own |-> 0, left |-> 0, next |-> 1, seen |-> 0, known |-> FALSE, total |-> 0,
         pages |-> 0, hashes |-> {}, page |-> {}, names |-> {}, bad |-> FALSE]

\* The connector has taken the lease and has not come to its release.
Working == {"prepare", "load", "fetch", "own", "commit", "store", "own_finish", "finish",
            "own_complete", "complete", "partial"}

-----------------------------------------------------------------------------
At(p, pc) == w[p].pc = pc

\* What a connector still remembers: between requests no page, and after its last
\* page only its lease, its deadline and its names.
Kept(r) ==
    CASE r.pc = "release" -> [Idle EXCEPT !.pc = r.pc, !.own = r.own]
      [] r.pc \in {"partial", "own_finish", "own_complete"} ->
            [Idle EXCEPT !.pc = r.pc, !.own = r.own, !.left = r.left, !.names = r.names]
      [] r.pc = "fetch" -> [r EXCEPT !.page = {}]
      [] OTHER -> r

Become(p, r) == w' = [w EXCEPT ![p] = Kept(r)]
Goto(p, pc) == Become(p, [w[p] EXCEPT !.pc = pc])
InTime(p) == w[p].left > 0

\* An error of the connector: what it committed makes the result partial.
Failed(p) == [w[p] EXCEPT !.pc = IF w[p].names # {} THEN "partial" ELSE "release"]

\* Mutant: the release does not look at the owner.
WithoutAny(owner) == NoLease

\* release_passive_refresh_lease deletes the row of its owner only.
Without(owner) == IF lease.owner = owner THEN NoLease ELSE lease

\* cleanup_abandoned_passive_refresh_sessions.
GivenUp == sess.active /\ sess.old

\* Mutant: every page begins a generation.
BegunAlways == [active |-> TRUE, old |-> FALSE, gen |-> sess.gen + 1]

\* begin_passive_refresh_session: a new generation only when none is active.
Begun == [active |-> TRUE, old |-> FALSE,
          gen |-> IF sess.active /\ ~sess.old THEN sess.gen ELSE sess.gen + 1]

\* Evidence of a page: times_seen grows once per generation.
Seen(names, gen) ==
    [n \in Scope |-> IF n \in names
        THEN [times |-> IF evid[n].gen = gen THEN evid[n].times ELSE evid[n].times + 1, gen |-> gen]
        ELSE evid[n]]

\* INSERT OR IGNORE with updated_at 0.
Marked == IF cache = "none" THEN "stale" ELSE cache

Init ==
    /\ kind \in Kinds
    /\ list \in Listings
    /\ lease = NoLease
    /\ jobs = {}
    /\ \/ lane = NoLane /\ sess = [active |-> FALSE, old |-> FALSE, gen |-> 0]
       \/ /\ kind = "numeric"   \* an unfinished refresh under an older contract
          /\ lane = [NoLane EXCEPT !.ver = "old", !.next = 2]
          /\ sess = [active |-> TRUE, old |-> FALSE, gen |-> 1]
    /\ evid = [n \in Scope |-> [times |-> 0, gen |-> 0]]
    /\ cache = IF lane = NoLane THEN "none" ELSE "stale"
    /\ w = [p \in Procs |-> Idle]
    /\ log = <<>>
    /\ hist = [owners |-> 0, pubs |-> 0, gcs |-> 0, jumps |-> 0, changes |-> 0]

-----------------------------------------------------------------------------
(* Reserving the refresh.                                                  *)

\* The preflight read finds no fresh cache; the connector's clock starts.
Begin(p) ==
    /\ At(p, "off") /\ cache # "fresh"
    /\ Become(p, [Idle EXCEPT !.pc = "acquire", !.left = Budget])
    /\ UNCHANGED <<kind, list, lease, jobs, db, hist>>

\* try_acquire_passive_refresh_lease: no row, or an expired one.  Held by another
\* process, contention and a passed deadline all leave the source for later.
Acquire(p) ==
    /\ At(p, "acquire")
    /\ \/ /\ InTime(p) /\ lease.left = 0
          /\ hist.owners < MaxOwner
          /\ hist' = [hist EXCEPT !.owners = @ + 1]
          /\ lease' = [owner |-> hist'.owners, left |-> Ttl]
          /\ Become(p, [w[p] EXCEPT !.own = hist'.owners,
                                    !.pc = IF kind = "numeric" THEN "prepare" ELSE "fetch"])
       \/ Become(p, Idle) /\ UNCHANGED <<lease, hist>>
    /\ UNCHANGED <<kind, list, jobs, db>>

\* prepare_passive_pagination_source: abandoned sessions and lanes of another
\* contract are dropped.
Prepare(p) ==
    /\ At(p, "prepare")
    /\ \/ /\ InTime(p)
          /\ sess' = IF GivenUp THEN [sess EXCEPT !.active = FALSE, !.old = FALSE] ELSE sess
          /\ hist' = IF GivenUp THEN [hist EXCEPT !.gcs = @ + 1] ELSE hist
          /\ lane' = IF GivenUp \/ lane.ver = "old" THEN NoLane ELSE lane
          /\ log' = IF lane'.ver = "none" THEN <<>> ELSE log
          /\ Goto(p, "load")
       \/ Goto(p, "release") /\ UNCHANGED <<sess, hist, lane, log>>
    /\ UNCHANGED <<kind, list, lease, jobs, evid, cache>>

\* passive_pagination_resume, and the start of collect_viewdns_pages: a lane that is
\* done goes straight to publication.
Load(p) ==
    /\ At(p, "load")
    /\ \/ /\ InTime(p)
          /\ Become(p, IF lane.ver # "cur" THEN [w[p] EXCEPT !.pc = "fetch"]
             ELSE [w[p] EXCEPT !.next = lane.next, !.seen = lane.seen, !.known = TRUE,
                               !.total = lane.total, !.pages = lane.pages, !.hashes = {lane.hash} \ {{}},
                               !.pc = CASE lane.done -> "own_complete"
                                        [] ~lane.done /\ lane.next > PageLimit -> "release"
                                        [] OTHER -> "fetch"])
          /\ lane' = IF lane.ver = "old" THEN NoLane ELSE lane
       \/ Goto(p, "release") /\ UNCHANGED lane
    /\ UNCHANGED <<kind, list, lease, jobs, sess, evid, cache, log, hist>>

-----------------------------------------------------------------------------
(* The provider and its pages.                                             *)

PageAt(k) == IF k <= Len(list.page) THEN list.page[k] ELSE {}

\* viewdns_page_state, viewdns_stable_count and the checks before the commit.
Valid(p) ==
    LET page == PageAt(w[p].next) IN
    /\ IF list.page = <<>> THEN w[p].next = 1 /\ list.total = 0 ELSE w[p].next <= Len(list.page)
    /\ w[p].known => w[p].total = list.total /\ w[p].pages = Len(list.page)
    /\ page \notin w[p].hashes
    /\ w[p].seen + Cardinality(page) <= list.total

\* What follows a page: the next one, the end of the listing, or the page limit.
Advance(r, last) ==
    CASE r.next >= r.pages -> last
      [] r.next = PageLimit /\ r.next < r.pages -> IF r.names # {} THEN "partial" ELSE "release"
      [] OTHER -> "fetch"

\* An opaque connector goes on after a page that could not be stored.
NextOpaque(r) == [r EXCEPT !.next = @ + 1, !.pc = Advance(r, IF r.bad THEN "partial" ELSE "own_complete")]

\* One request.  The provider answers, or it fails.
FetchPage(p) ==
    /\ At(p, "fetch") /\ InTime(p)
    /\ LET page == PageAt(w[p].next)
           r == [w[p] EXCEPT !.page = page, !.total = list.total, !.pages = Len(list.page)] IN
        \/ kind = "numeric" /\ Valid(p) /\ Become(p, [r EXCEPT !.pc = "own"])
        \/ /\ kind = "opaque"
           /\ Become(p, IF page \cap Scope = {} THEN NextOpaque(r) ELSE [r EXCEPT !.pc = "own"])
        \/ Become(p, Failed(p))
    /\ UNCHANGED <<kind, list, lease, jobs, db, hist>>

\* enforce_source_budget: the deadline passes while a request is in flight.
FetchTimeout(p) ==
    /\ At(p, "fetch") /\ ~InTime(p)
    /\ Goto(p, "partial")
    /\ UNCHANGED <<kind, list, lease, jobs, db, hist>>

\* Mutant: a page that could not be stored is not remembered.
UnstoredForgotten(p) == NextOpaque([w[p] EXCEPT !.names = @ \cup (w[p].page \cap Scope)])

\* record_page with a persistence error.
Unstored(p) == NextOpaque([w[p] EXCEPT !.names = @ \cup (w[p].page \cap Scope), !.bad = TRUE])

\* Mutant: the grace is added twice and the cap is lost.
RenewedUncapped(p) == w[p].left + Grace + Grace

\* passive_lease_renewal_ttl.
Renewed(p) == IF w[p].left + Grace < Ttl THEN w[p].left + Grace ELSE Ttl

\* renew_passive_refresh_lease asks for the owner only: a lease that has expired but
\* was not taken over is renewed.
Owns(p) == lease.owner = w[p].own

\* ensure_owned renews the lease, before a page, the end of the lane or publication.
EnsureOwned(p) ==
    /\ w[p].pc \in {"own", "own_finish", "own_complete"}
    /\ \/ /\ InTime(p) /\ Owns(p)
          /\ lease' = [lease EXCEPT !.left = Renewed(p)]
          /\ Goto(p, CASE At(p, "own") -> IF kind = "numeric" THEN "commit" ELSE "store"
                       [] At(p, "own_finish") -> "finish"
                       [] OTHER -> "complete")
       \/ /\ Become(p, CASE At(p, "own_complete") -> [w[p] EXCEPT !.pc = "release"]
                         [] At(p, "own") /\ kind = "opaque" -> Unstored(p)
                         [] OTHER -> Failed(p))
          /\ UNCHANGED lease
    /\ UNCHANGED <<kind, list, jobs, db, hist>>

\* The session, the evidence and the cache row of a page, in one transaction.
PageWritten(p) ==
    /\ sess' = Begun
    /\ hist' = IF GivenUp THEN [hist EXCEPT !.gcs = @ + 1] ELSE hist
    /\ evid' = Seen(w[p].page \cap Scope, sess'.gen)
    /\ cache' = Marked

\* store_passive_observation_page through the writer thread, which may finish
\* although the connector has given up waiting.
StorePage(p) ==
    /\ At(p, "store")
    /\ \/ /\ InTime(p)
          /\ PageWritten(p)
          /\ \/ Become(p, NextOpaque([w[p] EXCEPT !.names = @ \cup (w[p].page \cap Scope)]))
             \/ Become(p, Unstored(p))
       \/ Become(p, Unstored(p)) /\ UNCHANGED <<sess, hist, evid, cache>>
    /\ UNCHANGED <<kind, list, lease, jobs, lane, log>>

\* The record count after the page.
Sum(p) == w[p].seen + Cardinality(w[p].page)

Agrees(p) == lane.ver = "cur" /\ ~lane.done /\ lane.total = w[p].total /\ lane.pages = w[p].pages

\* Mutant: the checkpoint is written without comparing positions.
ForwardUnread(p) == TRUE

\* The next page of the lane, or the first one.
Forward(p) ==
    \/ lane.ver = "none" /\ w[p].next = 1 /\ w[p].seen = 0
    \/ Agrees(p) /\ w[p].next = lane.next /\ w[p].seen = lane.seen

\* The page committed last, again: nothing is written.
Replay(p) ==
    /\ Agrees(p) /\ w[p].next + 1 = lane.next
    /\ w[p].page = lane.hash /\ Sum(p) = lane.seen

\* commit_passive_pagination_page: evidence and progress in one transaction; then
\* the end of the loop body of collect_viewdns_pages.
CommitPage(p) ==
    /\ At(p, "commit")
    /\ LET r == [w[p] EXCEPT !.seen = Sum(p), !.known = TRUE, !.names = @ \cup (w[p].page \cap Scope),
                             !.hashes = @ \cup ({w[p].page} \ {{}})]
           last == IF r.seen = r.total THEN "own_finish" ELSE IF r.names # {} THEN "partial" ELSE "release"
           next == [r EXCEPT !.next = @ + 1, !.pc = Advance(r, last)] IN
        \/ /\ InTime(p) /\ Forward(p)
           /\ PageWritten(p)
           /\ lane' = [ver |-> "cur", next |-> w[p].next + 1, seen |-> Sum(p), total |-> w[p].total,
                       pages |-> w[p].pages, hash |-> w[p].page, done |-> FALSE]
           /\ log' = Append(log, w[p].page)
           /\ Become(p, next)
        \/ InTime(p) /\ Replay(p) /\ Become(p, next) /\ UNCHANGED <<db, hist>>
        \/ Become(p, Failed(p)) /\ UNCHANGED <<db, hist>>
    /\ UNCHANGED <<kind, list, lease, jobs>>

-----------------------------------------------------------------------------
(* Completion.                                                             *)

\* finish_passive_pagination marks the lane done when its counts are complete.
FinishLane(p) ==
    /\ At(p, "finish")
    /\ \/ /\ InTime(p) /\ lane.ver = "cur" /\ lane.seen = lane.total
          /\ IF lane.pages = 0 THEN lane.seen = 0 /\ lane.next = 2 ELSE lane.next = lane.pages + 1
          /\ lane' = [lane EXCEPT !.done = TRUE]
          /\ Goto(p, "own_complete")
       \/ Become(p, Failed(p)) /\ UNCHANGED lane
    /\ UNCHANGED <<kind, list, lease, jobs, sess, evid, cache, log, hist>>

\* complete_passive_pagination_source or mark_passive_cache_refresh: freshness, the
\* end of the lane and the end of the session in one transaction.
Publish(p) ==
    /\ At(p, "complete")
    /\ \/ /\ InTime(p)
          /\ kind = "numeric" => lane.ver = "cur" /\ lane.done
          /\ cache' = "fresh"
          /\ lane' = NoLane
          /\ log' = <<>>
          /\ sess' = [sess EXCEPT !.active = FALSE, !.old = FALSE]
          /\ hist' = [hist EXCEPT !.pubs = @ + 1]
       \/ UNCHANGED <<cache, lane, log, sess, hist>>
    /\ Goto(p, "release")
    /\ UNCHANGED <<kind, list, lease, jobs, evid>>

\* A partial result only makes sure that the cache has a row.
MarkPartial(p) ==
    /\ At(p, "partial")
    /\ cache' = IF InTime(p) THEN Marked ELSE cache
    /\ Goto(p, "release")
    /\ UNCHANGED <<kind, list, lease, jobs, sess, lane, evid, log, hist>>

\* release_or_schedule: at once, or by a cleanup thread when SQLite is busy.
Release(p) ==
    /\ At(p, "release")
    /\ \/ lease' = Without(w[p].own) /\ UNCHANGED jobs
       \/ jobs' = jobs \cup {[proc |-> p, own |-> w[p].own]} /\ UNCHANGED lease
    /\ Become(p, Idle)
    /\ UNCHANGED <<kind, list, db, hist>>

\* A cleanup thread releases the lease late, or runs out of attempts.
DeferredRelease(j) ==
    /\ j \in jobs
    /\ jobs' = jobs \ {j}
    /\ lease' \in {lease, Without(j.own)}
    /\ UNCHANGED <<kind, list, db, w, hist>>

\* The phase deadline drops the connector between two operations; the guard tries
\* one short release.
Drop(p) ==
    /\ w[p].pc \in {"prepare", "load", "fetch", "own_complete", "partial"}
    /\ lease' \in {lease, Without(w[p].own)}
    /\ Become(p, Idle)
    /\ UNCHANGED <<kind, list, jobs, db, hist>>

\* The process dies.
Kill(p) ==
    /\ ~At(p, "off") \/ \E j \in jobs : j.proc = p
    /\ jobs' = {j \in jobs : j.proc # p}
    /\ Become(p, Idle)
    /\ UNCHANGED <<kind, list, lease, db, hist>>

-----------------------------------------------------------------------------
(* Time and the provider.                                                  *)

Less(t) == IF t > 0 THEN t - 1 ELSE 0

Tick ==
    /\ lease' = [lease EXCEPT !.left = Less(@)]
    /\ w' = [p \in Procs |-> [w[p] EXCEPT !.left = Less(@)]]
    /\ UNCHANGED <<kind, list, jobs, db, hist>>

\* The wall clock moves while the monotonic one does not (suspension, adjustment).
Jump ==
    /\ hist.jumps < MaxJumps /\ lease.left > 0
    /\ hist' = [hist EXCEPT !.jumps = @ + 1]
    /\ lease' = [lease EXCEPT !.left = 0]
    /\ UNCHANGED <<kind, list, jobs, db, w>>

\* The time of --passive-refresh passes.
Expire ==
    /\ cache = "fresh"
    /\ cache' = "stale"
    /\ UNCHANGED <<kind, list, lease, jobs, sess, lane, evid, log, w, hist>>

\* PASSIVE_REFRESH_ABANDONED_AFTER_SECS pass without a page.
Abandon ==
    /\ sess.active /\ ~sess.old /\ lease.left = 0
    /\ \A p \in Procs : w[p].pc \in {"off", "acquire"}
    /\ sess' = [sess EXCEPT !.old = TRUE]
    /\ UNCHANGED <<kind, list, lease, jobs, lane, evid, cache, log, w, hist>>

\* The provider holds something else.
Change ==
    /\ hist.changes < MaxChanges
    /\ hist' = [hist EXCEPT !.changes = @ + 1]
    /\ list' \in Listings \ {list}
    /\ UNCHANGED <<kind, lease, jobs, db, w>>

Reserve(p) == Begin(p) \/ Acquire(p) \/ Prepare(p) \/ Load(p)
Collect(p) == FetchPage(p) \/ FetchTimeout(p) \/ EnsureOwned(p) \/ StorePage(p) \/ CommitPage(p)
End(p) == FinishLane(p) \/ Publish(p) \/ MarkPartial(p) \/ Release(p) \/ Drop(p) \/ Kill(p)

Next ==
    \/ Tick \/ Jump \/ Expire \/ Abandon \/ Change
    \/ \E j \in jobs : DeferredRelease(j)
    \/ \E p \in Procs : Reserve(p) \/ Collect(p) \/ End(p)

Spec == Init /\ [][Next]_vars

-----------------------------------------------------------------------------
(* Properties.                                                             *)

Lane == [ver : {"none", "old", "cur"}, next : Nat \ {0}, seen : Nat, total : Nat, pages : Nat,
         hash : SUBSET Records, done : BOOLEAN]
Connector == [pc : Working \cup {"off", "acquire", "release"}, own : 0..MaxOwner, left : 0..Budget,
              next : Nat \ {0}, seen : Nat, known : BOOLEAN, total : Nat, pages : Nat,
              hashes : SUBSET SUBSET Records, page : SUBSET Records, names : SUBSET Scope, bad : BOOLEAN]
History == [owners : 0..MaxOwner, pubs : Nat, gcs : Nat, jumps : 0..MaxJumps, changes : 0..MaxChanges]

TypeOK ==
    /\ kind \in Kinds /\ list \in Listings
    /\ lease \in [owner : 0..MaxOwner, left : 0..Ttl]
    /\ jobs \subseteq [proc : Procs, own : 1..MaxOwner]
    /\ sess \in [active : BOOLEAN, old : BOOLEAN, gen : Nat]
    /\ lane \in Lane
    /\ evid \in [Scope -> [times : Nat, gen : Nat]]
    /\ cache \in {"none", "stale", "fresh"}
    /\ w \in [Procs -> Connector]
    /\ log \in Seq(SUBSET Records)
    /\ hist \in History

\* The connector of p works on the source before its deadline.
Refreshing(p) == w[p].pc \in Working /\ InTime(p)

\* While the clocks agree, at most one process works on the source before its
\* deadline, and the lease is still its own: a lease outlives its connector, a late
\* release never removes a newer lease, and a takeover only follows the deadline.
OneRefresher ==
    hist.jumps = 0 => \A p \in Procs : Refreshing(p) =>
        /\ lease.owner = w[p].own /\ lease.left > 0
        /\ \A q \in Procs : Refreshing(q) => p = q

Committed == DOMAIN log

\* The pages of lg hold t records, repetitions included.
Totals(lg, t) ==
    \E sum \in [0..Len(lg) -> 0..t] :
        /\ sum[0] = 0 /\ sum[Len(lg)] = t
        /\ \A i \in DOMAIN lg : sum[i] = sum[i - 1] + Cardinality(lg[i])

\* Even when a clock jump lets two processes page at once, the checkpoint stands for
\* exactly the pages before its position: each was committed once, in order, and its
\* names carry the generation of the active session.
CheckpointBacked ==
    lane.ver = "cur" =>
        /\ sess.active
        /\ lane.next = Len(log) + 1 /\ Totals(log, lane.seen)
        /\ \A i \in Committed : \A n \in log[i] \cap Scope : evid[n].gen = sess.gen

\* times_seen counts refreshes, never the replays of a page after a crash, a retry
\* or a takeover.
SeenOncePerRefresh ==
    \A n \in Scope : evid[n].times <= hist.pubs + hist.gcs + 1

\* Both: a page is committed once, at its place, and counts once.
PagesOnce == CheckpointBacked /\ SeenOncePerRefresh

\* A source becomes fresh only when everything is durable: all the pages the provider
\* reported for a numeric lane, all the names decoded by the publisher otherwise.
PublishedWhole ==
    [][hist'.pubs # hist.pubs =>
        IF kind = "numeric"
        THEN /\ Len(log) >= lane.pages /\ Totals(log, lane.total)
             /\ \A i \in Committed : \A n \in log[i] \cap Scope : evid[n].gen = sess.gen
        ELSE \A p \in Procs : At(p, "complete") /\ ~At(p, "complete")' =>
                \A n \in w[p].names : evid[n].times > 0]_vars

\* Progress is never lost: a checkpoint only moves forward until it is removed, and a
\* finished lane does not change.
LaneForward ==
    [][lane.ver = "cur" /\ lane'.ver = "cur" =>
        lane'.next >= lane.next /\ (lane.done => lane' = lane)]_vars

-----------------------------------------------------------------------------
(* What a comment says, where the code disagrees.                          *)

Honest == list.total = MapThenSumSet(LAMBDA i : Cardinality(list.page[i]), DOMAIN list.page)

\* "leave the refresh generation resumable": when an unchanged listing is read on, its
\* answer is one the connector accepts.
ResumeAccepted ==
    \A p \in Procs : At(p, "fetch") /\ kind = "numeric" /\ hist.changes = 0 /\ Honest => Valid(p)
=============================================================================

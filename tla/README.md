# TLA+ models of Fellaga

Fellaga finds the subdomains of a domain. A scan collects names from passive sources
(HTTP connectors, certificate transparency, zone transfers and walks), generates more of
them, resolves everything over DNS and keeps what it learns in one SQLite database that
several processes may use at once. A scan can be interrupted at any point and resumed
later. This directory models what has to survive that: the durable queues and feeds, the
lease that decides which process owns a scan, the refresh of a passive source and the
phase that collects all of them, the index of the CT logs, the requests on the wire and
what is undone when one is dropped, the verdicts drawn from their answers, the enrichment
and the recursion that follow.

Paths below are relative to `src/src/`; `db/` and `scanner/` are directories there.

## The parts of the system

| Part | State | Operations | What is hard |
| --- | --- | --- | --- |
| Candidate queues (`db/scan.rs`, `scanner/candidates.rs`) | `scan_seed_candidates`, `scan_candidates`, generator counters | persist with a cap and eviction, refill within a budget, claim a page, start, requeue, settle, reopen | a crash between any two transactions; a name moving from one queue to the other; limits read before they are used |
| Feeds and recursive candidates (`db/scan.rs`) | byte cursor of a wordlist, cursors of corpus and window, `scan_recursive_*` | page, advance, claim, settle | the file is read without the lock; a crash between a page and its cursor |
| Active validation (`scanner/active_validation.rs`, `scanner/validation.rs`, `scanner/resolution.rs`) | the wave in memory: claimed names, results, answers, deadline | waves, batches, wildcard proofs, journal, findings, late CT drain, enrichment batches | partial results, a deadline racing ready answers, retries that must end |
| Observations (`db/observations.rs`) | `dns_verifications`, `dns_cache`, `scan_findings`, quarantine | journal, cache, persist findings, demote, quarantine | several transactions per batch; a cache shared by all scans |
| Scan lifecycle (`scanner/run.rs`, `scanner/lifecycle.rs`, `scanner/finalization.rs`, `db/scan.rs`) | `scans`, `scan_checkpoints` | create, checkpoint, heartbeat, resume, supersede, prune, pause, finalize, fail, cancel | several processes; a lease that may expire; late heartbeats; crashes |
| Inventory refresh (`scanner/refresh.rs`) | a scan row, `refresh_wildcard_candidates` | stage, apply, discard, finish | no heartbeat; other processes reconcile it |
| Passive refresh (`db/passive.rs`, `passive/`) | refresh leases, generations, page checkpoints | acquire, renew, page, publish, release | two processes on one source; cancellation in the middle of pagination |
| Passive phase (`scanner/passive_phase.rs`, `db/passive.rs`) | health of the sources, the union of names in memory | launch, fold, refill, cap, record | SQLite calls with budgets of their own; a deadline with connectors running |
| Connectors (`passive/extra.rs`, `keyed_sources.rs`, `public_sources.rs`, `providers.rs`) | position in a listing, a batch on its way to the writer | request a page, decode a stream | what a provider means by "more"; records cut by chunks |
| Requests of connectors (`passive/transport.rs`) | limiters per source and host | pass, send, retry, honour Retry-After | limiters shared by tasks that may be dropped at any wait |
| Observation writer (`db.rs`) | a channel and a writer thread | send a page, insert, reply | a producer that stops waiting at its deadline |
| CT monitor (`ct_monitor.rs`, `ct_static.rs`, `db/enrichment.rs`) | log cursors, names, a freshness marker, a global permit | fetch a range or tiles, store and advance, materialize | cursor and names must move together |
| DNS requests (`dns/engine.rs`, `dns/transport.rs`) | the cadence, resolver metrics, the map of pending identifiers | reserve a slot, send, correlate, cancel | a future dropped at any await; an identifier used again |
| DNS verdicts (`dns/engine.rs`, `dns/policy.rs`) | answers of the resolvers per family | ask, settle, classify a zone | disagreement, early exits, a resolver that lies |
| Network governor (`network_governor.rs`) | rate, concurrency, the current window | observe, back off, recover | boundary values, zero as "unlimited" |
| Zone walk and transfer (`dnssec.rs`, `axfr.rs`) | the walk, its cache, the records received | step, store, reuse; transfer, cap | a zone that changes in the middle; reuse of a partial result |
| Enrichment and pipeline (`scanner/enrichment.rs`, `pipeline.rs`) | phases with checkpoints, the events seen | find, persist, claim, resolve, settle; recurse | budgets and limits reached in the middle of a phase; a resumed scan |
| Learning (`intelligence.rs`, `db/intelligence.rs`) | bandit and word statistics | record, finalize once | applied at most once |
| Candidate generation, web, TLS, metadata and archive discovery, command line, benchmarks, packaging | none that outlives a call, or pure computation | fetch, parse, score, print | input and output |

The parts meet in the database. A passive source, the CT task or an enrichment phase
*persists* names into the seed queue; a feed *refills* the active queue; a wave *claims*
from both; its outcomes go to the journal and the cache, which decide how the rows are
*settled*; finalization reads the queues to choose between pausing and completing the scan;
the lifecycle decides which process may do any of that. In memory the requests of all parts
meet at the limiters, the cadence and the governor.

## Modules

| Module | Role |
| --- | --- |
| `CandidateQueue` | both queues of one scan and the runs that work on them |
| `Feeds` | wordlist, generated window and built-in corpus, read by cursors |
| `Recursion` | the recursive queue below the names found, and its resumption |
| `ScanLifecycle` | scans, checkpoints, leases and refreshes of one domain |
| `PassiveRefresh` | the refresh of one passive source of one domain |
| `PassivePhase` | the phase that runs all sources of a zone and its child zones |
| `PagedSources`, `StreamSources` | one fetch of a connector that reads pages, or a stream |
| `Connectors` | both kinds of connectors, one fetch of either |
| `ExternalTransport` | limiters, retries and Retry-After of the connectors' requests |
| `CtIndex` | the index of the CT logs by tasks of one or several processes |
| `LogIndex` | what that index promises: the abstract specification |
| `DnsCadence` | slots, metrics and flags of DNS requests that may be dropped |
| `DnsTransport` | identifiers, datagrams and waiters of one resolver |
| `DnsEngine` | the verdict on a name and on a zone |
| `NetworkGovernor` | the adaptive limits |
| `ZoneWalk`, `ZoneTransfer` | NSEC walks with their cache, and zone transfers |
| `Zones` | a walk or a transfer of a zone |
| `Enrichment` | the enrichment phases and the pipeline |
| `MCCandidateQueue`, `MCScanLifecycle`, `MCPassiveRefresh` | instances of one module |
| `MCQueueRuns` | the queues of a scan under one run at a time, and under two at once |
| `MCScanRuns` | `MCScanLifecycle` and `Feeds` |
| `MCRecovery` | queues, lease, governor and recursion, under fairness |
| `MCSources` | connectors, requests, passive phase, walk, transfer and recursion |
| `MCDiscovery` | CT index, DNS cadence, transport and verdicts, enrichment |
| `CandidateQueueProofs`, `ScanLifecycleProofs`, `PassiveRefreshProofs`, `ConnectorProofs`, `CtIndexProofs`, `DnsProofs`, `EnrichmentProofs`, `NamesProofs` | theorems and proofs; `ConnectorProofs` is about the connectors, their requests and the passive phase, `NamesProofs` about recursion, zones and feeds |

The last five MC modules hold several parts each. Those parts share no state that the
modules model, so their product would only multiply states: a behaviour is one of a single
part, chosen by the variable `part`, while the others rest in a fixed state where no step
of theirs is taken. An invariant of a part is checked in all its behaviours and, at rest,
once; a liveness property of one part is fair only in its own behaviours.

### CandidateQueue

State: `seed` and `cand` are the two tables (status, attempts, priority or
learning_recorded per name); `verdict` is the last journal entry of a name in this scan,
`cache` the shared DNS cache, `live` the findings, `stats` the sum of the generator
counters, `feed` what the generators can still produce, `applied` the flag
`learning_applied`. `lock` and `wk` are the one transaction that is modelled row by row,
`persist_scan_seed_candidates`. `w[p]` is the memory of a run; its `pc` names the next
transaction. `failed`, `restarts` and `holds` are history.

Every action is one SQLite transaction, or one purely local step, in the order of the
code. A wave is `ClaimSeeds`, `ReadCapacity`, `RefillQueue`, `ClaimCands`, `Demote`, then
batches, then `RecordLearning`, `DoneCands`, `RequeueCands`, `RequeueSeeds`, `DoneSeeds`.
A batch (`resolve_batch_with_deadline`) is `Resolve`, the two start transactions,
`UnstartSeeds`, the three wildcard and DNSSEC transactions, `Journal`,
`JournalDiscovery`, `PersistFindings`. `JoinLateCt`, `DrainClaim`, `MarkAnswered` and
`Enrich`, `ClaimNamed`, `BoundedRequeue`, `BoundedDone` are the work after the waves.
`Interrupt` may come between any two of them, and inside the persist transaction, which
then rolls back.

Abstractions. What DNS answers is one of the classes of `Classes`, chosen per name within
what `Possible` allows. `gen` stands for "generation is enabled or an explicit wordlist is
pending". The transactions of one refill (wordlist page, high-value window, built-in
corpus) are one action here and separate ones in `Feeds`. A wildcard match that is
preserved because the profile is weak is journalled as an error, as in the code.
`--passive-only` and `--no-target-contact` scans, which do no DNS work, are left out.
`Overlap` allows a second run while the first is alive; `ScanLifecycle` says when that can
happen.

### Feeds and Recursion

`Feeds`: `words`, `window` and `corpus` are the cursors, `queue` and `taken` the rows,
`filler[p]` where a refill stands. A wordlist line is a name or junk, one or two units
long, and a page is so many lines and so many units: that is enough to end a page inside a
line, which the code carries over as `cursor_text = 'discard'`. The page is read before the
transaction that compares and sets the cursor, so two refills may read from the same one.

`Recursion`: `cursor` and `rows` are `scan_recursive_parents` and
`scan_recursive_candidates`, `run` the step. A page of candidates and the cursor of its
parent are one transaction; a batch is claimed, resolved, settled and requeued in
transactions of their own; a stop may come between any two, and the scan is resumed from
the tables.

### ScanLifecycle

State: `scan` and `ckpt` are the rows of `scans` and `scan_checkpoints` of one domain,
`learned` the scans with `learning_applied`, `rows` which kinds of queue rows a scan
still has, `staged` the refreshes with staged wildcard names, `pr[p]` the memory of a
process. Timestamps are kept as ages that stop just above the lease, since the SQL only
compares them with it; `Tick` lets them grow. A process beats at least every `Beat` ticks
while it runs and its setup, a few transactions in a row, takes at most one tick; the
lease is `Lease` ticks. `Kill` is a process that dies without destructors, `CancelScan`
one whose future is dropped so that `ScanRunGuard` writes `interrupted`.

Every command opens the database and so reconciles abandoned scans: `Open` models that
for commands that go on to scan, resume or refresh and for those that do nothing else.
The options hash of a resume is a choice: it matches or the command ends. Benchmark scans
(`benchmark.rs`), which have no checkpoint, are left out.

### PassiveRefresh

State: `lease` is the row that reserves the refresh, `sess` the session with its
generation, `lane` the checkpoint of the paginated connector, `evid` the counters of each
name's evidence, `cache` the freshness row, `jobs` the releases handed to the cleanup
threads, `w[p]` the connector of a process, `list` what the provider holds. `log` (the
pages committed to the lane) and `hist` are history. A connector goes through `Begin`,
`Acquire`, `Prepare`, `Load`, then per page `FetchPage`, `EnsureOwned` and `CommitPage`
(numeric positions, ViewDNS) or `StorePage` (opaque cursors, every other source), then
`FinishLane`, `Publish` or `MarkPartial`, and `Release`. Renewing the lease and writing
are two transactions in the code and two actions here. `Drop` is the phase deadline that
drops the future, `Kill` the end of the process, `DeferredRelease` a cleanup thread.

The deadline of a connector is on the monotonic clock and the lease on the wall clock:
`Tick` moves both, `Jump` only the second, as a suspension does. A page is a set of
records, its hash the set itself, and a record outside `Scope` counts but is not stored.
Every transaction may fail (contention, deadline); an answer the provider gets wrong is a
failed request. There is one lane because the code has one numeric source with one lane.

### PassivePhase

State: `job[s]` is the connector of a source, `memory[s]` its durable names and `held[s]`
those in its memory, `origins` the union with the sources of each name, `gathered` what the
scan has from all zones; `streak`, `status` and `pauses` are the health in SQLite. The root
zone comes first, then child zones one at a time. A connector is answered from memory,
launched under a permit, ends in one of the ways the code tells apart, or is cut by the
deadline; then its result is folded, its durable names are read back and its health is
recorded. An error that ends a connector is the provider's or that of a SQLite call of this
machine; the code treats them alike. Each SQLite call of the phase
has a budget of its own and may miss it; the phase then goes on as if the answer were empty,
and so does the model. What is a page in `PassiveRefresh` is one durable name here.

### The connectors and their requests

`PagedSources` is one loop for all connectors that read a listing: a record per connector
says what announces another page, what a page is checked for and when, and what a failure
stops. Providers are honest, lossy (a page may come empty) or wild in their last lane.
`StreamSources` is the loop of those that decode records while they arrive, in chunks that
cut a record anywhere, with a batch that is handed over when full, at checkpoints and on
the way out. `ExternalTransport` is one request of either: the limiter of its source, then
of its host, each locked while a request sleeps at it, the answer or the failure, the
backoff or the pause a server asked for. Its `Drop` may come at every await.

### CtIndex and LogIndex

State: `cursor`, `index` and `marker` are durable, `evid` and `cache` the evidence of the
target, `tk[t]` a task and `lg[t][l]` its pass over a log; `head` is what a log has
announced, `lo` and `hi` the range covered (history). A task takes the permit of its
process, reads the marker, selects logs, and passes over each: tree head, cursor, perhaps a
reset of a cursor that fell behind, pages of entries or static tiles, one transaction per
page for names and cursor, the marker at the end; then the target's names are copied into
evidence page by page. A commit may be reported late or cancelled, and is then done or not.

`LogIndex` has a range and a cursor per log: it may cover more, contiguously, or move a
cursor back within what is covered. The refinement mapping is the identity on the durable
variables and the history range; everything else of `CtIndex` is stuttering.

### DnsCadence, DnsTransport, DnsEngine, NetworkGovernor

`DnsCadence` follows a request through `wait_for_rate_slot`: permit of the reservations,
slot under the mutex, sleep, datagram, answer; `CancelRequest` drops it at any of these
points, and `orphans` are slots whose permit a detached task keeps until they have passed.
`state` and `attempted` are what the code counts, `packets` and `poked` what really left.
`DnsTransport` has the map of pending identifiers, the guard that removes a registration
directly or by a spawned task, and a network that loses, repeats, delays and reorders.
`DnsEngine` has the stages of a lookup (quorum, families, consensus), the answers of both
families in any order, the early exits, one resolver that answers anything, and the probes
that classify a zone. `NetworkGovernor` has the window and what a judgement does to the
limits; the judgement itself (failure rate, latency against a baseline) is a choice.

### ZoneWalk, ZoneTransfer, Enrichment

`ZoneWalk` numbers the names of a zone in canonical order and follows NSEC records over
the addresses in turn; `row` is the cached walk, which may be reused. The walk follows the
first NSEC record of an answer, as the code does, and servers may put any of their records
first: the one of the name, the one that denies a wildcard and so covers an earlier place,
or, for a name in `Delegated`, the apex record of the child zone they also hold. A walk that
comes to a name it has asked about ends there as `walked` (`StepSeen`); `looped` remembers
it. `ZoneTransfer` runs a
few transfers at a time until one succeeds, against servers that refuse, break off, end
early or reload the zone. `Enrichment` runs the phases of `scanner/enrichment.rs` in their
order: each finds names from those known, lets them through the pipeline, persists, claims,
resolves and settles them under the active budget, and may be aborted and resumed.

## Runs

| Run | Checks | Shows |
| --- | --- | --- |
| `queue_runs` | `TypeOK`, `Disjoint`, `AttemptsBounded`, `NoOrphanClaims`, `BudgetWithin`, `OverlapBounded`, `SeedCap`, `EvictionSafe`, `SettledStays` | two names that either queue may get, with two priorities against a cap of one seed and a budget of one word, two runs, an expired deadline, one late persist, interruption anywhere; apart from that, two processes on one scan at once, and a cache other scans write |
| `lifecycle_lease` | `TypesOK`, `OneOwner`, `OwnerRunning`, `NoStrandedWork`, `FeedWhole`, `ClosedStays` | two processes, two scans, resumes, takeovers, refreshes, crashes, with a heartbeat shorter than the lease; two refills of one queue, interrupted and interleaved |
| `passive_refresh` | `TypeOK`, `OneRefresher`, `PagesOnce`, `PublishedWhole`, `LaneForward` | two processes on one source, numeric or opaque, with crashes, cancellations, late releases, takeovers, a clock jump and a changing listing |
| `recovery` | `LimitsHold`, `RunEnds`, `QueriedBeforeDropped`, `AbandonedReopens`, `Recovers`, `RecursionEnds` | what must end or come back: a run of a scan, the scan of a killed process, the recursion, the limits of the governor |
| `sources` | `TypeOK`, `ConnectorsKeep`, `Polite`, `PhaseKept`, `ZoneSound`, `RecursionWhole` | connectors against honest, lossy and wild providers, streams cut anywhere, requests limited, retried and dropped, a phase whose SQLite calls may all miss their budgets, walks, transfers and recursion stopped anywhere |
| `discovery` | `TypeOK`, `CadenceSafe`, `TransportSafe`, `VerdictsSound`, `EnrichKept`, `CtHonest`, `Implements` | two tasks on a CT log, DNS requests dropped at every point, an identifier space of two, one resolver that lies, enrichment that is interrupted, limited and resumed |

What the less obvious properties say:

- `AttemptsBounded`: over all runs, crashes and resumes a row is charged at most its retry
  budget; `OverlapBounded` (`AttemptsBoundedOverlap` of `CandidateQueue`, for the pair of
  processes): a second living process adds at most one charge.
- `NoOrphanClaims`: outside a wave no row is left in `processing`, by any run, alive or dead.
- `SeedCap`: no step makes more seed rows than `--max-passive` out of fewer, or adds to a
  table beyond it, except the demotion of a finding.
- `PagesOnce`: the checkpoint of a numeric source counts exactly the records of the pages
  before its position; a page is committed once and at its place, and counts once per
  refresh for each of its names.
- `PublishedWhole`: a source becomes fresh only with every page the provider announced and
  the announced number of records, or every name the publisher decoded.
- `ConnectorsKeep`: what a connector found is kept however it ends, it reports success only
  for a whole listing or stream, and it asks for no page twice.
- `PhaseKept`: a durable name is in the union the phase returns, unless the union is full,
  the bulk cap took it or the read missed its budget, which the phase reports.
- `CadenceSafe`: cancelled sleepers cannot push the cadence more than one spacing per
  permit ahead, and metrics, load and host attempts count exactly the datagrams that left.
- `TransportSafe`: a query only ever gets the answer to its own question, and a cancelled
  one does not keep its identifier.
- `ZoneSound`: a walk that came to the apex, and a stored walk of that kind that is reused,
  misses no name past its start, even if an answer sent it back on the way; a transfer that
  counts as a success is whole. A walk that ended at a name met twice is the subject of
  `WalkComplete`, which does not hold.
- `FeedWhole`: what the cursor of the wordlist or of the corpus has passed is a candidate or
  a seed. It says nothing of the generated window, which the budget may cut on purpose.
- `RecursionWhole`: what lies before a cursor is a row or has its end. `EnrichKept`: a name
  that a phase found is answered, a seed, or refused by a limit that says so.
- `CtHonest`: no entry of the covered range lacks its name, one pass at a time in a process,
  and neither the freshness marker nor the cache row comes before what it stands for.
- `VerdictsSound`: one lying resolver out of three costs no name and opens no wildcard zone.

Six more runs show a disagreement between the code and what the repository says of it;
each is a finding with the quotation in `PROJECT.json`.

| Run | Property | What TLC finds |
| --- | --- | --- |
| `queue_three_attempts` | `FailuresBounded` | a generated name that spent its attempts is queried again after passive discovery promotes it to a seed |
| `queue_shared_cache` | `RunEnds` | a name whose last journal entry is an error and whose answer now comes from the shared cache is claimed, served and requeued for ever, without an attempt being charged; the late CT drain has the same loop for names already answered |
| `queue_live_kept` | `LiveKept` | an interruption between the journal and the findings of a name on its last attempt loses the finding: the resumed scan closes the row |
| `lifecycle_refresh_staging` | `StagedApplied` | any command that opens the database during a refresh of more than 120 s deletes what it staged, and the refresh still completes |
| `passive_last_page` | `ResumeAccepted` | a refresh that stops after its last page and before its lane is marked done asks for a page past the end on every retry and refuses the answer |
| `zone_walk_loop` | `WalkComplete` | the apex record of a child zone sends the walk back to a name it has asked about; the walk ends as `walked` with names ahead of it, and its row is reused instead of a walk |

### Bounds

Queues: one name is enough where a property is about a single row; two where rows compete
for a wave, a budget, a slot or a queue: with a cap of one seed the second name of a higher
priority evicts the first. `MaxAttempts` is 2 instead of 3 where the exact number does not
matter (one retry and one exhausted row exist), 1 with two processes (the charges of both
are seen), and 3 in the findings that quote it. `MaxRestarts`, `MaxHolds` and `MaxCalls`
bound the runs of the scan, the batches delayed by a deferral, the deadline or a pre-send
timeout, and the late persists of a run; two runs are one crash and one resume.
`queue_runs` has no deferral (`MaxHolds` 0): deferred batches are in `recovery`, and
`ClaimsReturned` proves `NoOrphanClaims` with them. Under two runs at once
the answers are plain ones (live, negative, error) or come from the cache, which another scan
fills before them: wildcards and DNSSEC proofs change no charge, and
`AttemptsUnderOverlap` is proved without this bound.

Lifecycle: `Lease` 2 and `Beat` 1 give every order of "before, at and after" the lease;
ages above `Lease + 1` are indistinguishable to the code. Two processes suffice for
takeovers, since a process that died can come back as the third. Feeds: a file of two
lines, pages of two lines or three units, so that a page ends between lines, inside one,
and at the end of the file; three refills are a crash, a rival and the one that goes on.

Passive refresh: two leases are one crash or takeover; the listings are two pages that
share a name, other pages whose total is reached only by a mix of both listings, no page
and more pages than the limit; `Budget` 2 and `Grace` 1 put a tick before, at and after
both the deadline and the end of the lease. Phase: two sources, a union of two names with
a bulk cap of one, one child zone, three names of which one is durable from earlier.

Connectors: listings of up to five pages against a limit of four, streams of up to three
records, batches of two and a cap of two. Requests: two at once over two sources and one
server, two attempts, a Retry-After that is served inline and one that is not. Walks and
transfers: a zone of two names, one of them a zone of its own, that changes once, three
targets of which two are taken.
Recursion: two words and three levels, so that a child of a child exists, one name per
wave. CT: one log of three entries, pages of one, tiles of two, two tasks. DNS: two
requests and one reservation, so that one sleeps and one waits; three queries and two
identifiers, so that one comes round again while its answer is under way; three resolvers
and one liar. Governor: ceilings below, at and above the floor of 10, and unlimited.

MC modules add bounds no constant expresses, each under a comment there: which options an
enrichment starts with, from what a recursion starts, when a child zone is collected.

### Fairness

`RunEnds` assumes weak fairness of each run's own steps: every future the run awaits has a
timeout or is bounded, and SQLite grants its lock. Nothing is assumed about interruptions.
`AbandonedReopens` assumes that time passes and that a living process gets to its next
setup step and heartbeat, which the tokio runtime provides. `Recovers` assumes that time
passes and that requests keep finishing while a scan works, and is about an environment
that stays healthy. `RecursionEnds` assumes that a scan that can go on does and that one
left unfinished is resumed; stops and silent errors are bounded.

## Proofs

TLC checks the properties on the instances above; the theorems hold for every set of names,
processes, tasks, requests, sources and records, and every value of the limits, under the
assumptions each module states on its constants and nothing else, except two hypotheses of
the properties that need them: the period of the heartbeat stays below the lease, and the
lease excludes a second run (`~Overlap`).
Every proof has the same plan: an inductive invariant, what one step does to it, action by
action, and one temporal step.

The theorems, by module:

| Module | Theorem (property it states) |
|---|---|
| `CandidateQueueProofs` | `TypeCorrect` (TypeOK), `QueuesDisjoint` (Disjoint), `QueueInvariant`, `AttemptsWithinBudget` (AttemptsBounded), `AttemptsUnderOverlap` (AttemptsBoundedOverlap), `ClaimsReturned` (NoOrphanClaims), `WordsWithinBudget` (BudgetWithin), `EvictionsSafe` (EvictionSafe), `SettledRowsStay` (SettledStays), `SeedsCapped` (SeedCap), `SeedsLookedAt` (QueriedBeforeDropped) |
| `ScanLifecycleProofs` | `LifecycleTyped`, `OwnersDistinct` (OneOwner), `OwnersRun` (OwnerRunning), `WorkReachable` (NoStrandedWork), `FinishedForGood` (ClosedStays) |
| `PassiveRefreshProofs` | `RefreshTyped` (TypeOK), `SingleRefresher` (OneRefresher), `PagesCommittedOnce` (PagesOnce), `FreshIsWhole` (PublishedWhole), `CheckpointForward` (LaneForward) |
| `DnsProofs` | `GovernorBounded` (LimitsHold), `DnsTransportTyped`, `DnsAnswersCorrelated` (TransportSafe), `DnsCadenceTyped`, `DnsNothingLeftBehind` (CadenceSafe), `EngineTyped`, `EngineSound` (VerdictsSound) |
| `ConnectorProofs` | `TransportTyped`, `TransportPolite` (Polite), `PagesTyped`, `StreamsTyped`, `ConnectorsKept` (ConnectorsKeep), `PhaseTyped`, `PhaseKeepsNames` (PhaseKept) |
| `CtIndexProofs` | `CtInvariant`, `IndexHonest` (CtHonest), `IndexImplements` (Implements) |
| `EnrichmentProofs` | `EnrichmentTyped`, `EnrichmentKeeps` (EnrichKept) |
| `NamesProofs` | `RecursionTyped`, `RecursionKeeps` (RecursionWhole), `ZoneTyped`, `AxfrTyped`, `ZonesSound` (ZoneSound), `FeedsTyped`, `FeedsKeep` (FeedWhole) |

**Queues** (`CandidateQueueProofs`). `Disjoint` is inductive with
the type invariant and the fact that the uncommitted table of an open transaction is the
seed table plus names of its payload: only a commit puts a name into `seed`, and it drops
the active row in the same transaction. The other properties rest on `SafeInv`, which ties
the memory of a run to the tables at each of its control points. `Alone`: without overlap
one run lives. `Shape`: mode and capacity follow the control point. `Blank`: a missing row
has no charge. `Persisting`: what an open persist has done to each row so far, the evicted
ones with the row that beat them (this is where `EvictionSafe` needs an induction over the
priorities, by a minimal counterexample). `ClaimsHeld`: a row in `processing` belongs to
the claim of the one living run. `Charged`: a claimed row that has not been charged yet has
an attempt left, one for each process that may still charge it; from it follow
`AttemptsBounded` and `AttemptsBoundedOverlap`. `Counted`: names counted and names still
uncounted stay within `--max-words`, which gives `BudgetWithin`. `SettledStays` is an action
property of the same invariant. `SeedCap` needs one more (`Capped`): the table of an open
persist has at most `--max-passive` rows, or no more than the committed table it started
from; a row that is inserted finds room under the cap or replaces another.
`QueriedBeforeDropped` rests on `LookInv`: a settled row was charged, has a cached answer or
is a finding, and what an outcome left behind in the tables (`OutcomeKept`: a charge, an
answer, an error in the journal) is still there when its row is settled. A name held back
or never sent leaves nothing, but goes back to the queue; one answered before is a finding
of this run (`ans`). No host of a claim is `done` before the claim is settled, so dropping
its answer as a wildcard's hurts no settled row (`Reserved`).

**Lifecycle** (`ScanLifecycleProofs`). None of `OneOwner`, `OwnerRunning`,
`NoStrandedWork` and `ClosedStays` is inductive alone. `Safe` adds: ids are given out in
order, so a new scan is untouched (`Ids`); the program counter tells refreshes from scans
(`Jobs`) and so does the `kind` of a row, a refresh having no queue (`Kinds`); processes
that hold a scan hold different ones (`Sole`); the checkpoint of an owner is open and its
age is at most the time since the owner's last heartbeat, or, before the first checkpoint,
the start of the scan stands for it (`Leased`); seeds imply an open checkpoint (`Work`).
From `Leased` and `Beat < Lease` follows lemma `OwnerSafe`: the scan of a living owner
fails the three tests by which one process reaches another's scan. Nothing in the code
enforces `Beat < Lease`: `--checkpoint-every` is only refused when it is zero, and above
120 s a second scan takes a running one for abandoned and deletes its seeds.

**Passive refresh** (`PassiveRefreshProofs`). `OneRefresher` is inductive with two facts.
`OwnersFresh`: owner ids are given out in order, so a late release can only delete the row
it was made for. `LeaseCovers`: without a clock jump the lease of a working connector lasts
strictly longer than its deadline. With a jump two connectors may page at once, and
`PagesOnce` and `PublishedWhole` still hold; they rest on `DInv`. `Orderly`: a numeric
connector reads no page of a session that was given up, the two kinds of connectors keep to
their own transactions, and an opaque one that has met no error has stored all its names.
`Backed`: the checkpoint counts the pages of `log` before it, their names carry the
session's generation, and a lane that is done has every page and record announced.
`Ledger`: no evidence row counts more than the refreshes there were. The records of a log
are summed by the existence of its partial sums (`Totals`), so that adding a page is a
lemma about one more of them and not an induction. `LaneForward`
follows from the position test alone.

**Passive phase** (`ConnectorProofs`). Types, permits and working sets are bounded
together (`PhTypeOK`, `Held`): the number of running connectors falls with a result and
rises only under a permit. With these `PhaseKept` is kept by every step: the one that ends
the phase reads the durable names back into the union or finds it full, and the bulk cap,
alone, takes names out of it and remembers them (`CulledWasThere`).

**Connector requests** (`ConnectorProofs`). `ExtInv` says of each limiter that
requests passed it a gap apart and that its `last_request` is the last of them (`Spaced`),
that whoever holds it sleeps at it (`HeldAtGate`), and of each request that it knows its
limiters, has no more attempts than its policy and has sat out the pause it was told
(`Proper`). `Polite` follows.

**Connectors** (`ConnectorProofs`). The 56 descriptions of paged connectors are reduced to
what none of them combines (`Formed`, shown for each), and the proof then speaks of any
connector with that form. `PagedInv` says of each lane: its counters, its total and the
continuation it remembers agree (`LaneBooks`); with a provider that keeps to its listing,
the rows counted are the pages kept and the position is the next page (`Heard`); no hole was
passed over (`Steady`); a provider that keeps to its protocol repeats nothing and its lane
ends in a failure at the limit of pages only (`Faithful`); a lane that ended well is whole
(`WholeLane`). That success means a whole listing, no page is asked for twice and an honest
provider raises no alarm are then kept by every step. A stream (`StreamInv`): what was
understood is handed over or in the batch, which is short of full (`Batched`), and every
record up to the last decoded one was usable (`Usable`), so a success leaves none out.

**CT index** (`CtIndexProofs`). `CtInv`: every covered entry has its name and the cursor is
within the range (`Durable`); the positions of a pass are in order, and with one process
what it will commit continues the covered range (`PassesInOrder`, `PassesContinue`); one
pass at a time (`OnePass`); a task about to store the marker has committed its passes, and
what it selected and is not evidence is still to be written (`TasksOwe`). From it follow
`CtHonest` and, step by step, `Implements`: a page extends the range, a reset moves the
cursor back within it, everything else stutters.

**DNS** (`DnsProofs`). Governor: `LimitsHold` is inductive with the types (`GovInv`): an
integer rate above the floor bounds what a step makes of it. Transport: a waiting query
owns the identifier it is registered under (`Own`), and an answer taken or under way
belongs to a question that was asked (`Answered`, `Questioned`); `TransportSafe` follows.
Cadence: `SlotsApart` (slots, of sleepers or left behind, are different and before the next
one), `Within` (reservations and abandoned slots share the permits) and `Ahead`: for every
moment t from now on, the next slot is at most one spacing after t for each slot beyond t,
plus one. Stated for now alone this is not inductive, since the clock moves past slots.
`Booked` relates requests, load and packets of a resolver to the requests on their way.
`CadenceSafe` follows. Verdicts: what a resolver that does not lie answered is true
(`Honest`), and so is what a zone's tally has counted (`Tallied`); with fewer than a quorum
lying, any quorum of answers has one of an honest resolver in it, by counting. `InStage` and
`Open` keep the early exits apart: which stage a policy can be in, and that an undecided
zone has room for another sample. `VerdictsSound` follows.

**Enrichment** (`EnrichmentProofs`). Every name found is accounted for, that is known,
stored, refused by a limit or in the batch about to be persisted, or it waits in the queue
of the pipeline, which happens only between the stages of a round (`Whereabouts`). A row in
`processing` is in the batch of the claim, with an attempt left until it is charged
(`Claims`); a stage that visits hosts finds its limit unused (`Visits`); a scan completes
with no seed that could be tried (`Completed`).

**Recursion, zones, feeds** (`NamesProofs`). Recursion: a batch and its rows agree at each
point of its work (`BatchBooks`), a queued row has an attempt left (`AttemptsLeft`), a row
that is gone was answered or has its end (`GoneEnded`), and so has every name before a
cursor, or a row (`PassedKept`). Walk: while it goes on, what it owes is visited or still ahead
(`WalkUnderWay`), which an answer that sends it back does not disturb (`FollowInv`): only
names behind the place where the walk stands lie between the record's owner and that place.
So the attempt, the best of them and the cache row are sound, unless the walk ended at a
name met twice: then names ahead may be missing, and the theorem does not speak of it. Transfer
(`AxfrInv`): one success at most, which ends all others, is whole and is of one version of
the zone. Feeds: what the cursors passed is known or a cut line (`FeedsPassed`), and a page
that was read and is not committed yet has every name it passed, in order (`PageKept`); a
commit takes the page only at the cursor it was read from, so a rival refill cannot make a
hole.

Some assumptions on constants came in with the proofs, each weaker than what the code
fixes: requests are finitely many and the spacings of the cadence have a largest one (the
rates a governor sets are at least 1); the mark of a free slot is not a query; the names of
`Enrichment` and of the generated window and the targets of a transfer are finite sets; the
built-in corpus is a sequence; a connector that pages has a limit of at least two pages (the
limits in the code are 10 to 1000). One property was restated: `SeedCap` used to bound the
rows by `--max-passive` and the findings to revalidate, which TLC refutes on a larger
instance (see Observations); it now says which step may grow the table.

Only model-checked: liveness under fairness (`RunEnds`, `AbandonedReopens`, `Recovers`,
`RecursionEnds`), which the prover cannot do, and the type
invariants `TypesOK` and `TypeOK` of `MCScanRuns`, `MCSources` and `MCDiscovery`, which
join those of the parts, each proved on its own.

## Observations

What the models brought to light besides the six findings, without a run of their own:

- `RunEnds` also fails without a shared cache for a name that must be revalidated; the cause
  is the one of `queue_shared_cache` (`db/scan.rs:655`).
- Adaptive recursion: a resumed scan counts only this run's yield, may stop after depth 2
  each time and then stays partial (`scanner/enrichment.rs:1573`).
- A wordlist line that crosses the page cap of 4 MiB is discarded (`db/scan.rs:795-812`);
  `FeedWhole` excepts such lines (`split`).
- A failure streak is no measure of the provider alone: an error of SQLite on this machine,
  while the lease of a source is taken, its pages are prepared or its end is marked
  (`scanner/passive_phase.rs:502-510`, `783-784`, `813-814`), is recorded like one of the
  provider (`1151-1167`) and may be the third that brings the cooldown of a day, which
  `docs/sources.md:273` keeps for provider failures.
- A success lost to contention leaves the streak of its source, and a deferred outcome after
  three failures lifts the cooldown.
- A success on another domain deletes a source's pause, and a shorter pause overwrites a
  longer one. At the deadline the collected names of a child zone are dropped, with a
  warning (`scanner/passive_phase.rs:1605`). A name whose second source was not merged yet
  can be cut by the bulk cap as exclusive.
- ONYPHE (`passive/keyed_sources.rs:1370`) and Quake (`1520`) report success on an empty page
  although more is announced; GitHub and GitLab report the limit as reached when the listing
  ends exactly there; Common Crawl fails without a message when every index answers 404;
  SecurityTrails falls back and succeeds after a 403 in the middle of a scroll.
- A parse error in the last carried line of `collect_streamed_lines`
  (`passive/public_sources.rs:221`), and an error in the middle of a Netlas or crt.sh
  PostgreSQL stream, lose up to one batch.
- A Retry-After is honoured by the request that was told, not by others of the source
  (`passive/transport.rs:941`); permits are spaced, not sends.
- An NSEC walk starts at the record that covers its probe name, so names before it are not
  visited although the walk is stored as reusable (`dnssec.rs:299`, `473`).
- The recursive queue charges no attempt for an error without a packet. The DNS graph phase
  ignores the active budget (`scanner/enrichment.rs:43-154`).
- A demoted finding comes back as a seed even when the table is full, and it can be
  resolved without a charge, evicted by a name of a higher priority and demoted again, each
  time one row beyond `--max-passive`; no fixed number bounds the rows of a long scan.
- Promoting an active row to a seed resets its attempts (`db/scan.rs:400`, `449`), the cause
  of `queue_three_attempts`.

## Plan

1. An abstract specification of a resumable work queue (a name is pending, claimed or
   settled; a crash returns claims), implemented by `CandidateQueue`.
2. The order of two outcomes of a name within one second (`db/scan.rs:659`) and the
   freshness read before the lease (`scanner/passive_phase.rs:350`), the two hazards without
   a property.
## Not modelled

Cryptography and wire formats, X.509 and Merkle decoding, candidate generation and scoring
(a corpus and a score function), web, TLS, metadata and archive parsing (their names enter
through `Enrichment`), bandit arithmetic, inventory states, snapshots, migrations, console
output, argument parsing, benchmarks and packaging. About sixty connectors send one request
and parse one answer; they are input and output only. Wording, warnings and metrics are left
out everywhere, except the resolver metrics of `DnsCadence`.

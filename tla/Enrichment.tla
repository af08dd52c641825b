------------------------------ MODULE Enrichment ------------------------------
(***************************************************************************)
(* The enrichment phases of a scan (scanner/enrichment.rs), between active *)
(* validation and recursion.  Each phase finds names from what is already  *)
(* answered; the pipeline (pipeline.rs) lets every name through once and,  *)
(* under a limit, no more than so many; what comes out is persisted as     *)
(* seeds, claimed by name and resolved under the active budget             *)
(* (scanner/validation.rs).  A stopped scan is resumed with its seeds.     *)
(*                                                                         *)
(* Which names a phase finds, and in which order a set of names is taken,  *)
(* is left open.  The record types, sources and warnings are left out.     *)
(***************************************************************************)
EXTENDS Integers, FiniteSets

CONSTANTS
    Subdomains,        \* names below the domain
    Domain,         \* the domain itself
    OptionSets,   \* phases that can be switched on together
    EventLimits,  \* values of pipeline_budget, 0 for none
    Caps,         \* values of max_passive
    HostLimit,    \* graph_max_hosts, web_max_hosts, tls_max_hosts
    Rounds,       \* pipeline_rounds
    Page,         \* ENRICHMENT_VALIDATION_BATCH_SIZE
    Tries,        \* attempts of a seed, 3 in the code
    MaxAborts     \* bound: crashes, errors and interrupts

ASSUME EnrichAssumption ==
    /\ IsFiniteSet(Subdomains) /\ Domain \notin Subdomains /\ EventLimits \cup Caps \subseteq Nat
    /\ {HostLimit, Rounds, Page, Tries} \subseteq Nat \ {0} /\ MaxAborts \in Nat

VARIABLES
    options, eventLimit, cap,
    activeLeft,     \* active_budget_remaining: "none" without a limit, "some", "zero"
    webSpent,   \* web_budget_exhausted
    phase,      \* the phase in turn
    round,
    pipeQueue,    \* the queue of the pipeline
    seen, processed, enqueued,
    batch,      \* hosts to validate, or what is left of the claims
    batchStep,       \* of the batch: "find", "persist", "claim", "resolve", "settle", "requeue", "done"
    outcome,    \* of the claimed hosts
    known,      \* answers
    visited,    \* graph_processed, web_processed, tls_processed
    zones,      \* "none", "walked" or "late": the delegated zones of the graph
    seedRow,        \* status of each seed, durable
    tries,      \* attempts of each seed, durable
    found,      \* history: names the phases of this run found
    refused,    \* history: refused by the event limit, or by the cap of the seeds
    aborts

enrVars == <<options, eventLimit, cap, activeLeft, webSpent, phase, round, pipeQueue, seen, processed,
             enqueued, batch, batchStep, outcome, known, visited, zones, seedRow, tries, found, refused,
             aborts>>

config == <<options, eventLimit, cap>>
pipe == <<pipeQueue, seen, processed, enqueued>>
seedVars == <<seedRow, tries>>

NotVisited == [s \in {"graph", "web", "tls"} |-> {}]
NoOutcome == [h \in {} |-> "none"]
After == [graph |-> "ptr", ptr |-> "internetdb", internetdb |-> "passive", passive |-> "nsec",
          nsec |-> "metadata", metadata |-> "web", web |-> "tls", tls |-> "round-graph",
          late |-> "final"]

\* A run starts where active validation left it: answers, and seeds that may be pending.
Entry ==
    /\ known' \in SUBSET Subdomains
    /\ seen' = known' /\ processed' = known'
    /\ phase' = "graph" /\ batchStep' = "find" /\ round' = 1 /\ pipeQueue' = {} /\ enqueued' = 0
    /\ batch' = {} /\ outcome' = NoOutcome /\ visited' = NotVisited /\ zones' = "none"
    /\ found' = {} /\ refused' = {} /\ webSpent' = FALSE

EnrInit ==
    /\ options \in OptionSets /\ eventLimit \in EventLimits /\ cap \in Caps
    /\ activeLeft \in {"none", "some"} /\ webSpent = FALSE
    /\ known \in SUBSET Subdomains /\ seen = known /\ processed = known
    /\ phase = "graph" /\ batchStep = "find" /\ round = 1 /\ pipeQueue = {} /\ enqueued = 0
    /\ batch = {} /\ outcome = NoOutcome /\ visited = NotVisited /\ zones = "none"
    /\ seedRow = [h \in Subdomains |-> "none"] /\ tries = [h \in Subdomains |-> 0]
    /\ found = {} /\ refused = {} /\ aborts = 0

-----------------------------------------------------------------------------
(* DiscoveryPipeline                                                       *)

\* As many of all as there are, but no more than limit.
UpTo(all, limit) ==
    {d \in SUBSET all : Cardinality(d) = IF Cardinality(all) < limit THEN Cardinality(all) ELSE limit}

\* enqueue, for each of names: one that was seen is refused, one past the limit is not marked.
Enqueue(names, kept) ==
    LET fresh == names \ seen
        room == IF eventLimit = 0 THEN Cardinality(fresh) ELSE eventLimit - enqueued
    IN /\ kept \in UpTo(fresh, room)
       /\ seen' = seen \cup kept
       /\ enqueued' = enqueued + Cardinality(kept)
       /\ found' = found \cup names
       /\ refused' = refused \cup (fresh \ kept)

\* drain: what waits now, up to the limit, each name once.
Drains(all, limit) == IF limit = 0 THEN {all} ELSE UpTo(all, limit)

\* Without the pipeline option the phases after InternetDB drain everything.
DrainLimit == IF "pipeline" \in options THEN eventLimit ELSE 0

\* The names found are queued, and what the drain returns is the next batch.
Hand(names, limit, next) ==
    \E kept \in SUBSET names :
        /\ Enqueue(names, kept)
        /\ \E d \in Drains(pipeQueue \cup kept, limit) :
            /\ pipeQueue' = (pipeQueue \cup kept) \ d /\ processed' = processed \cup d
            /\ batch' = d \ processed
            /\ IF d \ processed = {} THEN phase' = next /\ batchStep' = "find"
               ELSE batchStep' = "persist" /\ UNCHANGED phase

\* Without the pipeline option the names go straight to validation, and stay queued too.
HandDirect(names, next) ==
    \E kept \in SUBSET names :
        /\ Enqueue(names, kept)
        /\ pipeQueue' = pipeQueue \cup kept /\ batch' = names \ known
        /\ IF names \ known = {} THEN phase' = next /\ batchStep' = "find"
           ELSE batchStep' = "persist" /\ UNCHANGED phase
        /\ UNCHANGED processed

HandEarly(names, next) ==
    IF "pipeline" \in options THEN Hand(names, eventLimit, next) ELSE HandDirect(names, next)

-----------------------------------------------------------------------------
(* The phases                                                              *)

InPhase(p) == phase = p /\ batchStep = "find"
On(p) == InPhase(p) /\ p \in options
Active == activeLeft # "zero"
Spendable == IF activeLeft = "some" THEN {"some", "zero"} ELSE {activeLeft}
StageKeeps == UNCHANGED <<config, round, outcome, known, seedRow, tries, aborts>>

\* A stage visits hosts that have an answer, up to what is left of its limit.
Remaining(s) == HostLimit - Cardinality(visited[s])
Visit(s, v) == visited' = [visited EXCEPT ![s] = @ \cup v]

SkipPhase ==
    /\ batchStep = "find" /\ phase \in DOMAIN After \ {"late"} /\ phase \notin options
    /\ phase' = After[phase]
    /\ StageKeeps /\ UNCHANGED <<activeLeft, webSpent, pipe, batch, batchStep, visited, zones, found, refused>>

\* The DNS graph of the answers, bounded by hosts and not by the active budget.
Graph ==
    /\ On("graph")
    /\ \E v \in UpTo(known, HostLimit), names \in SUBSET Subdomains :
        /\ Visit("graph", v)
        /\ zones' \in {"none", "walked"}
        /\ HandEarly(names, "ptr")
    /\ StageKeeps /\ UNCHANGED <<activeLeft, webSpent>>

\* Reverse names of the addresses, only while the active budget lasts.
Ptr ==
    /\ On("ptr")
    /\ IF Active /\ known # {}
       THEN /\ activeLeft' \in Spendable
            /\ \E names \in SUBSET Subdomains : HandEarly(names, "internetdb")
       ELSE phase' = "internetdb" /\ UNCHANGED <<activeLeft, pipe, batch, batchStep, found, refused>>
    /\ StageKeeps /\ UNCHANGED <<webSpent, visited, zones>>

\* Hostnames of the addresses, from the cache or the provider, within limits of its own.
InternetDb ==
    /\ On("internetdb")
    /\ IF known # {} THEN \E names \in SUBSET Subdomains : HandEarly(names, "passive")
       ELSE phase' = "passive" /\ UNCHANGED <<pipe, batch, batchStep, found, refused>>
    /\ StageKeeps /\ UNCHANGED <<activeLeft, webSpent, visited, zones>>

\* Passive sources of the delegated zones; their names do not pass the pipeline.
PassiveZones ==
    /\ On("passive")
    /\ \E names \in SUBSET (IF zones = "none" THEN {} ELSE Subdomains) :
        /\ found' = found \cup names /\ batch' = names \ known
        /\ IF names \ known = {} THEN phase' = "nsec" /\ UNCHANGED batchStep
           ELSE batchStep' = "persist" /\ UNCHANGED phase
    /\ StageKeeps /\ UNCHANGED <<activeLeft, webSpent, pipe, visited, zones, refused>>

\* The chain of the domain and of its zones.
Nsec ==
    /\ On("nsec")
    /\ \E names \in SUBSET Subdomains : Hand(names, DrainLimit, "metadata")
    /\ StageKeeps /\ UNCHANGED <<activeLeft, webSpent, visited, zones>>

\* Standard documents; a failure is only a warning.  The budget is the one of the web phase.
Metadata ==
    /\ On("metadata")
    /\ webSpent' \in {webSpent, TRUE}
    /\ \/ \E names \in SUBSET Subdomains : Hand(names, DrainLimit, "web")
       \/ phase' = "web" /\ UNCHANGED <<pipe, batch, batchStep, found, refused>>
    /\ StageKeeps /\ UNCHANGED <<activeLeft, visited, zones>>

Web ==
    /\ On("web")
    /\ webSpent' \in BOOLEAN
    /\ \E v \in UpTo(known \cup {Domain}, HostLimit), names \in SUBSET Subdomains :
        Visit("web", v) /\ Hand(names, DrainLimit, "tls")
    /\ StageKeeps /\ UNCHANGED <<activeLeft, zones>>

\* Names of certificates, no more of them than max_passive.
Tls ==
    /\ On("tls")
    /\ \E v \in UpTo(known \cup {Domain}, HostLimit), names \in SUBSET Subdomains :
        /\ Cardinality(names) <= cap
        /\ Visit("tls", v) /\ Hand(names, DrainLimit, "round-graph")
    /\ StageKeeps /\ UNCHANGED <<activeLeft, webSpent, zones>>

-----------------------------------------------------------------------------
(* Rounds of the pipeline                                                  *)

NewHosts(s) == known \ visited[s]
WebRoom == IF "web" \in options /\ ~webSpent THEN Remaining("web") ELSE 0

EndRounds == phase' = "late" /\ UNCHANGED <<pipe, batch, batchStep, found, refused>>

\* No round: the option is off, the rounds are over, or nothing is left to visit.
RoundsOver ==
    /\ InPhase("round-graph")
    /\ \/ "pipeline" \notin options
       \/ round > Rounds
       \/ /\ UpTo(NewHosts("graph"), Remaining("graph")) = {{}}
          /\ UpTo(NewHosts("web"), WebRoom) = {{}} /\ Remaining("tls") = 0
    /\ EndRounds
    /\ StageKeeps /\ UNCHANGED <<activeLeft, webSpent, visited, zones>>

\* The hosts of the graph; their names wait for the end of the round.
Collect(names) ==
    \E kept \in SUBSET names : Enqueue(names, kept) /\ pipeQueue' = pipeQueue \cup kept

RoundGraph ==
    /\ InPhase("round-graph") /\ "pipeline" \in options /\ round <= Rounds
    /\ phase' = "round-web"
    /\ \E v \in UpTo(NewHosts("graph"), Remaining("graph")) :
        IF "graph" \in options /\ v # {}
        THEN /\ Visit("graph", v)
             /\ \E names \in SUBSET Subdomains : Collect(names)
             /\ zones' \in {zones, "late"}
        ELSE UNCHANGED <<visited, zones, pipeQueue, seen, enqueued, found, refused>>
    /\ StageKeeps /\ UNCHANGED <<activeLeft, webSpent, processed, batch, batchStep>>

\* Hosts of the web: chosen from the answers of the round's start, which are unchanged here.
RoundWeb ==
    /\ InPhase("round-web") /\ phase' = "round-tls"
    /\ \E v \in UpTo(NewHosts("web"), WebRoom) :
        IF v # {}
        THEN /\ Visit("web", v) /\ webSpent' \in {webSpent, TRUE}
             /\ \E names \in SUBSET Subdomains : Collect(names)
        ELSE UNCHANGED <<visited, webSpent, pipeQueue, seen, enqueued, found, refused>>
    /\ StageKeeps /\ UNCHANGED <<activeLeft, zones, processed, batch, batchStep>>

\* Endpoints of the first HostLimit answers that were not visited; then the round's drain.
RoundTls ==
    /\ InPhase("round-tls")
    /\ \E e \in UpTo(known \cup {Domain}, HostLimit), names \in SUBSET Subdomains :
       \E v \in UpTo(e \ visited["tls"], Remaining("tls")) :
        /\ "tls" \notin options \/ v = {} => names = {}
        /\ IF "tls" \in options THEN Visit("tls", v) ELSE UNCHANGED visited
        /\ Hand(names, eventLimit, "late")
    /\ StageKeeps /\ UNCHANGED <<activeLeft, webSpent, zones>>

\* Zones the rounds found and the first walk did not have.
LateNsec ==
    /\ InPhase("late")
    /\ IF "nsec" \in options /\ zones = "late"
       THEN \E names \in SUBSET Subdomains : Hand(names, eventLimit, "final")
       ELSE phase' = "final" /\ UNCHANGED <<pipe, batch, batchStep, found, refused>>
    /\ StageKeeps /\ UNCHANGED <<activeLeft, webSpent, visited, zones>>

-----------------------------------------------------------------------------
(* validate_enrichment_batch_bounded                                       *)

BatchKeeps == UNCHANGED <<config, webSpent, pipe, visited, zones, found, aborts>>

\* The phase after the batch; a round starts again.
Continue ==
    /\ batchStep' = "find" /\ batch' = {} /\ outcome' = NoOutcome
    /\ IF phase = "round-tls" THEN phase' = "round-graph" /\ round' = round + 1
       ELSE phase' = After[phase] /\ UNCHANGED round

Stored == {h \in Subdomains : seedRow[h] # "none"}
Evictable == {h \in Subdomains : seedRow[h] = "queued" /\ tries[h] = 0}

\* persist_scan_seed_candidates: past the cap a name is refused, or takes the place of a
\* queued one of lower priority.
Persist ==
    /\ batchStep = "persist"
    /\ batchStep' = "claim"
    /\ \E in \in SUBSET (batch \ Stored), out \in SUBSET Evictable :
        /\ LET over == Cardinality(Stored \cup batch) - cap
               room == IF Cardinality(Stored) > cap THEN 0 ELSE cap - Cardinality(Stored)
           IN /\ IF over <= 0 THEN in = batch \ Stored /\ out = {}
                 ELSE /\ Cardinality(out) <= Cardinality(in)
                      /\ Cardinality(in) - Cardinality(out) =
                           IF Cardinality(batch \ Stored) < room THEN Cardinality(batch \ Stored) ELSE room
                      /\ cap = 0 => in = {}
        /\ seedRow' = [h \in Subdomains |-> IF h \in in THEN "queued" ELSE IF h \in out THEN "none" ELSE seedRow[h]]
        /\ refused' = (refused \cup (batch \ (Stored \cup in)) \cup out) \ in
    /\ BatchKeeps /\ UNCHANGED <<activeLeft, phase, round, batch, outcome, known, tries>>

Claimable == {h \in batch : seedRow[h] = "queued" /\ tries[h] < Tries}

\* claim_scan_seed_candidates_by_name, until the page is full; the rest stays queued.
Claim ==
    /\ batchStep = "claim"
    /\ IF Claimable = {} THEN Continue /\ UNCHANGED seedRow
       ELSE \E c \in UpTo(Claimable, Page) :
            /\ seedRow' = [h \in Subdomains |-> IF h \in c THEN "processing" ELSE seedRow[h]]
            /\ batch' = c /\ batchStep' = "resolve" /\ UNCHANGED <<phase, round, outcome>>
    /\ BatchKeeps /\ UNCHANGED <<activeLeft, known, tries, refused>>

\* Hosts below a deferred parent are not resolved; the others are known from the cache or asked on
\* the network, until the deadline: "cut" was sent by then, "waits" was not.  The trusted
\* resolvers and the wildcard profiles decide what becomes of a positive answer.
FromCache == {"cached", "absent"}
FromNetwork == {"live", "denied", "unclear", "unsent"}
AtDeadline == {"cut", "waits"}
Sent == {"live", "denied", "unclear", "cut"}

Resolve ==
    /\ batchStep = "resolve" /\ batchStep' = "settle"
    /\ activeLeft' \in Spendable
    /\ outcome' \in [batch -> {"deferred"} \cup FromCache
            \cup (IF Active THEN FromNetwork ELSE {})
            \cup (IF activeLeft = "none" THEN {} ELSE IF Active THEN AtDeadline ELSE {"waits"})]
    /\ (\E h \in batch : outcome'[h] \in AtDeadline) => activeLeft' = "zero"
    /\ BatchKeeps /\ UNCHANGED <<phase, round, batch, known, seedRow, tries, refused>>

\* mark_scan_seed_candidates_started, requeue of what did not start, answers are stored.
Charge ==
    /\ batchStep = "settle" /\ batchStep' = "requeue"
    /\ tries' = [h \in Subdomains |-> IF h \in batch /\ outcome[h] \in Sent THEN tries[h] + 1 ELSE tries[h]]
    /\ seedRow' = [h \in Subdomains |-> IF h \in batch /\ outcome[h] = "waits" THEN "queued" ELSE seedRow[h]]
    /\ BatchKeeps /\ UNCHANGED <<activeLeft, phase, round, batch, outcome, known, refused>>

\* What goes back to the queue.
Left == {h \in batch : outcome[h] \in {"deferred", "unclear", "unsent", "cut", "waits"}}

Requeue ==
    /\ batchStep = "requeue" /\ batchStep' = "done"
    /\ seedRow' = [h \in Subdomains |-> IF h \in Left THEN "queued" ELSE seedRow[h]]
    /\ BatchKeeps /\ UNCHANGED <<activeLeft, phase, round, batch, outcome, known, tries, refused>>

Done ==
    /\ batchStep = "done"
    /\ seedRow' = [h \in Subdomains |-> IF h \in batch \ Left THEN "done" ELSE seedRow[h]]
    /\ known' = known \cup {h \in batch : outcome[h] \in {"cached", "live"}}
    /\ Continue
    /\ BatchKeeps /\ UNCHANGED <<activeLeft, tries, refused>>

-----------------------------------------------------------------------------
(* The end of a run, and its resumption                                    *)

\* Mutant: only candidates decide whether a scan is complete.
NothingPending == {}

SeedsPending == {h \in Subdomains : seedRow[h] = "queued" /\ tries[h] < Tries}

\* Pending seeds keep a scan partial; so may recursion, and candidates once the budget is zero.
Finalize ==
    /\ InPhase("final")
    /\ phase' \in {"partial"} \cup (IF SeedsPending = {} THEN {"completed"} ELSE {})
    /\ UNCHANGED <<config, activeLeft, webSpent, round, pipe, batch, batchStep, outcome, known, visited,
                   zones, seedVars, found, refused, aborts>>

\* A crash, an interrupt, or an error of the database that ends the run.
Abort ==
    /\ aborts < MaxAborts /\ aborts' = aborts + 1
    /\ phase \notin {"partial", "completed", "aborted"}
    /\ phase' = "aborted" /\ batchStep' = "find" /\ batch' = {} /\ outcome' = NoOutcome
    /\ UNCHANGED <<config, activeLeft, webSpent, round, pipe, known, visited, zones, seedVars, found,
                   refused>>

\* A resumed scan starts over with the seeds, none of them claimed, and a budget of its own.
Restart ==
    /\ phase \in {"partial", "aborted"}
    /\ Entry /\ activeLeft' \in {"none", "some"}
    /\ seedRow' = [h \in Subdomains |-> IF seedRow[h] = "processing" THEN "queued" ELSE seedRow[h]]
    /\ UNCHANGED <<config, tries, aborts>>

EnrNext ==
    \/ SkipPhase \/ Graph \/ Ptr \/ InternetDb \/ PassiveZones \/ Nsec \/ Metadata \/ Web \/ Tls
    \/ RoundsOver \/ RoundGraph \/ RoundWeb \/ RoundTls \/ LateNsec
    \/ Persist \/ Claim \/ Resolve \/ Charge \/ Requeue \/ Done
    \/ Finalize \/ Abort \/ Restart

EnrSpec == EnrInit /\ [][EnrNext]_enrVars

-----------------------------------------------------------------------------
Steps == {"find", "persist", "claim", "resolve", "settle", "requeue", "done"}

EnrTypeOK ==
    /\ activeLeft \in {"none", "some", "zero"} /\ batchStep \in Steps /\ zones \in {"none", "walked", "late"}
    /\ pipeQueue \cup seen \cup processed \cup batch \cup known \cup found \cup refused \subseteq Subdomains
    /\ \A s \in DOMAIN visited : visited[s] \subseteq Subdomains \cup {Domain}
    /\ seedRow \in [Subdomains -> {"none", "queued", "processing", "done"}]
    /\ \A h \in Subdomains : tries[h] \in 0..Tries
    /\ enqueued \in Nat /\ (eventLimit > 0 => enqueued <= eventLimit) /\ aborts \in 0..MaxAborts

\* A name that some phase found is never lost between the phase, the pipeline, the seeds and the
\* batch: when the run ends it is answered, a seed, or was refused by a limit that says so; and
\* a scan that ends as completed has no seed left that could still be tried.  Every wave of a
\* stage counts against the same limit of hosts.
EnrichKept ==
    /\ phase \in {"partial", "completed"} => \A h \in found : h \in known \cup refused \/ seedRow[h] # "none"
    /\ phase = "completed" =>
        \A h \in Subdomains : seedRow[h] # "processing" /\ (seedRow[h] = "queued" => tries[h] >= Tries)
    /\ \A s \in DOMAIN visited : Cardinality(visited[s]) <= HostLimit
=============================================================================

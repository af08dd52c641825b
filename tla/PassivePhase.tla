---------------------------- MODULE PassivePhase ----------------------------
(***************************************************************************)
(* One passive phase of a scan (scanner/passive_phase.rs): the connectors  *)
(* of a zone are sorted into those answered from memory and those to       *)
(* refresh, run a few at a time, and folded one result after the other     *)
(* into the bounded union of names the scan goes on with.  The root zone   *)
(* comes first, then child zones one at a time                             *)
(* (collect_passive_recursively with a zone concurrency of one); all of    *)
(* them share the health of the sources kept in SQLite (db/passive.rs):    *)
(* failure streaks, cooldowns and provider pauses.                         *)
(*                                                                         *)
(* The phase's own SQLite calls have short budgets of their own: a read or *)
(* a write that misses its budget is "deferred", the phase warns and goes  *)
(* on as if the answer were empty.  Every such call is a choice here.      *)
(* Leases, pages, checkpoints and the freshness mark are modelled by       *)
(* PassiveRefresh; here a page is one durable name.                        *)
(***************************************************************************)
EXTENDS Integers, FiniteSets

CONSTANTS
    Selected,       \* how many connectors the scan selected
    Bulk,           \* the connector whose exclusive names are capped (anubisdb)
    Barred,         \* connectors unavailable, or without the key they need
    Rekeyed,        \* connectors whose missing key has been configured since
    Found,          \* the names the providers may answer
    Earlier,        \* names an earlier scan may have made durable
    Root, Children, \* the root zone and the child zones worth a query
    ZoneLimit,      \* child zones scheduled by one recursive collection
    MaxPassive,     \* --max-passive
    Connectors,     \* --passive-concurrency
    BulkLimit,      \* automatic_bulk_source_limit
    Streaks,        \* the failure streaks earlier scans have left
    Modes           \* the pairs <<automatic selection, phase deadline>> tried

ASSUME PhaseAssumption ==
    /\ MaxPassive \in Nat \ {0} /\ Connectors \in 1..32 /\ ZoneLimit \in Nat
    /\ BulkLimit \in 0..MaxPassive /\ Streaks \subseteq Nat
    /\ Barred \subseteq 1..Selected /\ Rekeyed \subseteq 1..Selected
    /\ Root \notin Children /\ Earlier \subseteq Found /\ Modes \subseteq BOOLEAN \X BOOLEAN
    /\ IsFiniteSet(Found) /\ Selected \in Nat

VARIABLES
    automatic, deadlined,  \* the options of the scan
    area,           \* the zone being collected
    asked,          \* child zones already queried
    pstage,         \* "preflight", "refresh", "cut", "done", "over", "failed"
    streak,         \* consecutive_failures per source
    status,         \* last_status per source
    pauses,         \* sources with a source.retry_until in the future
    memory,         \* durable names of the zone, per source
    job,            \* what each connector of this zone is doing
    held,           \* names the connector keeps in memory
    origins,        \* sources of every name in the union of this zone
    gathered,       \* names the scan has from all zones
    unread,         \* the last refill missed its SQLite budget
    culled          \* names the bulk cap removed

phaseVars == <<automatic, deadlined, area, asked, pstage, streak, status,
               pauses, memory, job, held, origins, gathered, unread,
               culled>>

(* The connectors, numbered in the order the phase takes them.              *)
Providers == 1..Selected

Zones == {Root} \cup Children
Union == {n \in Found : origins[n] # {}}
NoOrigins == [n \in Found |-> {}]

(* A result is a name's set, a partial one, a refusal that asks for time   *)
(* (Retry-After, 429, quota, missing key), a failure or nothing at all.    *)
Results == {"ok", "partial", "deferral", "failure", "none"}
Jobs == {"memory", "queued", "running", "taken"} \cup Results

(* passive_connector_working_set_limit: the names one connector may hold.  *)
WorkingSet == (MaxPassive + Connectors - 1) \div Connectors

(* A read bounded to k names returns some k of them.                       *)
BoundedTo(names, k) ==
    {kept \in SUBSET names :
        Cardinality(kept) = IF Cardinality(names) < k THEN Cardinality(names)
                                                       ELSE k}

(* merge_passive_source_names_bounded: a known name gains the source, a    *)
(* new one is added while there is room.                                   *)
Merged(known, names, s) ==
    LET old == {n \in Found : known[n] # {}}
        room == MaxPassive - Cardinality(old)
    IN  {[n \in Found |->
             IF n \in (names \cap old) \cup added THEN known[n] \cup {s}
                                                  ELSE known[n]]
         : added \in BoundedTo(names \ old, IF room > 0 THEN room ELSE 0)}

(* The streak one recorded outcome leaves (record_source_outcome_counts).  *)
StreakAfter(s, outcome) ==
    CASE outcome \in {"success", "degraded"} -> 0
      [] outcome = "failure" -> streak[s] + 1
      [] OTHER -> streak[s]

Record(s, outcome) ==
    /\ streak' = [streak EXCEPT ![s] = StreakAfter(s, outcome)]
    /\ status' = [status EXCEPT ![s] = outcome]

(* source_cooldowns: three failures in a row, the last one still latest.   *)
Cooled == {s \in Providers : streak[s] >= 3 /\ status[s] = "failure"}

(* should_retry_source_after_key_added: its key is there now, and what it  *)
(* last answered was that the key is missing.                              *)
Woken == {s \in Rekeyed : status[s] \in {"failure", "deferred"}}

(* What an automatic selection leaves alone, unless its health could not   *)
(* be read or the connector has just been given its key.                   *)
Shunned(read) ==
    IF automatic /\ read THEN (Cooled \cup pauses) \ Woken ELSE {}

(* store_source_metadata of source.retry_until, which lies ahead for the   *)
(* rest of the scan.                                                       *)
Paused(s) == pauses \cup {s}

(* passive_connector_timing: a phase that is nearly over leaves no time.   *)
LeftOut == IF deadlined THEN {"none"} ELSE {}

PhInit ==
    /\ \E mode \in Modes : automatic = mode[1] /\ deadlined = mode[2]
    /\ area = Root /\ asked = {} /\ pstage = "preflight"
    /\ streak \in [Providers -> Streaks]
    /\ status = [s \in Providers |-> IF streak[s] = 0 THEN "success" ELSE "failure"]
    /\ pauses = {}
    /\ memory \in [Providers -> {{}, Earlier}]
    /\ job = [s \in Providers |-> "memory"]
    /\ held = [s \in Providers |-> {}]
    /\ origins = NoOrigins /\ gathered = {}
    /\ unread = FALSE /\ culled = {}

(* The start of collect_passive: a source that is barred, shunned or fresh *)
(* answers from memory; the others are to be refreshed, a fresh one whose  *)
(* memory could not be read among them.                                    *)
Preflight ==
    /\ pstage = "preflight"
    /\ \E healthRead \in BOOLEAN, read \in SUBSET Providers :
       \E fresh \in SUBSET read :
         LET resting == Barred \cup Shunned(healthRead) \cup fresh
         IN  job' = [s \in Providers |->
                        IF s \notin resting THEN "queued"
                        ELSE IF s \in read THEN "memory" ELSE "taken"]
    /\ pstage' = "refresh"
    /\ UNCHANGED <<automatic, deadlined, area, asked, streak, status, pauses,
                   memory, held, origins, gathered, unread, culled>>

(* The memory of a source at rest is folded in as the preflight meets it.  *)
Recall(s) ==
    /\ pstage = "refresh" /\ job[s] = "memory"
    /\ \A t \in 1..(s - 1) : job[t] # "memory"
    /\ \E names \in BoundedTo(memory[s], WorkingSet) :
         origins' \in Merged(origins, names, s)
    /\ job' = [job EXCEPT ![s] = "taken"]
    /\ UNCHANGED <<automatic, deadlined, area, asked, pstage, streak, status,
                   pauses, memory, held, gathered, unread, culled>>

(* A connector starts under a permit and takes the lease of its source: it *)
(* may find the phase too short, the lease with another process, or the    *)
(* SQLite of this machine unable to grant it; no provider was asked then.  *)
Launch(s) ==
    /\ pstage = "refresh" /\ job[s] = "queued"
    /\ \A t \in Providers : job[t] # "memory" /\ (t < s => job[t] # "queued")
    /\ Cardinality({t \in Providers : job[t] = "running"}) < Connectors
    /\ \E next \in {"running", "partial", "failure"} \cup LeftOut :
         job' = [job EXCEPT ![s] = next]
    /\ UNCHANGED <<automatic, deadlined, area, asked, pstage, streak, status,
                   pauses, memory, held, origins, gathered, unread, culled>>

(* What a connector keeps in memory of a new name, within its working set, *)
(* and the same with the comparison off by one.                            *)
RememberedOver(s, n) ==
    IF Cardinality(held[s]) <= WorkingSet THEN held[s] \cup {n} ELSE held[s]

Remembered(s, n) ==
    IF Cardinality(held[s]) < WorkingSet THEN held[s] \cup {n} ELSE held[s]

(* The sink of a connector: the page is durable before the connector goes  *)
(* on; in memory it keeps what the working set allows.                     *)
Sink(s) ==
    /\ pstage = "refresh" /\ job[s] = "running"
    /\ \E n \in Found \ memory[s] :
         /\ memory' = [memory EXCEPT ![s] = @ \cup {n}]
         /\ held' = [held EXCEPT ![s] = Remembered(s, n)]
    /\ UNCHANGED <<automatic, deadlined, area, asked, pstage, streak, status,
                   pauses, job, origins, gathered, unread, culled>>

(* The fetch returns; a complete one whose freshness mark misses its       *)
(* deadline becomes partial.  A failure is the provider's, or that of the  *)
(* SQLite calls of this machine that prepare the pages of the source and   *)
(* mark its refresh as whole or partial: both arrive as the same error.    *)
Arrive(s) ==
    /\ pstage = "refresh" /\ job[s] = "running"
    /\ \E result \in {"ok", "partial", "deferral", "failure"} :
         job' = [job EXCEPT ![s] = result]
    /\ UNCHANGED <<automatic, deadlined, area, asked, pstage, streak, status,
                   pauses, memory, held, origins, gathered, unread, culled>>

(* What an answer is recorded as, and what an error is.                    *)
AnswerOutcome(s) ==
    CASE job[s] = "ok" -> "success"
      [] held[s] = {} -> "deferred"
      [] OTHER -> "degraded"

ErrorOutcome(s) == IF job[s] = "deferral" THEN "deferred" ELSE "failure"

(* One turn of the collection loop takes the result of a connector.  The   *)
(* stale memory is read first; when that read is deferred nothing is       *)
(* recorded, and every write may be deferred too.                          *)
TakeResult(s, read, own) ==
    /\ pstage = "refresh"
    /\ \E stale \in BoundedTo(IF read THEN memory[s] ELSE {}, WorkingSet) :
         \E first \in Merged(origins, own, s) :
             origins' \in Merged(first, stale, s)
    /\ job' = [job EXCEPT ![s] = "taken"]
    /\ held' = [held EXCEPT ![s] = {}]
    /\ UNCHANGED <<automatic, deadlined, area, asked, pstage, memory,
                   gathered, unread, culled>>

CollectNothing(s) ==
    /\ job[s] = "none"
    /\ \E read \in BOOLEAN : TakeResult(s, read, {})
    /\ UNCHANGED <<streak, status, pauses>>

(* A success lifts the pause of its source; the warning of a partial       *)
(* answer may ask for one, once the outcome is recorded.                   *)
CollectAnswer(s) ==
    /\ job[s] \in {"ok", "partial"}
    /\ \E read, recorded, paused \in BOOLEAN :
         /\ TakeResult(s, read, held[s])
         /\ recorded => read
         /\ paused => recorded /\ job[s] = "partial"
         /\ IF recorded THEN Record(s, AnswerOutcome(s))
                        ELSE UNCHANGED <<streak, status>>
         /\ pauses' = IF recorded /\ job[s] = "ok" THEN pauses \ {s}
                      ELSE IF paused THEN Paused(s) ELSE pauses

(* An error that asks for time stores the pause before the outcome; only   *)
(* the stale memory of the source joins the union.                         *)
CollectError(s) ==
    /\ job[s] \in {"deferral", "failure"}
    /\ \E read, recorded, paused \in BOOLEAN :
         /\ TakeResult(s, read, {})
         /\ recorded => read
         /\ paused => read /\ job[s] = "deferral"
         /\ IF recorded THEN Record(s, ErrorOutcome(s))
                        ELSE UNCHANGED <<streak, status>>
         /\ pauses' = IF paused THEN Paused(s) ELSE pauses

(* The phase deadline, polled before any result: what has not been         *)
(* collected is cancelled, results that wait included.                     *)
ExpirePhase ==
    /\ deadlined /\ pstage = "refresh"
    /\ \A s \in Providers : job[s] # "memory"
    /\ \E s \in Providers : job[s] # "taken"
    /\ pstage' = "cut"
    /\ held' = [s \in Providers |-> {}]
    /\ UNCHANGED <<automatic, deadlined, area, asked, streak, status, pauses,
                   memory, job, origins, gathered, unread, culled>>

(* The cancelled sources, one by one: the memory they leave is folded in,  *)
(* and a source that had started is recorded as deferred.                  *)
Cancel(s) ==
    /\ pstage = "cut" /\ job[s] # "taken"
    /\ \A t \in 1..(s - 1) : job[t] = "taken"
    /\ \E read, written \in BOOLEAN :
         /\ \E stale \in BoundedTo(IF read THEN memory[s] ELSE {}, WorkingSet) :
                origins' \in Merged(origins, stale, s)
         /\ IF read /\ written /\ job[s] \notin {"queued", "none"}
            THEN Record(s, "deferred") ELSE UNCHANGED <<streak, status>>
    /\ job' = [job EXCEPT ![s] = "taken"]
    /\ UNCHANGED <<automatic, deadlined, area, asked, pstage, pauses, memory,
                   held, gathered, unread, culled>>

(* refill_passive_union_from_cache_until: every source's memory, up to the *)
(* limit of the union; any source whose read is deferred ends the refill.  *)
(* NoRefill trusts what the loop has folded in.                            *)
NoRefill(ends) == {origins}

Refills(ends) ==
    {o \in [Found -> SUBSET Providers] :
        LET all == {n \in Found : \E s \in Providers : n \in memory[s]}
            now == {n \in Found : o[n] # {}}
        IN  /\ \A n \in Found : origins[n] \subseteq o[n]
            /\ \A n \in Found : o[n] \subseteq
                  origins[n] \cup {s \in Providers : n \in memory[s]}
            /\ Cardinality(now) <= MaxPassive
            /\ ~ends => (all \subseteq now \/ Cardinality(now) = MaxPassive)
            /\ Cardinality(Union) = MaxPassive => o = origins}

(* cap_exclusive_bulk_source_names: what only the bulk source has named    *)
(* beyond its limit leaves the union.                                      *)
Excess(o) ==
    LET exclusive == {n \in Found : o[n] = {Bulk}}
    IN  IF automatic
        THEN {exclusive \ kept : kept \in BoundedTo(exclusive, BulkLimit)} ELSE {{}}

(* The end of the phase: refill, bulk cap, and the zone's names join those *)
(* of the scan, which has room for MaxPassive of them.  A child zone that  *)
(* does not fit ends the recursion.                                        *)
Close ==
    /\ pstage \in {"refresh", "cut"}
    /\ \A s \in Providers : job[s] = "taken"
    /\ \E ends \in BOOLEAN : \E o \in Refills(ends) : \E gone \in Excess(o) :
         /\ unread' = ends /\ culled' = gone
         /\ origins' = [n \in Found |-> IF n \in gone THEN {} ELSE o[n]]
    /\ pstage' = "done"
    /\ UNCHANGED <<automatic, deadlined, area, asked, streak, status, pauses,
                   memory, job, held, gathered>>

Join ==
    /\ pstage = "done"
    /\ \E added \in BoundedTo(Union \ gathered, MaxPassive - Cardinality(gathered)) :
         /\ gathered' = gathered \cup added
         /\ \/ /\ Union \subseteq gathered'
               /\ \E z \in Children \ asked :
                    /\ Cardinality(asked) < ZoneLimit
                    /\ area' = z /\ asked' = asked \cup {z}
                    /\ pstage' = "preflight"
                    /\ memory' = [s \in Providers |-> {}]
                    /\ job' = [s \in Providers |-> "memory"]
                    /\ origins' = NoOrigins /\ unread' = FALSE /\ culled' = {}
            \/ pstage' = "over"
               /\ UNCHANGED <<area, asked, origins, unread, culled, memory, job>>
    /\ UNCHANGED <<automatic, deadlined, streak, status, pauses, held>>

(* The recursion waits for a child zone under the same deadline: its own   *)
(* timeout may drop the zone, and the union with it, before it has closed. *)
Forsake ==
    /\ pstage = "cut" /\ area # Root
    /\ pstage' = "over"
    /\ origins' = NoOrigins /\ job' = [s \in Providers |-> "taken"]
    /\ UNCHANGED <<automatic, deadlined, area, asked, streak, status, pauses,
                   memory, held, gathered, unread, culled>>

(* An SQLite error that is not contention ends the phase with an error,    *)
(* and what it had gathered in memory goes with it.                        *)
Break ==
    /\ pstage \in {"preflight", "refresh", "cut"}
    /\ pstage' = "failed"
    /\ held' = [s \in Providers |-> {}] /\ origins' = NoOrigins
    /\ job' = [s \in Providers |-> "taken"]
    /\ UNCHANGED <<automatic, deadlined, area, asked, streak, status, pauses,
                   memory, gathered, unread, culled>>

PhNext ==
    \/ Preflight \/ ExpirePhase \/ Close \/ Join \/ Forsake \/ Break
    \/ \E s \in Providers :
         Recall(s) \/ Launch(s) \/ Sink(s) \/ Arrive(s) \/ Cancel(s)
         \/ CollectNothing(s) \/ CollectAnswer(s) \/ CollectError(s)

PhSpec == PhInit /\ [][PhNext]_phaseVars
-----------------------------------------------------------------------------
(* Every variable has its type; no connector holds more than its working   *)
(* set and no more connectors run than there are permits.                  *)
PhTypeOK ==
    /\ automatic \in BOOLEAN /\ deadlined \in BOOLEAN
    /\ area \in Zones /\ asked \subseteq Children
    /\ pstage \in {"preflight", "refresh", "cut", "done", "over", "failed"}
    /\ streak \in [Providers -> Nat]
    /\ status \in [Providers -> {"success", "degraded", "deferred", "failure"}]
    /\ pauses \subseteq Providers
    /\ memory \in [Providers -> SUBSET Found]
    /\ job \in [Providers -> Jobs]
    /\ \A s \in Providers : Cardinality(held[s]) <= WorkingSet
    /\ Cardinality({s \in Providers : job[s] = "running"}) <= Connectors
    /\ origins \in [Found -> SUBSET Providers]
    /\ gathered \subseteq Found /\ Cardinality(gathered) <= MaxPassive
    /\ unread \in BOOLEAN /\ culled \subseteq Found

(* A name made durable for a zone is in the union the phase returns,       *)
(* whatever became of the connector that found it - complete, partial,     *)
(* failed, cancelled with its result waiting, or cut by its working set -  *)
(* unless the union is full, the bulk cap took it, or the refill itself    *)
(* missed its budget, each of which the phase reports.                     *)
PhaseKept ==
    pstage = "done" =>
        \A s \in Providers : \A n \in memory[s] :
            \/ n \in Union \/ n \in culled \/ unread
            \/ Cardinality(Union \cup culled) = MaxPassive
=============================================================================

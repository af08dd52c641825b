------------------------------- MODULE ZoneWalk -------------------------------
(***************************************************************************)
(* The walk of a zone along its NSEC chain (dnssec.rs) and the cache of    *)
(* walks it reuses (db/enrichment.rs).  The names of the zone are          *)
(* 1..MaxZone in canonical order, 0 is the apex; the record of a name      *)
(* points to the next one, the last one to the apex.  The zone may change  *)
(* while it is walked.                                                     *)
(*                                                                         *)
(* Of the NSEC records of an answer the walk follows the first, whatever   *)
(* it says.  A denial also has a record that denies a wildcard, which      *)
(* covers an earlier place in the zone; and a server that holds a child    *)
(* zone too answers for its name with the child's apex record, whose chain *)
(* leads back to that name (a child zone is its apex here).  Either way    *)
(* the walk may be sent to a name it has asked about already.              *)
(*                                                                         *)
(* Rate slots, the time of one operation and the phase deadline only       *)
(* decide when a walk stops, which it may do before every query.  One      *)
(* scan walks a zone at a time: its lease on the domain excludes others.   *)
(***************************************************************************)
EXTENDS Integers, FiniteSets

CONSTANTS
    MaxZone,     \* bound: names a zone can hold
    Delegated,   \* names that are zones of their own, held by the same servers
    Addresses,   \* bound: addresses of its name servers
    NameLimits,  \* values of nsec_max_names
    MaxWalks,    \* bound: walks of the zone
    MaxEdits   \* bound: changes of the zone

ASSUME ZoneAssumption ==
    /\ {MaxZone, Addresses, MaxWalks, MaxEdits} \subseteq Nat /\ NameLimits \subseteq Nat
    /\ Delegated \subseteq 1..MaxZone

VARIABLES
    zone,     \* names the zone holds
    probe,    \* the probe name sorts after 1..probe
    signing,  \* what the server at each address answers with
    limit,    \* nsec_max_names
    row,      \* dnssec_walk_cache and the observations of the zone, or NoRow
    stale,    \* the row is older than the refresh
    walk,     \* "idle", "lookup", "probe", "step", "next", "finish", "store"
    address,  \* the address in turn
    current,  \* the next name to ask about
    attempt,  \* the result of walk_one
    best,     \* the best result so far
    observed, \* names of all attempts
    result,   \* what discover_nsec_until returned last
    walks, changes

zoneVars == <<zone, probe, signing, limit, row, stale, walk, address, current, attempt, best,
              observed, result, walks, changes>>

Reusable == {"walked", "nsec3-protected", "nsec-minimal-protected"}

\* History: owed has the names the zone held all along, from the start of the walk on; looped
\* says that the walk ended at a name it had asked about before.
Blank == [status |-> "unsupported", names |-> {}, queries |-> 0, error |-> FALSE, seen |-> {},
          owed |-> {}, looped |-> FALSE]
NoRow == [status |-> "none", names |-> {}, owed |-> {}, looped |-> FALSE]
NoResult == [status |-> "none", names |-> {}, owed |-> {}, looped |-> FALSE, cached |-> FALSE]

\* The record that covers a name, and the name it points to.
OwnerOf(n) == LET upTo == {k \in zone : k <= n} IN
              IF upTo = {} THEN 0 ELSE CHOOSE k \in upTo : \A j \in upTo : j <= k
NextOf(n) == LET after == {k \in zone : k > n} IN
             IF after = {} THEN 0 ELSE CHOOSE k \in after : \A j \in after : k <= j
Covering(n) == <<OwnerOf(n), NextOf(n)>>

\* The records that may come first in the answer for a name: its own, or the one of the zone
\* it is; for a name that is gone, the one that covers it or a wildcard above it.
FirstRecords(n) ==
    IF n \in zone THEN {Covering(n)} \cup {<<d, d>> : d \in {n} \cap Delegated}
    ELSE {Covering(k) : k \in 0..n}

\* An older release may have left a partial walk behind.
Legacy == [status |-> "partial", names |-> {}, owed |-> 1..MaxZone, looped |-> FALSE]

ZoneInit ==
    /\ zone \in SUBSET (1..MaxZone) /\ probe \in 0..MaxZone /\ limit \in NameLimits
    /\ signing \in [1..Addresses -> {"nsec", "nsec3", "minimal", "plain"}]
    /\ row \in {NoRow, Legacy} /\ stale = FALSE
    /\ walk = "idle" /\ address = 1 /\ current = 0
    /\ attempt = Blank /\ best = Blank /\ observed = {} /\ result = NoResult
    /\ walks = 0 /\ changes = 0

UsableRow(r) == r.status \in Reusable

FromRow == [status |-> row.status, names |-> row.names, owed |-> row.owed,
            looped |-> row.looped, cached |-> TRUE]

-----------------------------------------------------------------------------
(* discover_nsec_until                                                     *)

StartWalk ==
    /\ walk = "idle" /\ walks < MaxWalks
    /\ walks' = walks + 1
    /\ IF UsableRow(row) /\ ~stale
       THEN result' = FromRow /\ UNCHANGED <<walk, address, attempt, best, observed>>
       ELSE /\ walk' = "lookup" /\ address' = 1 /\ attempt' = Blank
            /\ best' = [Blank EXCEPT !.error = TRUE] /\ observed' = {} /\ result' = NoResult
    /\ UNCHANGED <<zone, probe, signing, limit, row, stale, current, changes>>

Walked(fields) == UNCHANGED <<zone, probe, signing, limit, row, stale, result, walks, changes, fields>>

\* The servers of the zone, or none in time.
Lookup ==
    /\ walk = "lookup" /\ walk' \in {"next", "finish"}
    /\ Walked(<<address, current, attempt, best, observed>>)

AtLimit(a) == Cardinality(a.names) >= limit \/ a.queries >= limit + 2
Limited(a) == a.status = "partial" /\ ~a.error /\ AtLimit(a)
Priority(a) == CASE a.status \in Reusable -> 3
                 [] Limited(a) -> 2
                 [] ~Limited(a) /\ a.status \notin Reusable /\ a.names # {} -> 1
                 [] OTHER -> 0

Better(a, b) == \/ Priority(a) > Priority(b)
                \/ Priority(a) = Priority(b) /\ Cardinality(a.names) > Cardinality(b.names)

\* walk_one returned: another address is tried unless the zone or the limit was reached.
WalkEnded(a) ==
    /\ attempt' = Blank
    /\ best' = IF Better(a, best) THEN [a EXCEPT !.seen = {}] ELSE best
    /\ observed' = observed \cup a.names
    /\ address' = address + 1
    /\ walk' = IF Priority(a) >= 2 THEN "finish" ELSE "next"

\* The next address, unless the phase is over.
Connect ==
    /\ walk = "next" /\ address <= Addresses
    /\ walk' = "probe" /\ attempt' = Blank
    /\ Walked(<<address, current, best, observed>>)

OutOfServers ==
    /\ walk = "next"
    /\ walk' = "finish"
    /\ best' \in {best} \cup (IF address <= Addresses
            THEN {[best EXCEPT !.error = TRUE,
                               !.status = IF best.names # {} THEN "partial" ELSE @]} ELSE {})
    /\ Walked(<<address, current, attempt, observed>>)

-----------------------------------------------------------------------------
(* walk_one                                                                *)

\* Another name of the chain is asked about.
Asks == walk = "step" /\ ~AtLimit(attempt) /\ current \notin attempt.seen

\* No connection, no slot, no answer, or no time.
Fails ==
    /\ walk = "probe" \/ Asks
    /\ \E asked \in {0, 1} :
        WalkEnded([attempt EXCEPT !.queries = @ + asked, !.error = TRUE,
                              !.status = IF attempt.names # {} THEN "partial" ELSE @])
    /\ Walked(current)

\* The first record has an owner and leads to the next name.
Follow(a, first) ==
    LET next == first[2]
        told == [a EXCEPT !.queries = @ + 1, !.names = @ \cup ({first[1], next} \ {0})]
    IN  IF next = 0 THEN WalkEnded([told EXCEPT !.status = "walked"]) /\ UNCHANGED current
        ELSE /\ attempt' = told /\ current' = next /\ walk' = "step"
             /\ UNCHANGED <<address, best, observed>>

\* A name that should not exist: its denial, or that of the wildcard of the apex, has the
\* first interval.
Probe ==
    /\ walk = "probe"
    /\ LET kind == signing[address]
           asked == [attempt EXCEPT !.queries = @ + 1]
       IN CASE kind = "nsec" -> \E first \in {Covering(probe), Covering(0)} :
                 Follow([attempt EXCEPT !.owed = {n \in zone : n >= first[1]}], first)
            [] kind = "nsec3" ->
                 WalkEnded([asked EXCEPT !.status = "nsec3-protected"]) /\ UNCHANGED current
            [] kind = "minimal" ->
                 WalkEnded([asked EXCEPT !.status = "nsec-minimal-protected"]) /\ UNCHANGED current
            [] kind = "plain" -> WalkEnded(asked) /\ UNCHANGED current
    /\ Walked(<<>>)

\* One step along the chain.
Step ==
    /\ Asks
    /\ \E first \in FirstRecords(current) :
            Follow([attempt EXCEPT !.seen = @ \cup {current}], first)
    /\ Walked(<<>>)

\* A name asked about before ends the walk as the apex does.
StepSeen ==
    /\ walk = "step" /\ ~AtLimit(attempt) /\ current \in attempt.seen
    /\ WalkEnded([attempt EXCEPT !.status = "walked", !.looped = TRUE])
    /\ Walked(current)

\* Mutant: a walk that stops at its limit counts as done.
StepLimitWalked ==
    /\ walk = "step" /\ AtLimit(attempt)
    /\ WalkEnded([attempt EXCEPT !.status = "walked"])
    /\ Walked(current)

StepLimit ==
    /\ walk = "step" /\ AtLimit(attempt)
    /\ WalkEnded([attempt EXCEPT !.status = "partial"])
    /\ Walked(current)

\* The answer has no usable record, or the zone is signed with NSEC3 by now.
StepUnusable ==
    /\ Asks
    /\ \E status \in {"partial", "nsec3-protected"} :
        WalkEnded([attempt EXCEPT !.queries = @ + 1, !.status = status])
    /\ Walked(current)

-----------------------------------------------------------------------------
(* What is returned and stored                                             *)

FoundName == [status |-> best.status, names |-> best.names \cup observed, owed |-> best.owed,
              looped |-> best.looped, cached |-> FALSE]

\* Nothing at all: an old snapshot is better.
FinishWalk ==
    /\ walk = "finish"
    /\ IF FoundName.names = {} /\ best.status = "unsupported" /\ UsableRow(row)
       THEN result' = FromRow /\ walk' = "idle" /\ UNCHANGED row
       ELSE IF best.status \in Reusable
       THEN /\ row' = [row EXCEPT !.names = @ \cup FoundName.names]
            /\ walk' = "store" /\ UNCHANGED result
       ELSE result' = FoundName /\ walk' = "idle" /\ UNCHANGED row
    /\ UNCHANGED <<zone, probe, signing, limit, stale, address, current, attempt, best, observed,
                   walks, changes>>

\* The names are observations already; the row that says what they are follows.
StoreRow ==
    /\ walk = "store" /\ walk' = "idle"
    /\ row' = [row EXCEPT !.status = best.status, !.owed = best.owed, !.looped = best.looped]
    /\ stale' = FALSE
    /\ result' = [FoundName EXCEPT !.names = row.names]
    /\ UNCHANGED <<zone, probe, signing, limit, address, current, attempt, best, observed, walks,
                   changes>>

\* The process ends or the phase drops the walk; nothing of it is kept.
Stop ==
    /\ walk \notin {"idle"}
    /\ walk' = "idle" /\ attempt' = Blank /\ best' = Blank /\ observed' = {}
    /\ UNCHANGED <<zone, probe, signing, limit, row, stale, address, current, result, walks,
                   changes>>

\* Time passes between walks.
GrowStale ==
    /\ walk = "idle" /\ ~stale /\ row # NoRow /\ stale' = TRUE
    /\ UNCHANGED <<zone, probe, signing, limit, row, walk, address, current, attempt, best,
                   observed, result, walks, changes>>

\* The zone gains or loses a name.
ZoneChange ==
    /\ changes < MaxEdits /\ changes' = changes + 1
    /\ \E n \in 1..MaxZone :
        \/ n \in zone /\ zone' = zone \ {n} /\ attempt' = [attempt EXCEPT !.owed = @ \ {n}]
        \/ n \notin zone /\ zone' = zone \cup {n} /\ UNCHANGED attempt
    /\ UNCHANGED <<probe, signing, limit, row, stale, walk, address, current, best, observed,
                   result, walks>>

ZoneNext ==
    \/ StartWalk \/ Lookup \/ Connect \/ OutOfServers
    \/ Fails \/ Probe \/ Step \/ StepSeen \/ StepLimit \/ StepUnusable
    \/ FinishWalk \/ StoreRow \/ Stop \/ GrowStale \/ ZoneChange

ZoneSpec == ZoneInit /\ [][ZoneNext]_zoneVars

-----------------------------------------------------------------------------
WalkResults == Reusable \cup {"unsupported", "partial"}

ZoneTypeOK ==
    /\ zone \subseteq 1..MaxZone /\ current \in 0..MaxZone /\ address \in 1..(Addresses + 1)
    /\ \A a \in {attempt, best} :
        /\ a.status \in WalkResults /\ a.queries \in 0..(limit + 2)
        /\ a.names \cup a.owed \subseteq 1..MaxZone
    /\ \A r \in {row, result} : r.status \in WalkResults \cup {"none"}
    /\ observed \subseteq 1..MaxZone /\ walks \in 0..MaxWalks /\ changes \in 0..MaxEdits

\* A walk that came to the apex, and a row of one that is reused, miss no name that the zone
\* held from the start of the walk to its end, past the point where the walk began, whichever
\* server answered, wherever an answer sent the walk back to, whatever failed on the way and
\* whenever the process was stopped; a walk that was cut is never reused as a snapshot.  A
\* walk that ended at a name it met twice is not covered: WalkComplete is about it.
WalkSound ==
    /\ \/ result.status = "walked"
       \/ result.cached /\ result.status \notin {"nsec3-protected", "nsec-minimal-protected"}
       => result.looped \/ result.owed \subseteq result.names
    /\ row.status = "walked" => row.looped \/ row.owed \subseteq row.names

\* A snapshot that takes the place of a walk is complete, however that walk ended: one that
\* stopped short must not stand in for a later attempt until the refresh (dnssec.rs:487-490).
\* The code takes a name met twice for the end of the chain, so this does not hold.
WalkComplete ==
    result.cached /\ result.status = "walked" => result.owed \subseteq result.names
=============================================================================

---------------------------- MODULE EnrichmentProofs ----------------------------
(***************************************************************************)
(* EnrichKept for every set of names, every choice of phases and every     *)
(* limit: no name that a phase found is lost between the phase, the        *)
(* pipeline, the seeds and the batch, a scan that ends as completed has no *)
(* seed left to try, and no stage visits more hosts than its limit.        *)
(***************************************************************************)
EXTENDS Enrichment, FiniteSetTheorems, TLAPS

Stages == {"graph", "web", "tls"}
\* Phases that hand names over, and the others.
Handing == {"graph", "ptr", "internetdb", "passive", "nsec", "metadata", "web", "tls",
            "round-tls", "late"}
Resting == {"round-graph", "round-web", "final", "partial", "completed", "aborted"}
Claimed == {"resolve", "settle", "requeue", "done"}

EnrTypes ==
    /\ activeLeft \in {"none", "some", "zero"} /\ batchStep \in Steps
    /\ zones \in {"none", "walked", "late"}
    /\ pipeQueue \subseteq Subdomains /\ seen \subseteq Subdomains /\ processed \subseteq Subdomains
    /\ batch \subseteq Subdomains /\ known \subseteq Subdomains
    /\ found \subseteq Subdomains /\ refused \subseteq Subdomains
    /\ visited \in [Stages -> SUBSET (Subdomains \cup {Domain})]
    /\ seedRow \in [Subdomains -> {"none", "queued", "processing", "done"}]
    /\ tries \in [Subdomains -> 0..Tries]
    /\ eventLimit \in Nat /\ cap \in Nat /\ aborts \in 0..MaxAborts
    /\ enqueued \in Nat /\ (eventLimit > 0 => enqueued <= eventLimit)

\* A batch is worked on only in a phase that hands names over; the queue of the pipeline holds
\* no more than was counted against the limit.
Control ==
    /\ phase \in Handing \cup Resting
    /\ batchStep # "find" => phase \in Handing
    /\ Cardinality(pipeQueue) <= enqueued

Accounted == known \cup refused \cup Stored \cup (IF batchStep = "persist" THEN batch ELSE {})

\* Between two stages of a round names wait in the pipeline.
Gathering == phase \in {"round-web", "round-tls"} /\ batchStep = "find"

\* Where the names of a run are that was not aborted.
Whereabouts ==
    phase # "aborted" =>
        /\ found \subseteq Accounted \cup pipeQueue
        /\ seen \subseteq Accounted \cup pipeQueue
        /\ processed \subseteq Accounted
        /\ Gathering \/ pipeQueue \subseteq Accounted

\* Which rows are claimed, and what the batch of a claim has used up.
Claims ==
    /\ phase # "aborted" => \A h \in Subdomains : seedRow[h] = "processing" =>
            /\ batchStep \in Claimed /\ h \in batch
            /\ batchStep = "done" => h \notin Left
    /\ batchStep \in {"resolve", "settle"} => \A h \in batch : tries[h] < Tries

\* A stage that visits hosts of its own accord finds its limit unused.
Visits ==
    /\ \A s \in Stages : Cardinality(visited[s]) <= HostLimit
    /\ InPhase("graph") => visited["graph"] = {}
    /\ phase \in {"graph", "ptr", "internetdb", "passive", "nsec", "metadata"} =>
            visited["web"] = {} /\ visited["tls"] = {}
    /\ InPhase("web") => visited["web"] = {}
    /\ phase = "web" \/ InPhase("tls") => visited["tls"] = {}

Completed ==
    phase = "completed" =>
        \A h \in Subdomains : seedRow[h] # "processing" /\ (seedRow[h] = "queued" => tries[h] >= Tries)

EnrInv == EnrTypes /\ Control /\ Whereabouts /\ Claims /\ Visits /\ Completed

-----------------------------------------------------------------------------
(* Sets of hosts.                                                          *)

\* Sets of names are finite.
LEMMA NamesFinite ==
    ASSUME NEW S \in SUBSET Subdomains
    PROVE  IsFiniteSet(S) /\ Cardinality(S) \in Nat
BY EnrichAssumption, FS_Subset, FS_CardinalityType

\* And with the domain itself.
LEMMA HostsFinite ==
    ASSUME NEW S \in SUBSET (Subdomains \cup {Domain})
    PROVE  IsFiniteSet(S) /\ Cardinality(S) \in Nat
<1>1. IsFiniteSet(Subdomains \cup {Domain})  BY EnrichAssumption, FS_AddElement
<1> QED  BY <1>1, FS_Subset, FS_CardinalityType

\* What UpTo takes is within the limit, and is everything when the limit allows it.
LEMMA UpToWithin ==
    ASSUME NEW all \in SUBSET (Subdomains \cup {Domain}), NEW l \in Nat, NEW d \in UpTo(all, l)
    PROVE  d \subseteq all /\ Cardinality(d) <= l /\ (Cardinality(all) <= l => d = all)
<1>1. d \in SUBSET all /\ Cardinality(d) = IF Cardinality(all) < l THEN Cardinality(all) ELSE l
  BY DEF UpTo
<1>2. IsFiniteSet(all) /\ Cardinality(all) \in Nat  BY HostsFinite
<1>3. Cardinality(all) = Cardinality(d) => all = d  BY <1>1, <1>2, FS_Subset
<1> QED  BY <1>1, <1>2, <1>3

\* Adding to a set of hosts adds at most the new ones.
LEMMA UnionWithin ==
    ASSUME NEW S \in SUBSET (Subdomains \cup {Domain}), NEW T \in SUBSET (Subdomains \cup {Domain})
    PROVE  Cardinality(S \cup T) <= Cardinality(S) + Cardinality(T)
<1>1. IsFiniteSet(S) /\ IsFiniteSet(T) /\ Cardinality(S) \in Nat /\ Cardinality(T) \in Nat
  BY HostsFinite
<1>2. Cardinality(S \cup T) = Cardinality(S) + Cardinality(T) - Cardinality(S \cap T)
  BY <1>1, FS_Union
<1>3. Cardinality(S \cap T) \in Nat  BY HostsFinite
<1> QED  BY <1>1, <1>2, <1>3

\* What enqueue keeps is counted, and what it does not keep is refused.
LEMMA Enqueued ==
    ASSUME EnrTypes, Cardinality(pipeQueue) <= enqueued,
           NEW names \in SUBSET Subdomains, NEW kept \in SUBSET names, Enqueue(names, kept)
    PROVE  /\ kept \subseteq names \ seen
           /\ seen' = seen \cup kept /\ found' = found \cup names
           /\ refused' = refused \cup ((names \ seen) \ kept)
           /\ enqueued' \in Nat /\ (eventLimit > 0 => enqueued' <= eventLimit)
           /\ Cardinality(pipeQueue \cup kept) <= enqueued'
<1> DEFINE fresh == names \ seen
           room == IF eventLimit = 0 THEN Cardinality(fresh) ELSE eventLimit - enqueued
<1>1. kept \in UpTo(fresh, room) /\ seen' = seen \cup kept /\ found' = found \cup names
      /\ enqueued' = enqueued + Cardinality(kept) /\ refused' = refused \cup (fresh \ kept)
  BY DEF Enqueue
<1>2. Cardinality(fresh) \in Nat /\ Cardinality(kept) \in Nat /\ Cardinality(pipeQueue) \in Nat
  BY NamesFinite DEF EnrTypes
<1>3. room \in Nat /\ enqueued \in Nat /\ eventLimit \in Nat  BY <1>2 DEF EnrTypes
<1> HIDE DEF room
<1>4. kept \subseteq fresh /\ Cardinality(kept) <= room  BY <1>1, <1>3, UpToWithin
<1>5. Cardinality(pipeQueue \cup kept) <= Cardinality(pipeQueue) + Cardinality(kept)
  BY UnionWithin DEF EnrTypes
<1>6. Cardinality(pipeQueue \cup kept) \in Nat  BY NamesFinite DEF EnrTypes
<1>7. eventLimit > 0 => enqueued' <= eventLimit
  BY <1>1, <1>2, <1>3, <1>4 DEF room
<1>8. enqueued' \in Nat /\ Cardinality(pipeQueue \cup kept) <= enqueued'
  BY <1>1, <1>2, <1>3, <1>5, <1>6
<1> QED  BY <1>1, <1>4, <1>7, <1>8

\* A drain under the limit of the pipeline, or without one, takes everything.
LEMMA DrainsAll ==
    ASSUME NEW all \in SUBSET Subdomains, NEW l \in Nat, l > 0 => Cardinality(all) <= l,
           NEW d \in Drains(all, l)
    PROVE  d = all
BY UpToWithin DEF Drains

-----------------------------------------------------------------------------
(* What a phase hands over.                                                *)

\* What the end of a phase leaves behind: the names in the next batch, or none at all.
HandedOver(next) ==
    /\ pipeQueue' \subseteq Subdomains /\ seen' \subseteq Subdomains /\ processed' \subseteq Subdomains
    /\ batch' \subseteq Subdomains /\ found' \subseteq Subdomains /\ refused' \subseteq Subdomains
    /\ enqueued' \in Nat /\ (eventLimit > 0 => enqueued' <= eventLimit)
    /\ Cardinality(pipeQueue') <= enqueued'
    /\ \/ batchStep' = "find" /\ phase' = next
       \/ batchStep' = "persist" /\ phase' = phase
    /\ found' \cup seen' \cup processed' \cup pipeQueue' \subseteq Accounted'

\* Nothing that a phase does takes a name off the books.
LEMMA BooksOpen ==
    ASSUME UNCHANGED <<known, seedRow>>, refused \subseteq refused', batchStep = "find"
    PROVE  /\ Accounted = known \cup refused \cup Stored
           /\ Accounted \subseteq Accounted'
           /\ known \cup refused' \subseteq Accounted'
           /\ batchStep' = "persist" => batch' \subseteq Accounted'
BY DEF Accounted, Stored

\* A phase that drains the pipeline.
LEMMA HandKeeps ==
    ASSUME EnrInv, batchStep = "find", phase # "aborted",
           NEW names \in SUBSET Subdomains, NEW l \in {0, eventLimit}, NEW next,
           Hand(names, l, next), UNCHANGED <<known, seedRow>>
    PROVE  HandedOver(next)
<1>1. PICK kept \in SUBSET names :
        /\ Enqueue(names, kept)
        /\ \E d \in Drains(pipeQueue \cup kept, l) :
            /\ pipeQueue' = (pipeQueue \cup kept) \ d /\ processed' = processed \cup d
            /\ batch' = d \ processed
            /\ IF d \ processed = {} THEN phase' = next /\ batchStep' = "find"
               ELSE batchStep' = "persist" /\ UNCHANGED phase
  BY DEF Hand
<1>2. EnrTypes /\ Cardinality(pipeQueue) <= enqueued  BY DEF EnrInv, Control
<1>3. /\ kept \subseteq names \ seen
      /\ seen' = seen \cup kept /\ found' = found \cup names
      /\ refused' = refused \cup ((names \ seen) \ kept)
      /\ enqueued' \in Nat /\ (eventLimit > 0 => enqueued' <= eventLimit)
      /\ Cardinality(pipeQueue \cup kept) <= enqueued'
  BY <1>1, <1>2, Enqueued
<1>4. pipeQueue \cup kept \in SUBSET Subdomains /\ Cardinality(pipeQueue \cup kept) \in Nat
      /\ eventLimit \in Nat
  BY <1>2, NamesFinite DEF EnrTypes
<1>5. l \in Nat /\ (l > 0 => Cardinality(pipeQueue \cup kept) <= l)  BY <1>3, <1>4
<1>6. /\ pipeQueue' = {} /\ processed' = processed \cup (pipeQueue \cup kept)
      /\ batch' = (pipeQueue \cup kept) \ processed
      /\ \/ batchStep' = "find" /\ phase' = next /\ batch' = {}
         \/ batchStep' = "persist" /\ phase' = phase
  <2>1. PICK d \in Drains(pipeQueue \cup kept, l) :
            /\ pipeQueue' = (pipeQueue \cup kept) \ d /\ processed' = processed \cup d
            /\ batch' = d \ processed
            /\ IF d \ processed = {} THEN phase' = next /\ batchStep' = "find"
               ELSE batchStep' = "persist" /\ UNCHANGED phase
    BY <1>1
  <2>2. d = pipeQueue \cup kept  BY <1>4, <1>5, DrainsAll
  <2> QED  BY <2>1, <2>2
<1>7. Cardinality(pipeQueue') <= enqueued'  BY <1>3, <1>6, FS_EmptySet
<1>8. /\ Accounted \subseteq Accounted' /\ refused' \subseteq Accounted'
      /\ batchStep' = "persist" => batch' \subseteq Accounted'
  BY <1>3, BooksOpen
<1>9. found' \cup seen' \cup processed' \cup pipeQueue' \subseteq Accounted'
  <2>1. found \cup seen \subseteq Accounted \cup pipeQueue /\ processed \subseteq Accounted
    BY DEF EnrInv, Whereabouts
  <2>2. pipeQueue \cup kept \subseteq Accounted'  BY <1>6, <1>8, <2>1
  <2>3. processed' \subseteq Accounted'  BY <1>6, <1>8, <2>1, <2>2
  <2>4. seen' \subseteq Accounted'  BY <1>3, <1>8, <2>1, <2>2
  <2>5. found' \subseteq Accounted'
    <3>1. names \subseteq seen \cup kept \cup refused'  BY <1>3
    <3> QED  BY <1>3, <1>8, <2>1, <2>2, <3>1
  <2> QED  BY <1>6, <2>3, <2>4, <2>5
<1> QED
  <2>1. /\ pipeQueue' \subseteq Subdomains /\ seen' \subseteq Subdomains
        /\ processed' \subseteq Subdomains /\ batch' \subseteq Subdomains
        /\ found' \subseteq Subdomains /\ refused' \subseteq Subdomains
    BY <1>2, <1>3, <1>6 DEF EnrTypes
  <2> QED  BY <1>3, <1>6, <1>7, <1>9, <2>1 DEF HandedOver

\* A phase whose names go straight to validation.
LEMMA HandDirectKeeps ==
    ASSUME EnrInv, batchStep = "find", phase # "aborted", ~Gathering,
           NEW names \in SUBSET Subdomains, NEW next,
           HandDirect(names, next), UNCHANGED <<known, seedRow>>
    PROVE  HandedOver(next)
<1>1. PICK kept \in SUBSET names :
        /\ Enqueue(names, kept)
        /\ pipeQueue' = pipeQueue \cup kept /\ batch' = names \ known
        /\ IF names \ known = {} THEN phase' = next /\ batchStep' = "find"
           ELSE batchStep' = "persist" /\ UNCHANGED phase
        /\ UNCHANGED processed
  BY DEF HandDirect
<1>2. EnrTypes /\ Cardinality(pipeQueue) <= enqueued  BY DEF EnrInv, Control
<1>3. /\ kept \subseteq names \ seen
      /\ seen' = seen \cup kept /\ found' = found \cup names
      /\ refused' = refused \cup ((names \ seen) \ kept)
      /\ enqueued' \in Nat /\ (eventLimit > 0 => enqueued' <= eventLimit)
      /\ Cardinality(pipeQueue \cup kept) <= enqueued'
  BY <1>1, <1>2, Enqueued
<1>4. /\ Accounted \subseteq Accounted' /\ known \cup refused' \subseteq Accounted'
      /\ batchStep' = "persist" => batch' \subseteq Accounted'
  BY <1>3, BooksOpen
<1>5. names \subseteq Accounted'
  <2>1. CASE names \ known = {}  BY <1>4, <2>1
  <2>2. CASE names \ known # {}
    <3>1. names \subseteq known \cup batch' /\ batchStep' = "persist"  BY <1>1, <2>2
    <3> QED  BY <1>4, <3>1
  <2> QED  BY <2>1, <2>2
<1>6. found' \cup seen' \cup processed' \cup pipeQueue' \subseteq Accounted'
  <2>1. found \cup seen \subseteq Accounted \cup pipeQueue /\ processed \subseteq Accounted
        /\ pipeQueue \subseteq Accounted
    BY DEF EnrInv, Whereabouts
  <2> QED  BY <1>1, <1>3, <1>4, <1>5, <2>1
<1> QED
  <2>1. /\ pipeQueue' \subseteq Subdomains /\ seen' \subseteq Subdomains
        /\ processed' \subseteq Subdomains /\ batch' \subseteq Subdomains
        /\ found' \subseteq Subdomains /\ refused' \subseteq Subdomains
    BY <1>1, <1>2, <1>3 DEF EnrTypes
  <2> QED  BY <1>1, <1>3, <1>6, <2>1 DEF HandedOver

\* After a phase has handed over, only its visits are left to be looked at.
LEMMA HandoverKeeps ==
    ASSUME EnrInv, batchStep = "find", phase \in Handing \cup {"round-graph"},
           batchStep' = "persist" => phase \in Handing,
           NEW next \in Handing \cup {"round-graph", "final"}, HandedOver(next), StageKeeps,
           activeLeft' \in {"none", "some", "zero"}, zones' \in {"none", "walked", "late"},
           visited' \in [Stages -> SUBSET (Subdomains \cup {Domain})], Visits'
    PROVE  EnrInv'
<1> USE DEF Handing, Resting
<1>1. EnrTypes'  BY DEF EnrInv, EnrTypes, HandedOver, StageKeeps, Steps, config
<1>2. Control'  BY DEF HandedOver, Control
<1>3. Whereabouts'  BY DEF HandedOver, Whereabouts
<1>4. Claims'
  <2>1. \A h \in Subdomains : seedRow[h] # "processing"
    BY DEF EnrInv, Claims, Claimed
  <2> QED  BY <2>1 DEF Claims, HandedOver, StageKeeps
<1>5. Completed'  BY DEF Completed, HandedOver
<1> QED  BY <1>1, <1>2, <1>3, <1>4, <1>5 DEF EnrInv

\* A phase that is passed over.
LEMMA PassKeeps ==
    ASSUME EnrInv, batchStep = "find", phase # "aborted", ~Gathering, NEW next, phase' = next,
           UNCHANGED <<pipe, batch, batchStep, found, refused>>, UNCHANGED <<known, seedRow>>
    PROVE  HandedOver(next)
<1>1. Accounted' = Accounted  BY DEF Accounted, Stored
<1> QED
  BY <1>1 DEF HandedOver, EnrInv, EnrTypes, Control, Whereabouts, pipe

\* What a stage visits.
LEMMA VisitAdds ==
    ASSUME EnrTypes, NEW s \in Stages, NEW v \in SUBSET (Subdomains \cup {Domain}), Visit(s, v)
    PROVE  /\ visited' \in [Stages -> SUBSET (Subdomains \cup {Domain})]
           /\ visited'[s] = visited[s] \cup v
           /\ \A t \in Stages \ {s} : visited'[t] = visited[t]
BY DEF EnrTypes, Visit

\* A visit within what is left of the limit keeps it.
LEMMA VisitWithin ==
    ASSUME EnrTypes, NEW s \in Stages, NEW v \in SUBSET (Subdomains \cup {Domain}), Visit(s, v),
           \A t \in Stages : Cardinality(visited[t]) <= HostLimit,
           Cardinality(v) <= Remaining(s)
    PROVE  \A t \in Stages : Cardinality(visited'[t]) <= HostLimit
<1>1. /\ visited' \in [Stages -> SUBSET (Subdomains \cup {Domain})]
      /\ visited'[s] = visited[s] \cup v
      /\ \A t \in Stages \ {s} : visited'[t] = visited[t]
  BY VisitAdds
<1>2. visited[s] \in SUBSET (Subdomains \cup {Domain})  BY DEF EnrTypes
<1>3. Cardinality(visited[s] \cup v) <= Cardinality(visited[s]) + Cardinality(v)
  BY <1>2, UnionWithin
<1>4. Cardinality(visited[s]) \in Nat /\ Cardinality(v) \in Nat /\ HostLimit \in Nat
      /\ Cardinality(visited[s] \cup v) \in Nat
  BY <1>2, HostsFinite, EnrichAssumption
<1>5. Cardinality(visited[s] \cup v) <= HostLimit  BY <1>3, <1>4 DEF Remaining
<1> QED  BY <1>1, <1>5

\* What is left of a limit is a number.
LEMMA RoomLeft ==
    ASSUME EnrInv, NEW s \in Stages
    PROVE  /\ Remaining(s) \in Nat /\ (visited[s] = {} => Remaining(s) = HostLimit)
<1>1. visited[s] \in SUBSET (Subdomains \cup {Domain}) /\ Cardinality(visited[s]) <= HostLimit
  BY DEF EnrInv, EnrTypes, Visits
<1>2. Cardinality(visited[s]) \in Nat /\ HostLimit \in Nat  BY <1>1, HostsFinite, EnrichAssumption
<1>3. visited[s] = {} => Cardinality(visited[s]) = 0  BY FS_EmptySet
<1> QED  BY <1>1, <1>2, <1>3 DEF Remaining

\* The first visit of a stage.
LEMMA FirstVisit ==
    ASSUME EnrInv, NEW s \in Stages, NEW hosts \in SUBSET (Subdomains \cup {Domain}),
           NEW v \in UpTo(hosts, HostLimit), Visit(s, v), visited[s] = {}
    PROVE  /\ v \in SUBSET (Subdomains \cup {Domain})
           /\ \A t \in Stages : Cardinality(visited'[t]) <= HostLimit
<1>1. HostLimit \in Nat  BY EnrichAssumption
<1>2. v \subseteq hosts /\ Cardinality(v) <= HostLimit  BY <1>1, UpToWithin
<1> QED  BY <1>2, RoomLeft, VisitWithin DEF EnrInv, Visits

\* Options decide how the names of an early phase travel.
LEMMA HandEarlyKeeps ==
    ASSUME EnrInv, batchStep = "find", phase # "aborted", ~Gathering,
           NEW names \in SUBSET Subdomains, NEW next,
           HandEarly(names, next), UNCHANGED <<known, seedRow>>
    PROVE  HandedOver(next)
BY HandKeeps, HandDirectKeeps DEF HandEarly

LEMMA StageTypes ==
    ASSUME EnrInv
    PROVE  /\ activeLeft \in {"none", "some", "zero"} /\ zones \in {"none", "walked", "late"}
           /\ visited \in [Stages -> SUBSET (Subdomains \cup {Domain})]
           /\ known \in SUBSET Subdomains /\ known \cup {Domain} \in SUBSET (Subdomains \cup {Domain})
           /\ DrainLimit \in {0, eventLimit}
BY DEF EnrInv, EnrTypes, DrainLimit

-----------------------------------------------------------------------------
(* The phases.                                                             *)

LEMMA SkipPhaseKeeps == EnrInv /\ SkipPhase => EnrInv'
<1> SUFFICES ASSUME EnrInv, SkipPhase PROVE EnrInv'
  OBVIOUS
<1> USE DEF Handing, Stages
<1>1. /\ batchStep = "find" /\ phase \in DOMAIN After \ {"late"} /\ phase' = After[phase]
      /\ StageKeeps
      /\ UNCHANGED <<activeLeft, webSpent, pipe, batch, batchStep, visited, zones, found, refused>>
  BY DEF SkipPhase
<1>2. phase \in Handing \ {"late", "round-tls"} /\ After[phase] \in Handing \cup {"round-graph"}
  BY <1>1 DEF After
<1>3. HandedOver(After[phase])  BY <1>1, <1>2, PassKeeps DEF StageKeeps, Gathering
<1>4. Visits'  BY <1>1, <1>2 DEF EnrInv, Visits, InPhase, After
<1> QED  BY <1>1, <1>2, <1>3, <1>4, HandoverKeeps, StageTypes

LEMMA GraphKeeps == EnrInv /\ Graph => EnrInv'
<1> SUFFICES ASSUME EnrInv, Graph PROVE EnrInv'
  OBVIOUS
<1> USE DEF Handing, Stages
<1>1. batchStep = "find" /\ phase = "graph" /\ StageKeeps /\ UNCHANGED <<activeLeft, webSpent>>
  BY DEF Graph, On, InPhase
<1>2. PICK v \in UpTo(known, HostLimit), names \in SUBSET Subdomains :
        Visit("graph", v) /\ zones' \in {"none", "walked"} /\ HandEarly(names, "ptr")
  BY DEF Graph
<1>3. HandedOver("ptr")  BY <1>1, <1>2, HandEarlyKeeps DEF StageKeeps, Gathering
<1>4. visited["graph"] = {} /\ visited["web"] = {} /\ visited["tls"] = {}
  BY <1>1 DEF EnrInv, Visits, InPhase
<1>5. v \in SUBSET (Subdomains \cup {Domain})
      /\ \A t \in Stages : Cardinality(visited'[t]) <= HostLimit
  BY <1>2, <1>4, FirstVisit, StageTypes
<1>6. /\ visited' \in [Stages -> SUBSET (Subdomains \cup {Domain})]
      /\ visited'["web"] = {} /\ visited'["tls"] = {}
  BY <1>2, <1>4, <1>5, VisitAdds DEF EnrInv
<1>7. Visits'  BY <1>1, <1>3, <1>5, <1>6 DEF Visits, InPhase, HandedOver
<1> QED  BY <1>1, <1>2, <1>3, <1>6, <1>7, HandoverKeeps, StageTypes

LEMMA PtrKeeps == EnrInv /\ Ptr => EnrInv'
<1> SUFFICES ASSUME EnrInv, Ptr PROVE EnrInv'
  OBVIOUS
<1> USE DEF Handing, Stages
<1>1. batchStep = "find" /\ phase = "ptr" /\ StageKeeps /\ UNCHANGED <<webSpent, visited, zones>>
  BY DEF Ptr, On, InPhase
<1>2. HandedOver("internetdb") /\ activeLeft' \in {"none", "some", "zero"}
  <2>1. ~Gathering /\ UNCHANGED <<known, seedRow>>  BY <1>1 DEF Gathering, StageKeeps
  <2>2. CASE Active /\ known # {}
    <3>1. activeLeft' \in Spendable /\ \E names \in SUBSET Subdomains : HandEarly(names, "internetdb")
      BY <2>2 DEF Ptr
    <3> QED  BY <1>1, <2>1, <3>1, HandEarlyKeeps, StageTypes DEF Spendable
  <2>3. CASE ~(Active /\ known # {})
    <3>1. phase' = "internetdb" /\ UNCHANGED <<activeLeft, pipe, batch, batchStep, found, refused>>
      BY <2>3 DEF Ptr
    <3> QED  BY <1>1, <2>1, <3>1, PassKeeps, StageTypes
  <2> QED  BY <2>2, <2>3
<1>3. Visits'  BY <1>1, <1>2 DEF EnrInv, Visits, InPhase, HandedOver
<1> QED  BY <1>1, <1>2, <1>3, HandoverKeeps, StageTypes

LEMMA InternetDbKeeps == EnrInv /\ InternetDb => EnrInv'
<1> SUFFICES ASSUME EnrInv, InternetDb PROVE EnrInv'
  OBVIOUS
<1> USE DEF Handing, Stages
<1>1. /\ batchStep = "find" /\ phase = "internetdb" /\ StageKeeps
      /\ UNCHANGED <<activeLeft, webSpent, visited, zones>>
  BY DEF InternetDb, On, InPhase
<1>2. HandedOver("passive")
  <2>1. ~Gathering /\ UNCHANGED <<known, seedRow>>  BY <1>1 DEF Gathering, StageKeeps
  <2> QED  BY <1>1, <2>1, HandEarlyKeeps, PassKeeps DEF InternetDb
<1>3. Visits'  BY <1>1, <1>2 DEF EnrInv, Visits, InPhase, HandedOver
<1> QED  BY <1>1, <1>2, <1>3, HandoverKeeps, StageTypes

LEMMA PassiveZonesKeeps == EnrInv /\ PassiveZones => EnrInv'
<1> SUFFICES ASSUME EnrInv, PassiveZones PROVE EnrInv'
  OBVIOUS
<1> USE DEF Handing, Stages
<1>1. /\ batchStep = "find" /\ phase = "passive" /\ StageKeeps
      /\ UNCHANGED <<activeLeft, webSpent, pipe, visited, zones, refused>>
  BY DEF PassiveZones, On, InPhase
<1>2. PICK names \in SUBSET Subdomains :
        /\ found' = found \cup names /\ batch' = names \ known
        /\ IF names \ known = {} THEN phase' = "nsec" /\ UNCHANGED batchStep
           ELSE batchStep' = "persist" /\ UNCHANGED phase
  BY DEF PassiveZones
<1>3. HandedOver("nsec")
  <2>1. UNCHANGED <<known, seedRow>>  BY <1>1 DEF StageKeeps
  <2>2. /\ Accounted \subseteq Accounted' /\ known \subseteq Accounted'
        /\ batchStep' = "persist" => batch' \subseteq Accounted'
    BY <1>1, <2>1, BooksOpen
  <2>3. names \subseteq Accounted'  BY <1>2, <2>2
  <2>4. found \cup seen \cup processed \cup pipeQueue \subseteq Accounted
    BY <1>1 DEF EnrInv, Whereabouts, Gathering
  <2>5. found' \cup seen' \cup processed' \cup pipeQueue' \subseteq Accounted'
    BY <1>1, <1>2, <2>2, <2>3, <2>4 DEF pipe
  <2> QED  BY <1>1, <1>2, <2>5 DEF HandedOver, EnrInv, EnrTypes, Control, pipe
<1>4. Visits'  BY <1>1, <1>3 DEF EnrInv, Visits, InPhase, HandedOver
<1> QED  BY <1>1, <1>3, <1>4, HandoverKeeps, StageTypes

LEMMA NsecKeeps == EnrInv /\ Nsec => EnrInv'
<1> SUFFICES ASSUME EnrInv, Nsec PROVE EnrInv'
  OBVIOUS
<1> USE DEF Handing, Stages
<1>1. /\ batchStep = "find" /\ phase = "nsec" /\ StageKeeps
      /\ UNCHANGED <<activeLeft, webSpent, visited, zones>>
  BY DEF Nsec, On, InPhase
<1>2. HandedOver("metadata")
  BY <1>1, HandKeeps, StageTypes DEF Nsec, StageKeeps
<1>3. Visits'  BY <1>1, <1>2 DEF EnrInv, Visits, InPhase, HandedOver
<1> QED  BY <1>1, <1>2, <1>3, HandoverKeeps, StageTypes

LEMMA MetadataKeeps == EnrInv /\ Metadata => EnrInv'
<1> SUFFICES ASSUME EnrInv, Metadata PROVE EnrInv'
  OBVIOUS
<1> USE DEF Handing, Stages
<1>1. /\ batchStep = "find" /\ phase = "metadata" /\ StageKeeps
      /\ UNCHANGED <<activeLeft, visited, zones>>
  BY DEF Metadata, On, InPhase
<1>2. HandedOver("web")
  <2>1. ~Gathering /\ UNCHANGED <<known, seedRow>>  BY <1>1 DEF Gathering, StageKeeps
  <2> QED  BY <1>1, <2>1, HandKeeps, PassKeeps, StageTypes DEF Metadata
<1>3. Visits'  BY <1>1, <1>2 DEF EnrInv, Visits, InPhase, HandedOver
<1> QED  BY <1>1, <1>2, <1>3, HandoverKeeps, StageTypes

LEMMA WebKeeps == EnrInv /\ Web => EnrInv'
<1> SUFFICES ASSUME EnrInv, Web PROVE EnrInv'
  OBVIOUS
<1> USE DEF Handing, Stages
<1>1. batchStep = "find" /\ phase = "web" /\ StageKeeps /\ UNCHANGED <<activeLeft, zones>>
  BY DEF Web, On, InPhase
<1>2. PICK v \in UpTo(known \cup {Domain}, HostLimit), names \in SUBSET Subdomains :
        Visit("web", v) /\ Hand(names, DrainLimit, "tls")
  BY DEF Web
<1>3. HandedOver("tls")  BY <1>1, <1>2, HandKeeps, StageTypes DEF StageKeeps
<1>4. visited["web"] = {} /\ visited["tls"] = {}  BY <1>1 DEF EnrInv, Visits, InPhase
<1>5. v \in SUBSET (Subdomains \cup {Domain})
      /\ \A t \in Stages : Cardinality(visited'[t]) <= HostLimit
  BY <1>2, <1>4, FirstVisit, StageTypes
<1>6. visited' \in [Stages -> SUBSET (Subdomains \cup {Domain})] /\ visited'["tls"] = {}
  BY <1>2, <1>4, <1>5, VisitAdds DEF EnrInv
<1>7. Visits'  BY <1>1, <1>3, <1>5, <1>6 DEF Visits, InPhase, HandedOver
<1> QED  BY <1>1, <1>3, <1>6, <1>7, HandoverKeeps, StageTypes

LEMMA TlsKeeps == EnrInv /\ Tls => EnrInv'
<1> SUFFICES ASSUME EnrInv, Tls PROVE EnrInv'
  OBVIOUS
<1> USE DEF Handing, Stages
<1>1. batchStep = "find" /\ phase = "tls" /\ StageKeeps /\ UNCHANGED <<activeLeft, webSpent, zones>>
  BY DEF Tls, On, InPhase
<1>2. PICK v \in UpTo(known \cup {Domain}, HostLimit), names \in SUBSET Subdomains :
        Visit("tls", v) /\ Hand(names, DrainLimit, "round-graph")
  BY DEF Tls
<1>3. HandedOver("round-graph")  BY <1>1, <1>2, HandKeeps, StageTypes DEF StageKeeps
<1>4. visited["tls"] = {}  BY <1>1 DEF EnrInv, Visits, InPhase
<1>5. v \in SUBSET (Subdomains \cup {Domain})
      /\ \A t \in Stages : Cardinality(visited'[t]) <= HostLimit
  BY <1>2, <1>4, FirstVisit, StageTypes
<1>6. visited' \in [Stages -> SUBSET (Subdomains \cup {Domain})]
  BY <1>2, <1>5, VisitAdds DEF EnrInv
<1>7. Visits'  BY <1>1, <1>3, <1>5, <1>6 DEF Visits, InPhase, HandedOver
<1> QED  BY <1>1, <1>3, <1>6, <1>7, HandoverKeeps, StageTypes

-----------------------------------------------------------------------------
(* The rounds of the pipeline.                                             *)

LEMMA RoundsOverKeeps == EnrInv /\ RoundsOver => EnrInv'
<1> SUFFICES ASSUME EnrInv, RoundsOver PROVE EnrInv'
  OBVIOUS
<1>1. /\ batchStep = "find" /\ phase = "round-graph" /\ phase' = "late" /\ StageKeeps
      /\ UNCHANGED <<pipe, batch, batchStep, found, refused>>
      /\ UNCHANGED <<activeLeft, webSpent, visited, zones>>
  BY DEF RoundsOver, InPhase, EndRounds
<1>2. HandedOver("late")  BY <1>1, PassKeeps DEF StageKeeps, Gathering
<1>3. Visits'  BY <1>1 DEF EnrInv, Visits, InPhase
<1> QED  BY <1>1, <1>2, <1>3, HandoverKeeps, StageTypes DEF Handing

\* What the stages of a round leave behind: the names wait in the pipeline.
CollectedAll ==
    /\ pipeQueue' \subseteq Subdomains /\ seen' \subseteq Subdomains
    /\ found' \subseteq Subdomains /\ refused' \subseteq Subdomains
    /\ enqueued' \in Nat /\ (eventLimit > 0 => enqueued' <= eventLimit)
    /\ Cardinality(pipeQueue') <= enqueued'
    /\ found' \cup seen' \subseteq Accounted' \cup pipeQueue'
    /\ Accounted \subseteq Accounted'

LEMMA CollectKeeps ==
    ASSUME EnrInv, batchStep = "find", phase # "aborted", NEW names \in SUBSET Subdomains,
           Collect(names), UNCHANGED <<known, seedRow>>
    PROVE  CollectedAll
<1>1. PICK kept \in SUBSET names : Enqueue(names, kept) /\ pipeQueue' = pipeQueue \cup kept
  BY DEF Collect
<1>2. EnrTypes /\ Cardinality(pipeQueue) <= enqueued  BY DEF EnrInv, Control
<1>3. /\ kept \subseteq names \ seen
      /\ seen' = seen \cup kept /\ found' = found \cup names
      /\ refused' = refused \cup ((names \ seen) \ kept)
      /\ enqueued' \in Nat /\ (eventLimit > 0 => enqueued' <= eventLimit)
      /\ Cardinality(pipeQueue \cup kept) <= enqueued'
  BY <1>1, <1>2, Enqueued
<1>4. Accounted \subseteq Accounted' /\ refused' \subseteq Accounted'  BY <1>3, BooksOpen
<1>5. found' \cup seen' \subseteq Accounted' \cup pipeQueue'
  <2>1. found \cup seen \subseteq Accounted \cup pipeQueue  BY DEF EnrInv, Whereabouts
  <2>2. names \subseteq seen \cup kept \cup refused'  BY <1>3
  <2> QED  BY <1>1, <1>3, <1>4, <2>1, <2>2
<1> QED  BY <1>1, <1>2, <1>3, <1>4, <1>5 DEF CollectedAll, EnrTypes

LEMMA NothingCollected ==
    ASSUME EnrInv, batchStep = "find", phase # "aborted", UNCHANGED <<known, seedRow>>,
           UNCHANGED <<pipeQueue, seen, enqueued, found, refused>>
    PROVE  CollectedAll
<1>1. Accounted \subseteq Accounted'  BY BooksOpen
<1> QED  BY <1>1 DEF CollectedAll, EnrInv, EnrTypes, Control, Whereabouts

\* A stage of a round, but for its visits.
LEMMA RoundKeeps ==
    ASSUME EnrInv, batchStep = "find", phase \in {"round-graph", "round-web"}, CollectedAll,
           phase' \in {"round-web", "round-tls"}, StageKeeps, UNCHANGED <<processed, batch, batchStep>>,
           activeLeft' \in {"none", "some", "zero"}, zones' \in {"none", "walked", "late"},
           visited' \in [Stages -> SUBSET (Subdomains \cup {Domain})],
           \A t \in Stages : Cardinality(visited'[t]) <= HostLimit
    PROVE  EnrInv'
<1> USE DEF Handing, Resting
<1>1. EnrTypes'  BY DEF EnrInv, EnrTypes, CollectedAll, StageKeeps, config
<1>2. Control'  BY DEF CollectedAll, Control
<1>3. Whereabouts'
  <2>1. processed \subseteq Accounted  BY DEF EnrInv, Whereabouts
  <2>2. processed' \subseteq Accounted'  BY <2>1 DEF CollectedAll
  <2> QED  BY <2>2 DEF CollectedAll, Whereabouts, Gathering
<1>4. Claims'
  <2>1. \A h \in Subdomains : seedRow[h] # "processing"
    BY DEF EnrInv, Claims, Claimed
  <2> QED  BY <2>1 DEF Claims, StageKeeps
<1>5. Completed'  BY DEF Completed
<1>6. Visits'  BY DEF Visits, InPhase
<1> QED  BY <1>1, <1>2, <1>3, <1>4, <1>5, <1>6 DEF EnrInv

LEMMA RoundGraphKeeps == EnrInv /\ RoundGraph => EnrInv'
<1> SUFFICES ASSUME EnrInv, RoundGraph PROVE EnrInv'
  OBVIOUS
<1> USE DEF Stages
<1>1. /\ batchStep = "find" /\ phase = "round-graph" /\ phase' = "round-web" /\ StageKeeps
      /\ UNCHANGED <<activeLeft, webSpent, processed, batch, batchStep>>
  BY DEF RoundGraph, InPhase
<1>2. PICK v \in UpTo(NewHosts("graph"), Remaining("graph")) :
        IF "graph" \in options /\ v # {}
        THEN /\ Visit("graph", v)
             /\ \E names \in SUBSET Subdomains : Collect(names)
             /\ zones' \in {zones, "late"}
        ELSE UNCHANGED <<visited, zones, pipeQueue, seen, enqueued, found, refused>>
  BY DEF RoundGraph
<1>3. UNCHANGED <<known, seedRow>>  BY <1>1 DEF StageKeeps
<1>4. CASE "graph" \in options /\ v # {}
  <2>1. Visit("graph", v) /\ (\E names \in SUBSET Subdomains : Collect(names))
        /\ zones' \in {zones, "late"}
    BY <1>2, <1>4
  <2>2. CollectedAll  BY <1>1, <1>3, <2>1, CollectKeeps
  <2>3. NewHosts("graph") \in SUBSET (Subdomains \cup {Domain}) /\ Remaining("graph") \in Nat
    BY RoomLeft, StageTypes DEF NewHosts
  <2>4. v \in SUBSET (Subdomains \cup {Domain}) /\ Cardinality(v) <= Remaining("graph")
    BY <2>3, UpToWithin
  <2>5. /\ visited' \in [Stages -> SUBSET (Subdomains \cup {Domain})]
        /\ \A t \in Stages : Cardinality(visited'[t]) <= HostLimit
    BY <2>1, <2>4, VisitAdds, VisitWithin DEF EnrInv, Visits
  <2> QED  BY <1>1, <2>1, <2>2, <2>5, RoundKeeps, StageTypes
<1>5. CASE ~("graph" \in options /\ v # {})
  <2>1. UNCHANGED <<visited, zones, pipeQueue, seen, enqueued, found, refused>>  BY <1>2, <1>5
  <2>2. CollectedAll  BY <1>1, <1>3, <2>1, NothingCollected
  <2> QED  BY <1>1, <2>1, <2>2, RoundKeeps, StageTypes DEF EnrInv, Visits
<1> QED  BY <1>4, <1>5

LEMMA RoundWebKeeps == EnrInv /\ RoundWeb => EnrInv'
<1> SUFFICES ASSUME EnrInv, RoundWeb PROVE EnrInv'
  OBVIOUS
<1> USE DEF Stages
<1>1. /\ batchStep = "find" /\ phase = "round-web" /\ phase' = "round-tls" /\ StageKeeps
      /\ UNCHANGED <<activeLeft, zones, processed, batch, batchStep>>
  BY DEF RoundWeb, InPhase
<1>2. PICK v \in UpTo(NewHosts("web"), WebRoom) :
        IF v # {}
        THEN /\ Visit("web", v) /\ webSpent' \in {webSpent, TRUE}
             /\ \E names \in SUBSET Subdomains : Collect(names)
        ELSE UNCHANGED <<visited, webSpent, pipeQueue, seen, enqueued, found, refused>>
  BY DEF RoundWeb
<1>3. UNCHANGED <<known, seedRow>>  BY <1>1 DEF StageKeeps
<1>4. CASE v # {}
  <2>1. Visit("web", v) /\ \E names \in SUBSET Subdomains : Collect(names)
    BY <1>2, <1>4
  <2>2. CollectedAll  BY <1>1, <1>3, <2>1, CollectKeeps
  <2>3. /\ NewHosts("web") \in SUBSET (Subdomains \cup {Domain}) /\ Remaining("web") \in Nat
        /\ WebRoom \in Nat /\ WebRoom <= Remaining("web")
    BY RoomLeft, StageTypes DEF NewHosts, WebRoom
  <2>4. v \in SUBSET (Subdomains \cup {Domain}) /\ Cardinality(v) <= WebRoom
    BY <2>3, UpToWithin
  <2>5. Cardinality(v) <= Remaining("web")  BY <2>3, <2>4, HostsFinite
  <2>6. /\ visited' \in [Stages -> SUBSET (Subdomains \cup {Domain})]
        /\ \A t \in Stages : Cardinality(visited'[t]) <= HostLimit
    BY <2>1, <2>4, <2>5, VisitAdds, VisitWithin DEF EnrInv, Visits
  <2> QED  BY <1>1, <2>2, <2>6, RoundKeeps, StageTypes
<1>5. CASE v = {}
  <2>1. UNCHANGED <<visited, webSpent, pipeQueue, seen, enqueued, found, refused>>  BY <1>2, <1>5
  <2>2. CollectedAll  BY <1>1, <1>3, <2>1, NothingCollected
  <2> QED  BY <1>1, <2>1, <2>2, RoundKeeps, StageTypes DEF EnrInv, Visits
<1> QED  BY <1>4, <1>5

LEMMA RoundTlsKeeps == EnrInv /\ RoundTls => EnrInv'
<1> SUFFICES ASSUME EnrInv, RoundTls PROVE EnrInv'
  OBVIOUS
<1> USE DEF Stages, Handing
<1>1. /\ batchStep = "find" /\ phase = "round-tls" /\ StageKeeps
      /\ UNCHANGED <<activeLeft, webSpent, zones>>
  BY DEF RoundTls, InPhase
<1>2. PICK e \in UpTo(known \cup {Domain}, HostLimit), names \in SUBSET Subdomains :
      \E v \in UpTo(e \ visited["tls"], Remaining("tls")) :
        /\ IF "tls" \in options THEN Visit("tls", v) ELSE UNCHANGED visited
        /\ Hand(names, eventLimit, "late")
  BY DEF RoundTls
<1>3. PICK v \in UpTo(e \ visited["tls"], Remaining("tls")) :
        /\ IF "tls" \in options THEN Visit("tls", v) ELSE UNCHANGED visited
        /\ Hand(names, eventLimit, "late")
  BY <1>2
<1>4. HandedOver("late")  BY <1>1, <1>3, HandKeeps DEF StageKeeps
<1>5. Remaining("tls") \in Nat /\ e \ visited["tls"] \in SUBSET (Subdomains \cup {Domain})
  <2>1. HostLimit \in Nat  BY EnrichAssumption
  <2>2. e \subseteq known \cup {Domain}  BY <2>1, StageTypes, UpToWithin
  <2> QED  BY <2>2, StageTypes, RoomLeft
<1>6. v \in SUBSET (Subdomains \cup {Domain}) /\ Cardinality(v) <= Remaining("tls")
  BY <1>5, UpToWithin
<1>7. /\ visited' \in [Stages -> SUBSET (Subdomains \cup {Domain})]
      /\ \A t \in Stages : Cardinality(visited'[t]) <= HostLimit
  <2>1. CASE "tls" \in options
    BY <1>3, <1>6, <2>1, VisitAdds, VisitWithin DEF EnrInv, Visits
  <2>2. CASE "tls" \notin options
    BY <1>3, <2>2, StageTypes DEF EnrInv, Visits
  <2> QED  BY <2>1, <2>2
<1>8. Visits'  BY <1>1, <1>4, <1>7 DEF Visits, InPhase, HandedOver
<1> QED  BY <1>1, <1>4, <1>7, <1>8, HandoverKeeps, StageTypes

LEMMA LateNsecKeeps == EnrInv /\ LateNsec => EnrInv'
<1> SUFFICES ASSUME EnrInv, LateNsec PROVE EnrInv'
  OBVIOUS
<1> USE DEF Handing
<1>1. /\ batchStep = "find" /\ phase = "late" /\ StageKeeps
      /\ UNCHANGED <<activeLeft, webSpent, visited, zones>>
  BY DEF LateNsec, InPhase
<1>2. HandedOver("final")
  <2>1. ~Gathering /\ UNCHANGED <<known, seedRow>>  BY <1>1 DEF Gathering, StageKeeps
  <2> QED  BY <1>1, <2>1, HandKeeps, PassKeeps DEF LateNsec
<1>3. Visits'  BY <1>1, <1>2 DEF EnrInv, Visits, InPhase, HandedOver
<1> QED  BY <1>1, <1>2, <1>3, HandoverKeeps, StageTypes

-----------------------------------------------------------------------------
(* The batch.                                                              *)

\* Accounts in a batch, name by name.
LEMMA BooksKept ==
    ASSUME EnrInv, phase # "aborted", phase' # "aborted", ~Gathering,
           UNCHANGED <<pipe, found>>, Accounted \subseteq Accounted'
    PROVE  Whereabouts'
BY DEF EnrInv, Whereabouts, pipe

\* A batch is worked on in a phase that hands names over.
LEMMA BatchPhase ==
    ASSUME EnrInv, batchStep # "find"
    PROVE  /\ phase \in Handing /\ phase # "aborted" /\ phase # "completed" /\ ~Gathering
           /\ phase \in DOMAIN After \cup {"round-tls"}
           /\ \A p \in {"graph", "web", "tls"} : ~InPhase(p)
BY DEF EnrInv, Control, Handing, Gathering, After, InPhase

\* A batch step that stays in its phase leaves the visits alone.
LEMMA BatchRests ==
    ASSUME EnrInv, batchStep # "find", batchStep' # "find", BatchKeeps, UNCHANGED phase
    PROVE  Visits' /\ Control' /\ Completed'
<1>1. phase \in Handing /\ phase # "completed"  BY BatchPhase
<1>2. visited' = visited /\ pipeQueue' = pipeQueue /\ enqueued' = enqueued
  BY DEF BatchKeeps, pipe
<1>3. Visits'  BY <1>2 DEF EnrInv, Visits, InPhase
<1> QED  BY <1>1, <1>2, <1>3 DEF EnrInv, Control, Completed, Handing

\* So does one that ends the batch.
LEMMA ContinueKeeps ==
    ASSUME EnrInv, batchStep # "find", BatchKeeps, Continue
    PROVE  Visits' /\ Control' /\ Completed' /\ ~Gathering' /\ phase' # "aborted"
<1>1. phase \in DOMAIN After \cup {"round-tls"}  BY BatchPhase
<1>2. visited' = visited /\ pipeQueue' = pipeQueue /\ enqueued' = enqueued
  BY DEF BatchKeeps, pipe
<1>3. /\ batchStep' = "find"
      /\ IF phase = "round-tls" THEN phase' = "round-graph" ELSE phase' = After[phase]
  BY DEF Continue
<1>4. Visits'  BY <1>1, <1>2, <1>3 DEF EnrInv, Visits, InPhase, After
<1> QED  BY <1>1, <1>2, <1>3, <1>4
     DEF EnrInv, Control, Completed, Handing, Resting, After, Gathering

LEMMA PersistKeeps == EnrInv /\ Persist => EnrInv'
<1> SUFFICES ASSUME EnrInv, Persist PROVE EnrInv'
  OBVIOUS
<1>1. /\ batchStep = "persist" /\ batchStep' = "claim" /\ BatchKeeps
      /\ UNCHANGED <<activeLeft, phase, round, batch, outcome, known, tries>>
  BY DEF Persist
<1>2. PICK in \in SUBSET (batch \ Stored), out \in SUBSET Evictable :
        /\ seedRow' = [h \in Subdomains |-> IF h \in in THEN "queued" ELSE
                                            IF h \in out THEN "none" ELSE seedRow[h]]
        /\ refused' = (refused \cup (batch \ (Stored \cup in)) \cup out) \ in
  BY DEF Persist
<1>3. EnrTypes'
  BY <1>1, <1>2 DEF EnrInv, EnrTypes, BatchKeeps, pipe, config, Steps, Evictable
<1>4. Whereabouts'
  <2>1. Stored' = (Stored \ out) \cup in
    BY <1>2, <1>3 DEF EnrInv, EnrTypes, Stored, Evictable
  <2>2. out \subseteq Stored  BY DEF Stored, Evictable
  <2>3. Accounted \subseteq Accounted'
    BY <1>1, <1>2, <2>1, <2>2 DEF Accounted
  <2> QED  BY <1>1, <2>3, BatchPhase, BooksKept DEF BatchKeeps
<1>5. Claims'
  <2>1. \A h \in Subdomains : seedRow[h] # "processing"
    BY <1>1, BatchPhase DEF EnrInv, Claims, Claimed
  <2>2. \A h \in Subdomains : seedRow'[h] # "processing"  BY <1>2, <2>1
  <2> QED  BY <1>1, <2>2 DEF Claims
<1>6. Visits' /\ Control' /\ Completed'  BY <1>1, BatchRests
<1> QED  BY <1>3, <1>4, <1>5, <1>6 DEF EnrInv

LEMMA ClaimKeeps == EnrInv /\ Claim => EnrInv'
<1> SUFFICES ASSUME EnrInv, Claim PROVE EnrInv'
  OBVIOUS
<1>1. /\ batchStep = "claim" /\ BatchKeeps /\ UNCHANGED <<activeLeft, known, tries, refused>>
  BY DEF Claim
<1>2. \A h \in Subdomains : seedRow[h] # "processing"
  BY <1>1, BatchPhase DEF EnrInv, Claims, Claimed
<1>3. CASE Claimable = {}
  <2>1. Continue /\ UNCHANGED seedRow  BY <1>3 DEF Claim
  <2>2. Visits' /\ Control' /\ Completed' /\ ~Gathering' /\ phase' # "aborted"
    BY <1>1, <2>1, ContinueKeeps
  <2>3. EnrTypes'  BY <1>1, <2>1 DEF EnrInv, EnrTypes, BatchKeeps, pipe, config, Continue, Steps
  <2>4. Whereabouts'
    <3>1. Accounted \subseteq Accounted'  BY <1>1, <2>1 DEF Accounted, Stored, Continue
    <3> QED  BY <1>1, <2>2, <3>1, BatchPhase, BooksKept DEF BatchKeeps
  <2>5. Claims'  BY <1>2, <2>1 DEF Claims, Continue
  <2> QED  BY <2>2, <2>3, <2>4, <2>5 DEF EnrInv
<1>4. CASE Claimable # {}
  <2>1. PICK c \in UpTo(Claimable, Page) :
        /\ seedRow' = [h \in Subdomains |-> IF h \in c THEN "processing" ELSE seedRow[h]]
        /\ batch' = c /\ batchStep' = "resolve" /\ UNCHANGED <<phase, round, outcome>>
    BY <1>4 DEF Claim
  <2>2. c \subseteq Claimable /\ Claimable \subseteq batch /\ batch \subseteq Subdomains
    <3>1. Page \in Nat /\ Claimable \in SUBSET (Subdomains \cup {Domain})
      BY EnrichAssumption DEF EnrInv, EnrTypes, Claimable
    <3> QED  BY <3>1, UpToWithin DEF EnrInv, EnrTypes, Claimable
  <2>3. EnrTypes'
    BY <1>1, <2>1, <2>2 DEF EnrInv, EnrTypes, BatchKeeps, pipe, config, Steps
  <2>4. Whereabouts'
    <3>1. Accounted \subseteq Accounted'
      BY <1>1, <2>1, <2>2 DEF Accounted, Stored
    <3> QED  BY <1>1, <2>1, <3>1, BatchPhase, BooksKept DEF BatchKeeps
  <2>5. Claims'
    BY <1>1, <1>2, <2>1, <2>2 DEF Claims, Claimed, Claimable
  <2>6. Visits' /\ Control' /\ Completed'  BY <1>1, <2>1, BatchRests
  <2> QED  BY <2>3, <2>4, <2>5, <2>6 DEF EnrInv
<1> QED  BY <1>3, <1>4

LEMMA ResolveKeeps == EnrInv /\ Resolve => EnrInv'
<1> SUFFICES ASSUME EnrInv, Resolve PROVE EnrInv'
  OBVIOUS
<1>1. /\ batchStep = "resolve" /\ batchStep' = "settle" /\ BatchKeeps /\ activeLeft' \in Spendable
      /\ UNCHANGED <<phase, round, batch, known, seedRow, tries, refused>>
  BY DEF Resolve
<1>2. EnrTypes'
  BY <1>1 DEF EnrInv, EnrTypes, BatchKeeps, pipe, config, Steps, Spendable
<1>3. Whereabouts'
  <2>1. Accounted \subseteq Accounted'  BY <1>1 DEF Accounted, Stored
  <2> QED  BY <1>1, <2>1, BatchPhase, BooksKept DEF BatchKeeps
<1>4. Claims'  BY <1>1 DEF EnrInv, Claims, Claimed
<1>5. Visits' /\ Control' /\ Completed'  BY <1>1, BatchRests
<1> QED  BY <1>2, <1>3, <1>4, <1>5 DEF EnrInv

LEMMA ChargeKeeps == EnrInv /\ Charge => EnrInv'
<1> SUFFICES ASSUME EnrInv, Charge PROVE EnrInv'
  OBVIOUS
<1>1. /\ batchStep = "settle" /\ batchStep' = "requeue" /\ BatchKeeps
      /\ UNCHANGED <<activeLeft, phase, round, batch, outcome, known, refused>>
      /\ tries' = [h \in Subdomains |-> IF h \in batch /\ outcome[h] \in Sent
                                        THEN tries[h] + 1 ELSE tries[h]]
      /\ seedRow' = [h \in Subdomains |-> IF h \in batch /\ outcome[h] = "waits"
                                          THEN "queued" ELSE seedRow[h]]
  BY DEF Charge
<1>2. EnrTypes'
  <2>1. tries' \in [Subdomains -> 0..Tries]
    <3>1. \A h \in batch : tries[h] < Tries  BY <1>1 DEF EnrInv, Claims
    <3>2. Tries \in Nat  BY EnrichAssumption
    <3> QED  BY <1>1, <3>1, <3>2 DEF EnrInv, EnrTypes
  <2>2. seedRow' \in [Subdomains -> {"none", "queued", "processing", "done"}]
    BY <1>1 DEF EnrInv, EnrTypes
  <2> QED  BY <1>1, <2>1, <2>2 DEF EnrInv, EnrTypes, BatchKeeps, pipe, config, Steps
<1>3. Whereabouts'
  <2>1. Accounted \subseteq Accounted'  BY <1>1 DEF Accounted, Stored
  <2> QED  BY <1>1, <2>1, BatchPhase, BooksKept DEF BatchKeeps
<1>4. Claims'  BY <1>1, BatchPhase DEF EnrInv, Claims, Claimed
<1>5. Visits' /\ Control' /\ Completed'  BY <1>1, BatchRests
<1> QED  BY <1>2, <1>3, <1>4, <1>5 DEF EnrInv

LEMMA RequeueKeeps == EnrInv /\ Requeue => EnrInv'
<1> SUFFICES ASSUME EnrInv, Requeue PROVE EnrInv'
  OBVIOUS
<1>1. /\ batchStep = "requeue" /\ batchStep' = "done" /\ BatchKeeps
      /\ UNCHANGED <<activeLeft, phase, round, batch, outcome, known, tries, refused>>
      /\ seedRow' = [h \in Subdomains |-> IF h \in Left THEN "queued" ELSE seedRow[h]]
  BY DEF Requeue
<1>2. EnrTypes'
  BY <1>1 DEF EnrInv, EnrTypes, BatchKeeps, pipe, config, Steps
<1>3. Whereabouts'
  <2>1. Accounted \subseteq Accounted'  BY <1>1 DEF Accounted, Stored
  <2> QED  BY <1>1, <2>1, BatchPhase, BooksKept DEF BatchKeeps
<1>4. Claims'
  <2>1. Left' = Left  BY <1>1 DEF Left
  <2> QED  BY <1>1, <2>1, BatchPhase DEF EnrInv, Claims, Claimed
<1>5. Visits' /\ Control' /\ Completed'  BY <1>1, BatchRests
<1> QED  BY <1>2, <1>3, <1>4, <1>5 DEF EnrInv

LEMMA DoneKeeps == EnrInv /\ Done => EnrInv'
<1> SUFFICES ASSUME EnrInv, Done PROVE EnrInv'
  OBVIOUS
<1>1. /\ batchStep = "done" /\ BatchKeeps /\ Continue /\ UNCHANGED <<activeLeft, tries, refused>>
      /\ seedRow' = [h \in Subdomains |-> IF h \in batch \ Left THEN "done" ELSE seedRow[h]]
      /\ known' = known \cup {h \in batch : outcome[h] \in {"cached", "live"}}
  BY DEF Done
<1>2. EnrTypes'
  BY <1>1 DEF EnrInv, EnrTypes, BatchKeeps, pipe, config, Steps, Continue
<1>3. Visits' /\ Control' /\ Completed' /\ ~Gathering' /\ phase' # "aborted"
  BY <1>1, ContinueKeeps
<1>4. Whereabouts'
  <2>1. Accounted \subseteq Accounted'  BY <1>1 DEF Accounted, Stored, Continue
  <2> QED  BY <1>1, <1>3, <2>1, BatchPhase, BooksKept DEF BatchKeeps
<1>5. Claims'
  <2>1. \A h \in Subdomains : seedRow'[h] # "processing"
    BY <1>1, BatchPhase DEF EnrInv, Claims
  <2> QED  BY <1>1, <2>1 DEF Claims, Continue
<1> QED  BY <1>2, <1>3, <1>4, <1>5 DEF EnrInv

-----------------------------------------------------------------------------
(* The end of a run.                                                       *)

LEMMA FinalizeKeeps == EnrInv /\ Finalize => EnrInv'
<1> SUFFICES ASSUME EnrInv, Finalize PROVE EnrInv'
  OBVIOUS
<1>1. /\ batchStep = "find" /\ phase = "final" /\ phase' \in {"partial", "completed"}
      /\ phase' = "completed" => SeedsPending = {}
      /\ UNCHANGED <<config, activeLeft, webSpent, round, pipe, batch, batchStep, outcome, known,
                     visited, zones, seedVars, found, refused, aborts>>
  BY DEF Finalize, InPhase
<1>2. EnrTypes'  BY <1>1 DEF EnrInv, EnrTypes, config, pipe, seedVars
<1>3. Control'  BY <1>1 DEF EnrInv, Control, Resting, pipe
<1>4. Whereabouts'
  <2>1. Accounted' = Accounted  BY <1>1 DEF Accounted, Stored, seedVars
  <2> QED  BY <1>1, <2>1 DEF EnrInv, Whereabouts, Gathering, pipe
<1>5. \A h \in Subdomains : seedRow[h] # "processing"
  BY <1>1 DEF EnrInv, Claims, Claimed
<1>6. Claims'  BY <1>1, <1>5 DEF Claims, seedVars
<1>7. Visits'  BY <1>1 DEF EnrInv, Visits, InPhase
<1>8. Completed'
  <2>1. Tries \in Nat /\ \A h \in Subdomains : tries[h] \in Nat
    BY EnrichAssumption DEF EnrInv, EnrTypes
  <2> QED  BY <1>1, <1>5, <2>1 DEF Completed, SeedsPending, seedVars
<1> QED  BY <1>2, <1>3, <1>4, <1>6, <1>7, <1>8 DEF EnrInv

LEMMA AbortKeeps == EnrInv /\ Abort => EnrInv'
<1> SUFFICES ASSUME EnrInv, Abort PROVE EnrInv'
  OBVIOUS
<1>1. /\ aborts < MaxAborts /\ aborts' = aborts + 1 /\ phase' = "aborted"
      /\ batchStep' = "find" /\ batch' = {}
      /\ UNCHANGED <<config, activeLeft, webSpent, round, pipe, known, visited, zones, seedVars,
                     found, refused>>
  BY DEF Abort
<1>2. EnrTypes'
  BY <1>1, EnrichAssumption DEF EnrInv, EnrTypes, config, pipe, seedVars, Steps
<1>3. Control'  BY <1>1 DEF EnrInv, Control, Resting, pipe
<1> QED  BY <1>1, <1>2, <1>3
     DEF EnrInv, Whereabouts, Claims, Visits, Completed, InPhase

LEMMA RestartKeeps == EnrInv /\ Restart => EnrInv'
<1> SUFFICES ASSUME EnrInv, Restart PROVE EnrInv'
  OBVIOUS
<1>1. /\ Entry /\ activeLeft' \in {"none", "some"} /\ UNCHANGED <<config, tries, aborts>>
      /\ seedRow' = [h \in Subdomains |-> IF seedRow[h] = "processing" THEN "queued"
                                          ELSE seedRow[h]]
  BY DEF Restart
<1>2. /\ known' \in SUBSET Subdomains /\ seen' = known' /\ processed' = known'
      /\ phase' = "graph" /\ batchStep' = "find" /\ pipeQueue' = {} /\ enqueued' = 0
      /\ batch' = {} /\ visited' = NotVisited /\ zones' = "none" /\ found' = {} /\ refused' = {}
  BY <1>1 DEF Entry
<1>3. EnrTypes'
  <2>1. visited' \in [Stages -> SUBSET (Subdomains \cup {Domain})]
    BY <1>2 DEF NotVisited, Stages
  <2>2. seedRow' \in [Subdomains -> {"none", "queued", "processing", "done"}]
    BY <1>1 DEF EnrInv, EnrTypes
  <2> QED  BY <1>1, <1>2, <2>1, <2>2 DEF EnrInv, EnrTypes, config, Steps
<1>4. Control'  BY <1>2, FS_EmptySet DEF Control, Handing
<1>5. Whereabouts'  BY <1>2 DEF Whereabouts, Accounted
<1>6. Claims'  BY <1>1, <1>2 DEF Claims
<1>7. Visits'
  BY <1>2, FS_EmptySet, EnrichAssumption DEF Visits, NotVisited, Stages, InPhase
<1>8. Completed'  BY <1>2 DEF Completed
<1> QED  BY <1>3, <1>4, <1>5, <1>6, <1>7, <1>8 DEF EnrInv

-----------------------------------------------------------------------------
(* The theorems.                                                           *)

LEMMA EnrInitInv == EnrInit => EnrInv
<1> SUFFICES ASSUME EnrInit PROVE EnrInv
  OBVIOUS
<1> USE DEF EnrInit
<1>1. EnrTypes
  <2>1. eventLimit \in Nat /\ cap \in Nat /\ Tries \in Nat /\ MaxAborts \in Nat
    BY EnrichAssumption
  <2>2. visited \in [Stages -> SUBSET (Subdomains \cup {Domain})]  BY DEF NotVisited, Stages
  <2> QED  BY <2>1, <2>2 DEF EnrTypes, Steps
<1>2. Control  BY FS_EmptySet DEF Control, Handing
<1>3. Whereabouts  BY DEF Whereabouts, Accounted
<1>4. Claims  BY DEF Claims
<1>5. Visits  BY FS_EmptySet, EnrichAssumption DEF Visits, NotVisited, Stages, InPhase
<1>6. Completed  BY DEF Completed
<1> QED  BY <1>1, <1>2, <1>3, <1>4, <1>5, <1>6 DEF EnrInv

LEMMA EnrStutter == EnrInv /\ UNCHANGED enrVars => EnrInv'
<1> SUFFICES ASSUME EnrInv, UNCHANGED enrVars PROVE EnrInv'
  OBVIOUS
<1> USE DEF enrVars
<1>1. Accounted' = Accounted /\ Gathering' = Gathering /\ Left' = Left
  BY DEF Accounted, Stored, Gathering, Left
<1>2. EnrTypes' /\ Control'  BY DEF EnrInv, EnrTypes, Control
<1>3. Whereabouts' /\ Claims'  BY <1>1 DEF EnrInv, Whereabouts, Claims
<1>4. Visits' /\ Completed'  BY DEF EnrInv, Visits, Completed, InPhase
<1> QED  BY <1>2, <1>3, <1>4 DEF EnrInv

LEMMA EnrStep == EnrInv /\ [EnrNext]_enrVars => EnrInv'
BY SkipPhaseKeeps, GraphKeeps, PtrKeeps, InternetDbKeeps, PassiveZonesKeeps, NsecKeeps,
   MetadataKeeps, WebKeeps, TlsKeeps, RoundsOverKeeps, RoundGraphKeeps, RoundWebKeeps,
   RoundTlsKeeps, LateNsecKeeps, PersistKeeps, ClaimKeeps, ResolveKeeps, ChargeKeeps,
   RequeueKeeps, DoneKeeps, FinalizeKeeps, AbortKeeps, RestartKeeps, EnrStutter
   DEF EnrNext

LEMMA EnrInvariant == EnrSpec => []EnrInv
BY EnrInitInv, EnrStep, PTL DEF EnrSpec

\* Sets of hosts, rows, attempts and limits of the enrichment keep their types (Charge never
\* takes a seed past its attempts, enqueue never past the event limit).
THEOREM EnrichmentTyped == EnrSpec => []EnrTypeOK
<1>1. EnrInv => EnrTypeOK
  <2> SUFFICES ASSUME EnrInv PROVE EnrTypeOK
    OBVIOUS
  <2>1. DOMAIN visited = Stages  BY DEF EnrInv, EnrTypes
  <2> QED  BY <2>1 DEF EnrInv, EnrTypes, EnrTypeOK
<1> QED  BY <1>1, EnrInvariant, PTL

\* EnrichKept: what the phases of scanner/enrichment found is answered, a seed, or refused by a
\* limit when the run ends; a completed scan has no seed left to try; no stage, in all its
\* rounds, visits more hosts than its limit.
THEOREM EnrichmentKeeps == EnrSpec => []EnrichKept
<1>1. EnrInv => EnrichKept
  <2> SUFFICES ASSUME EnrInv PROVE EnrichKept
    OBVIOUS
  <2>1. ASSUME phase \in {"partial", "completed"}, NEW h \in found
        PROVE  h \in known \cup refused \/ seedRow[h] # "none"
    <3>1. batchStep = "find" /\ ~Gathering
      BY <2>1 DEF EnrInv, Control, Handing, Gathering
    <3>2. h \in Accounted  BY <2>1, <3>1 DEF EnrInv, Whereabouts
    <3> QED  BY <3>1, <3>2 DEF Accounted, Stored
  <2>2. \A s \in DOMAIN visited : Cardinality(visited[s]) <= HostLimit
    BY DEF EnrInv, EnrTypes, Visits
  <2> QED  BY <2>1, <2>2 DEF EnrInv, Completed, EnrichKept
<1> QED  BY <1>1, EnrInvariant, PTL
=============================================================================

---------------------------- MODULE PagedSources ----------------------------
(***************************************************************************)
(* The passive connectors (passive/extra.rs, keyed_sources.rs,             *)
(* public_sources.rs, providers.rs): one fetch of one connector.  Each is  *)
(* a loop of requests, and they differ in how a provider announces that    *)
(* more follows, in what a page is checked for and when, and in what a     *)
(* failure stops.  A record per connector says which; the loop is one.     *)
(*                                                                         *)
(* commit_result_page hands the names of a page to the observation writer  *)
(* at once, so they outlive the connector's error or its deadline.  A page *)
(* of lane e is the pair <<e, i>>; a row stands for the rows of a page.    *)
(***************************************************************************)
EXTENDS Integers, FiniteSets

CONSTANTS
    PagedLimit,    \* bound: the page limit of a connector (10, 25, 50, 100 or 1000)
    MaxListing,   \* bound: pages a provider has in a lane
    ShortListing, \* bound: pages it has in every lane but one
    Abreast       \* bound: time windows of Wayback (4), yearly indexes of Common Crawl

ASSUME PagedAssumption ==
    PagedLimit \in Nat \ {0, 1} /\ {MaxListing, ShortListing} \subseteq Nat /\ Abreast \in Nat \ {0}

-----------------------------------------------------------------------------
(* The connectors.                                                         *)

\* One request, one answer.  more: what announces another page; at "first" the
\* count of the first page decides.  lanes: endpoints, one after the other or
\* any order; spare: a failed lane does not stop the others.  check: the page is
\* checked before its names are committed.  repeat: which repetitions are errors.
\* hollow: an empty page although more follows.  over: more rows than announced
\* is an error; stable: so is another total; short: so is an early end.  late:
\* the end is only seen at the next turn.  extra: a page may lose a download.
Single == [more |-> "none", pages |-> 1, lanes |-> 1, any |-> FALSE, spare |-> FALSE,
           fallback |-> "no", echo |-> FALSE, check |-> FALSE, repeat |-> "no", hollow |-> "go",
           over |-> FALSE, stable |-> FALSE, short |-> FALSE, late |-> FALSE, extra |-> FALSE]
Paged == [Single EXCEPT !.pages = PagedLimit]
Counted == [Single EXCEPT !.more = "count", !.check = TRUE, !.over = TRUE]

\* extra.rs
Bevigil == Single
BuiltWith == Single
Leakix == Single
CertificateDetails == Single
SubdomainCenter == Single
Chaos == Counted
Brave == [Paged EXCEPT !.more = "flag", !.hollow = "error"]
CensysPlatform == [Paged EXCEPT !.more = "cursor", !.repeat = "all", !.lanes = 2, !.fallback = "first"]
FullHunt == [Counted EXCEPT !.lanes = 2, !.any = TRUE, !.spare = TRUE]
Driftnet == [Single EXCEPT !.lanes = 4, !.any = TRUE, !.spare = TRUE, !.extra = TRUE]
Github == [Paged EXCEPT !.more = "cursor", !.repeat = "visited", !.late = TRUE, !.extra = TRUE]
Gitlab == [Paged EXCEPT !.more = "cursor", !.repeat = "visited", !.late = TRUE, !.extra = TRUE]
Intelx == [Paged EXCEPT !.more = "flag"]
Merklemap == [Paged EXCEPT !.more = "count", !.over = TRUE, !.hollow = "error"]
Otx == [Paged EXCEPT !.more = "flag", !.echo = TRUE, !.check = TRUE, !.repeat = "page",
                     !.hollow = "error", !.short = TRUE]
Postman == [Paged EXCEPT !.more = "cursor", !.check = TRUE, !.repeat = "both", !.hollow = "error",
                         !.over = TRUE, !.stable = TRUE, !.short = TRUE]
Shodan == [Paged EXCEPT !.more = "flag"]
\* keyed_sources.rs
BufferOver == Single
C99 == Single
Chinaz == Single
DigitalYama == Single
DnsRepo == Single
DomainsProject == Single
Fofa == Counted
PugRecon == [Single EXCEPT !.more = "flagcount"]
ThreatBook == Counted
DnsDb == [Paged EXCEPT !.more = "flag", !.hollow = "error"]
DnsDumpster == [Paged EXCEPT !.more = "full", !.repeat = "page", !.hollow = "error"]
Onyphe == [Paged EXCEPT !.more = "pages", !.lanes = 2, !.echo = TRUE, !.hollow = "end"]
Quake == [Paged EXCEPT !.more = "pages", !.hollow = "end"]
RedHunt == [Paged EXCEPT !.more = "pages", !.echo = TRUE, !.hollow = "error"]
RseCloud == [Paged EXCEPT !.more = "pages", !.lanes = 2, !.echo = TRUE, !.hollow = "error"]
Windvane == [Paged EXCEPT !.more = "pages", !.hollow = "error"]
ZoomEye == [Paged EXCEPT !.more = "pages", !.hollow = "error"]
\* public_sources.rs
Anubis == Single
ShodanCt == Single
HudsonRock == Single
ThreatCrowd == Single
Reconeer == Single
ReconCloud == Single
Riddler == Single
ThreatMiner == Single
Thc == [Paged EXCEPT !.more = "cursor", !.repeat = "all"]
RapidDns == [Paged EXCEPT !.more = "first"]
SiteDossier == [Paged EXCEPT !.more = "cursor", !.repeat = "visited"]
\* providers.rs
AnubisDb == Single
SubdomainApp == Single
HackerTarget == Single
CertSpotter == [Paged EXCEPT !.more = "rows", !.check = TRUE, !.repeat = "last"]
Urlscan == [Paged EXCEPT !.more = "flagcursor", !.repeat = "last"]
VirusTotal == [Paged EXCEPT !.more = "cursor", !.repeat = "visited"]
WhoisXml == [Paged EXCEPT !.more = "cursor", !.repeat = "last"]
SecurityTrails == [Paged EXCEPT !.more = "cursor", !.repeat = "all", !.lanes = 2, !.fallback = "denied"]
CrtSh == [Single EXCEPT !.lanes = 2, !.fallback = "any"]
Wayback == [Paged EXCEPT !.more = "cursor", !.repeat = "all", !.lanes = 1 + Abreast, !.any = TRUE,
                         !.spare = TRUE, !.fallback = "any"]
CommonCrawl == [Paged EXCEPT !.more = "rows", !.lanes = Abreast, !.any = TRUE, !.spare = TRUE]

-----------------------------------------------------------------------------

Sources ==
    {Bevigil, BuiltWith, Leakix, CertificateDetails, SubdomainCenter, Chaos, Brave, CensysPlatform,
     FullHunt, Driftnet, Github, Gitlab, Intelx, Merklemap, Otx, Postman, Shodan, BufferOver, C99,
     Chinaz, DigitalYama, DnsRepo, DomainsProject, Fofa, PugRecon, ThreatBook, DnsDb, DnsDumpster,
     Onyphe, Quake, RedHunt, RseCloud, Windvane, ZoomEye, Anubis, ShodanCt, HudsonRock,
     ThreatCrowd, Reconeer, ReconCloud, Riddler, ThreatMiner, Thc, RapidDns, SiteDossier, AnubisDb,
     SubdomainApp, HackerTarget, CertSpotter, Urlscan, VirusTotal, WhoisXml, SecurityTrails, CrtSh,
     Wayback, CommonCrawl}

-----------------------------------------------------------------------------
VARIABLES
    conn,      \* the connector that runs
    manner,    \* the provider: "honest", "lossy" (pages may come empty), or "wild" in its last lane
    listing,   \* how many pages the provider has in each lane
    laneOf,    \* what the connector knows of each lane
    kept,      \* pages whose names were handed to the writer
    accepted,  \* history: pages the connector took as valid
    failed,    \* history: a request failed or a download was lost
    again,     \* history: a continuation was followed that had been followed before
    stuck,     \* history: one was followed right after itself
    out        \* "run", "ok", "error", or "cut" by the deadline

pagedVars == <<conn, manner, listing, laneOf, kept, accepted, failed, again, stuck, out>>

Lanes == 1..conn.lanes
Bad == {"failed", "denied"}
\* The fallback of SecurityTrails is one request that has everything.
Fresh(e) == [st |-> "open", n |-> 0, at |-> 1, seen |-> {}, ids |-> {}, rows |-> 0, tot |-> -1,
             flaw |-> FALSE, solo |-> conn.fallback = "denied" /\ e > 1]

PagedInit ==
    /\ conn \in Sources
    /\ manner \in {"honest", "lossy", "wild"}
    /\ listing \in [Lanes -> 0..(IF conn.more = "none" THEN 1 ELSE MaxListing)]
    /\ ~\E d, e \in Lanes : d # e /\ listing[d] > ShortListing /\ listing[e] > ShortListing
    /\ conn.fallback = "denied" => listing[2] <= 1
    /\ manner = "wild" => \A e \in Lanes : listing[e] = 0
    /\ laneOf = [e \in Lanes |-> Fresh(e)]
    /\ kept = {} /\ accepted = {} /\ failed = FALSE /\ again = FALSE /\ stuck = FALSE
    /\ out = "run"

-----------------------------------------------------------------------------
(* Providers.                                                              *)

\* Pages follow each other by a cursor, or else by their numbers.
Cursored == conn.more \in {"cursor", "flagcursor"} \/ conn.repeat = "last"
Numbered == conn.more \in {"count", "pages", "first", "full", "flagcount"}
                \/ conn.over \/ conn.stable \/ conn.short
Flagged == conn.more \in {"flag", "flagcursor", "flagcount"}

\* The answer of a provider that keeps to its protocol.
Truth(e) ==
    LET p == laneOf[e].at
        more == p < listing[e] IN
    [page |-> laneOf[e].n + 1, id |-> p, recs |-> IF p <= listing[e] THEN 1 ELSE 0, more |-> more,
     next |-> IF Cursored /\ (more \/ (conn.more = "rows" /\ p <= listing[e])) THEN p + 1 ELSE 0,
     total |-> listing[e], full |-> more, gone |-> FALSE, flaw |-> FALSE]

\* The last page may be full; Common Crawl may say "not found" past the end.
HonestAnswers(e) ==
    {[Truth(e) EXCEPT !.full = f, !.gone = g, !.flaw = w] :
        f \in {Truth(e).full, conn.more = "full" /\ laneOf[e].at = listing[e]},
        g \in {FALSE, conn.more = "rows" /\ conn.spare /\ laneOf[e].at > listing[e]},
        w \in {FALSE, conn.extra}}

LossyAnswers(e) == HonestAnswers(e) \cup {[r EXCEPT !.recs = 0, !.full = FALSE] : r \in HonestAnswers(e)}

WildAnswers(e) ==
    {r \in [page : {laneOf[e].n + 1, IF conn.echo THEN laneOf[e].n + 2 ELSE laneOf[e].n + 1},
            id : 1..(IF conn.repeat \in {"page", "both"} THEN 2 ELSE 1), recs : 0..1,
            more : {FALSE, Flagged}, next : IF Cursored THEN 0..PagedLimit ELSE {0},
            total : IF Numbered THEN 0..(PagedLimit + 1) ELSE {0},
            full : {FALSE, conn.more = "full"}, gone : {FALSE}, flaw : {FALSE}] :
        r.full => r.recs = 1}

PageAnswers(e) ==
    CASE manner = "honest" -> HonestAnswers(e)
      [] manner = "lossy" -> LossyAnswers(e)
      [] manner = "wild" -> IF e = conn.lanes THEN WildAnswers(e) ELSE HonestAnswers(e)

-----------------------------------------------------------------------------
(* The connector.                                                          *)

\* The answer says that more follows.
More(l, r) ==
    CASE conn.more = "none" \/ l.solo -> FALSE
      [] conn.more \in {"flag", "flagcursor"} -> r.more
      [] conn.more = "cursor" /\ ~l.solo -> r.next # 0
      [] conn.more = "count" -> l.rows + r.recs < r.total
      [] conn.more = "flagcount" -> r.more /\ l.rows + r.recs < r.total
      [] conn.more = "pages" -> l.n + 1 < r.total
      [] conn.more = "first" -> l.n + 1 < (IF l.n = 0 THEN r.total ELSE l.tot)
      [] conn.more = "full" -> l.rows + r.recs < r.total \/ r.full
      [] conn.more = "rows" -> r.recs # 0

\* Mutant: a continuation is remembered one turn too late
CursorRepeatedLate(l, r) == conn.repeat # "no" /\ l.n > 0 /\ r.next \in l.seen \ {l.at}

\* A continuation that was followed before, as far as the connector remembers.
CursorRepeated(l, r) ==
    CASE conn.repeat \in {"all", "both"} -> r.next \in l.seen
      [] conn.repeat = "visited" -> r.next \in l.seen \cup {1}
      [] conn.repeat = "last" -> l.n > 0 /\ r.next = l.at
      [] OTHER -> FALSE

\* A page of other numbers, or one that came before.
Foreign(l, r) ==
    \/ conn.echo /\ r.page # l.n + 1
    \/ conn.repeat \in {"page", "both"} /\ r.recs # 0 /\ r.id \in l.ids

\* A page that contradicts itself or the pages before it.
Inconsistent(l, r) ==
    \/ conn.over /\ l.rows + r.recs > r.total
    \/ conn.stable /\ l.tot >= 0 /\ r.total # l.tot
    \/ conn.hollow = "error" /\ r.recs = 0 /\ More(l, r)
    \/ conn.more = "first" /\ l.n = 0 /\ r.total > conn.pages
    \/ Cursored /\ More(l, r) /\ (r.next = 0 \/ CursorRepeated(l, r))

Refused(l, r) == Foreign(l, r) \/ (conn.check /\ Inconsistent(l, r))
AtPageLimit(l) == l.n + 1 >= conn.pages

\* Nothing follows; some connectors see it only at their next turn.
Ends(l, r) ==
    /\ ~More(l, r) \/ (conn.hollow = "end" /\ r.recs = 0)
    /\ ~(conn.late /\ AtPageLimit(l))

Tallied(l, r) ==
    [l EXCEPT !.n = l.n + 1, !.rows = l.rows + r.recs, !.flaw = l.flaw \/ r.flaw,
              !.tot = IF l.n = 0 \/ conn.more # "first" THEN r.total ELSE l.tot,
              !.ids = IF r.recs = 0 THEN @ ELSE @ \cup {r.id}]

\* The lane after an answer that was not refused.
Judged(l, r) ==
    LET m == Tallied(l, r) IN
    IF Inconsistent(l, r) THEN [m EXCEPT !.st = "failed"]
    ELSE IF Ends(l, r)
         THEN [m EXCEPT !.st = IF m.flaw \/ (conn.short /\ m.tot > m.rows) THEN "failed" ELSE "done"]
    ELSE IF AtPageLimit(l) THEN [m EXCEPT !.st = "failed"]
    ELSE [m EXCEPT !.at = IF Cursored THEN r.next ELSE m.n + 1, !.seen = @ \cup {r.next}]

\* The lanes the result rests on: those of the fallback once the first has failed.
Falls(l) ==
    \/ conn.fallback = "any" /\ l.st \in Bad
    \/ conn.fallback = "denied" /\ l.st = "denied"
    \/ conn.fallback = "first" /\ l.st = "denied" /\ l.n = 0

Needed(ls) ==
    IF conn.fallback = "no" THEN Lanes ELSE IF Falls(ls[1]) THEN Lanes \ {1} ELSE {1}

LaneOutcome(ls) ==
    LET ends == {ls[e].st : e \in Needed(ls)} IN
    IF ends \cap Bad # {} /\ (~conn.spare \/ "open" \notin ends) THEN "error"
    ELSE IF "open" \in ends THEN "run"
    ELSE IF ends = {"gone"} THEN "error" ELSE "ok"

\* The lanes whose turn it is.
Ready(e) ==
    /\ out = "run" /\ laneOf[e].st = "open" /\ e \in Needed(laneOf)
    /\ conn.any \/ \A d \in Needed(laneOf) : d < e => laneOf[d].st # "open"

Settle(e, l) ==
    /\ laneOf' = [laneOf EXCEPT ![e] = l]
    /\ out' = LaneOutcome(laneOf')
    /\ UNCHANGED <<conn, manner, listing>>

\* Names reach the writer with their page.
Commit(e, r) == kept' = IF r.recs = 0 THEN kept ELSE kept \cup {<<e, r.id>>}

\* A page is refused before its names are committed.
Refuse(e) ==
    /\ Ready(e)
    /\ \E r \in PageAnswers(e) :
        /\ ~r.gone /\ Refused(laneOf[e], r)
        /\ Settle(e, [laneOf[e] EXCEPT !.st = "failed"])
    /\ UNCHANGED <<kept, accepted, failed, again, stuck>>

\* The index is not there: no answer, and no failure either.
Gone(e) ==
    /\ Ready(e)
    /\ \E r \in PageAnswers(e) : r.gone
    /\ Settle(e, [laneOf[e] EXCEPT !.st = IF laneOf[e].n = 0 THEN "gone" ELSE "done"])
    /\ UNCHANGED <<kept, accepted, failed, again, stuck>>

\* A page is committed, then judged.
Accept(e) ==
    /\ Ready(e)
    /\ \E r \in PageAnswers(e) :
        LET l == laneOf[e]
            m == Judged(l, r) IN
        /\ ~r.gone /\ ~Refused(l, r)
        /\ Commit(e, r)
        /\ Settle(e, m)
        /\ accepted' = IF r.recs = 0 \/ Inconsistent(l, r) THEN accepted ELSE accepted \cup {<<e, r.id>>}
        /\ failed' = (failed \/ r.flaw)
        /\ again' = (again \/ (Cursored /\ m.st = "open" /\ r.next \in l.seen))
        /\ stuck' = (stuck \/ (Cursored /\ m.st = "open" /\ l.n > 0 /\ r.next = l.at))

\* A request fails for good: transport, status, schema, size; or is denied.
Fail(e) ==
    /\ Ready(e)
    /\ \E k \in Bad : Settle(e, [laneOf[e] EXCEPT !.st = k])
    /\ failed' = TRUE
    /\ UNCHANGED <<kept, accepted, again, stuck>>

\* The source's deadline drops the connector while it waits.
Cut ==
    /\ out = "run"
    /\ out' = "cut"
    /\ UNCHANGED <<conn, manner, listing, laneOf, kept, accepted, failed, again, stuck>>

PagedNext == Cut \/ \E e \in Lanes : Refuse(e) \/ Gone(e) \/ Accept(e) \/ Fail(e)

PagedSpec == PagedInit /\ [][PagedNext]_pagedVars

-----------------------------------------------------------------------------
(* Properties.                                                             *)

PagedTypeOK ==
    /\ conn \in Sources /\ manner \in {"honest", "lossy", "wild"} /\ listing \in [Lanes -> Nat]
    /\ \A e \in Lanes :
        /\ laneOf[e].st \in {"open", "done", "failed", "denied", "gone"}
        /\ laneOf[e].n \in 0..conn.pages /\ laneOf[e].rows \in 0..laneOf[e].n
    /\ kept \subseteq Lanes \X Nat /\ accepted \subseteq Lanes \X Nat
    /\ {failed, again, stuck} \subseteq BOOLEAN /\ out \in {"run", "ok", "error", "cut"}

Missing(e, last) == {i \in 1..last : <<e, i>> \notin kept}

\* A connector reports success only with the whole listing; where pages come
\* empty, those that check for it see every hole, or all but a lost last page.
WholeWhenOk ==
    out = "ok" =>
        \A e \in Needed(laneOf) : laneOf[e].st = "done" =>
            /\ manner = "honest" => Missing(e, listing[e]) = {}
            /\ manner = "lossy" /\ conn.hollow = "error" => Missing(e, listing[e] - 1) = {}
            /\ manner = "lossy" /\ (conn.short \/ conn.more \in {"count", "full"})
                => Missing(e, listing[e]) = {}

\* Where the end is only known from one more page than the limit allows.
EndUnseen == conn.late \/ conn.more \in {"rows", "full"}

\* A provider that keeps to its protocol and answers every request is reported
\* as failed only when it has more pages than the connector will read, or when no
\* Common Crawl index knows the domain.
NoFalseAlarm ==
    out = "error" /\ manner = "honest" /\ ~failed =>
        \/ \E e \in Lanes : listing[e] > conn.pages \/ (EndUnseen /\ listing[e] >= conn.pages)
        \/ \A e \in Lanes : laneOf[e].st = "gone"

\* Whatever the provider sends, a connector that remembers its continuations
\* follows none twice, and one that remembers the last never follows it again.
NoRefetch ==
    /\ conn.repeat \in {"all", "both", "visited"} => ~again
    /\ conn.repeat # "no" /\ Cursored => ~stuck

\* Error, deadline or failure of another lane: every page taken is kept.
PagesKept == accepted \subseteq kept

=============================================================================

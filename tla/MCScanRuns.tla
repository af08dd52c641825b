----------------------------- MODULE MCScanRuns -----------------------------
(***************************************************************************)
(* One instance for what two processes of one domain share: the leases of  *)
(* its scans, and the feeds of words that fill the queue of a scan.  Feeds *)
(* models tables of its own, so a behaviour is one of one part, and the    *)
(* other rests.                                                            *)
(***************************************************************************)
EXTENDS MCScanLifecycle, Feeds

CONSTANTS n1, c1, g1  \* names of the word feeds

VARIABLE part

parts == <<vars, feedVars>>
allVars == <<part, parts>>

\* A name of the user's wordlist, one of its own, a generated one.
CorpusWords == <<n1, c1, g1>>

-----------------------------------------------------------------------------
(* Where the part that does not run stands.                                *)

\* No scan, for long enough that the clock changes nothing.
ScansRest ==
    /\ scan = [i \in Scans |-> [st |-> "none", kind |-> "scan", age |-> Lease + 1]]
    /\ ckpt = [i \in Scans |-> [st |-> "none", age |-> Lease + 1]]
    /\ learned = {} /\ rows = [i \in Scans |-> {}]
    /\ staged = {} /\ matched = {} /\ quarantined = {} /\ top = 0
    /\ pr = [p \in Procs |-> Idle]

FeedRests ==
    /\ file = <<>> /\ generate = FALSE /\ seeds = {} /\ maxWords = 1 /\ FeedInit

-----------------------------------------------------------------------------
Parts == {"scans", "feeds"}

MCInit ==
    /\ part \in Parts
    /\ IF part = "scans" THEN Init ELSE ScansRest
    /\ IF part = "feeds" THEN FeedInit ELSE FeedRests

MCNext ==
    /\ UNCHANGED part
    /\ \/ part = "scans" /\ Next /\ UNCHANGED feedVars
       \/ part = "feeds" /\ FeedNext /\ UNCHANGED vars
       \/ part = "feeds" /\ Tick /\ UNCHANGED feedVars

MCSpec == MCInit /\ [][MCNext]_allVars

-----------------------------------------------------------------------------
(* Properties.                                                             *)

\* Every variable keeps its type.
TypesOK == TypeOK /\ FeedTypeOK
=============================================================================

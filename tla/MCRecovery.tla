----------------------------- MODULE MCRecovery -----------------------------
(***************************************************************************)
(* One instance for what must come to an end or come back: the runs of a   *)
(* scan with its queues, the lease of a scan that was lost, the recursion  *)
(* and its resumption, and the limits of the network governor.  They share *)
(* no state that these modules model, so a behaviour is one of one part,   *)
(* and the others rest where no fair step is left to them.                 *)
(***************************************************************************)
EXTENDS MCCandidateQueue, NetworkGovernor, Recursion

CONSTANTS
    Crews,           \* processes that run and lose scans
    MaxScan, Lease, Beat

VARIABLES
    part,
    scan, learned, ckpt, left, staged, matched, quarantined, top, pr

L == INSTANCE ScanLifecycle WITH Procs <- Crews, rows <- left

lifeVars == <<scan, learned, ckpt, left, staged, matched, quarantined, top, pr>>
parts == <<vars, lifeVars, govVars, recVars>>
allVars == <<part, parts>>

-----------------------------------------------------------------------------
(* Where the parts that do not run stand.                                  *)

\* No scan, for long enough that the clock changes nothing.
LifeRests ==
    /\ scan = [i \in 1..MaxScan |-> [st |-> "none", kind |-> "scan", age |-> Lease + 1]]
    /\ ckpt = [i \in 1..MaxScan |-> [st |-> "none", age |-> Lease + 1]]
    /\ learned = {} /\ left = [i \in 1..MaxScan |-> {}]
    /\ staged = {} /\ matched = {} /\ quarantined = {} /\ top = 0
    /\ pr = [p \in Crews |-> L!Idle]

\* Fixed limits, which nothing observes.
GovRests ==
    /\ mode = "fixed" /\ max_rate = 9 /\ max_concurrency = 12
    /\ rate = 9 /\ concurrency = 12
    /\ healthy = 0 /\ judged = "none" /\ elapsed = TRUE

\* A completed scan without recursion.
RecRests ==
    /\ adaptive = FALSE /\ timed = FALSE /\ answers = {}
    /\ cursor = [p \in Parents |-> 0]
    /\ rows = [h \in Candidates |-> "none"] /\ attempts = [h \in Candidates |-> 0]
    /\ ended = {} /\ run = "completed" /\ depth = 2 /\ spent = FALSE
    /\ claimed = NoBatch /\ yield = 0 /\ stops = 0 /\ silent = 0

-----------------------------------------------------------------------------
\* Recursion below one name, where nothing but its work ends it.
RecStarts == RecInit /\ answers = {<<1>>} /\ ~adaptive /\ ~timed

Parts == {"queues", "lease", "governor", "recursion"}

MCInit ==
    /\ part \in Parts
    /\ Init
    /\ IF part = "lease" THEN L!Init ELSE LifeRests
    /\ IF part = "governor" THEN GovInit ELSE GovRests
    /\ IF part = "recursion" THEN RecStarts ELSE RecRests

MCNext ==
    /\ UNCHANGED part
    /\ \/ part = "queues" /\ Next /\ UNCHANGED <<lifeVars, govVars, recVars>>
       \/ part = "lease" /\ L!Next /\ UNCHANGED <<vars, govVars, recVars>>
       \/ part = "governor" /\ GovNext /\ UNCHANGED <<vars, lifeVars, recVars>>
       \/ part = "recursion" /\ RecNext /\ UNCHANGED <<vars, lifeVars, govVars>>

\* The fairness of each part; at rest none of these steps is enabled.
MCSpec ==
    /\ MCInit /\ [][MCNext]_allVars
    /\ \A p \in Procs : WF_vars(Work(p))
    /\ WF_lifeVars(L!Tick) /\ \A p \in Crews : WF_lifeVars(L!Setup(p)) /\ WF_lifeVars(L!Heartbeat(p))
    /\ GovFairness
    /\ WF_recVars(RecWork)

-----------------------------------------------------------------------------
(* Properties.                                                             *)

\* A crashed scan can be resumed once its lease has run out (see ScanLifecycle).
AbandonedReopens == L!AbandonedReopens
=============================================================================

----------------------------- MODULE ZoneTransfer -----------------------------
(***************************************************************************)
(* Zone transfers from the servers of a domain (axfr.rs): a few at a time, *)
(* until one succeeds.  The zone is a sequence of records between two      *)
(* copies of its SOA; a server may refuse, break off, end the stream       *)
(* early, or reload the zone in the middle.                                *)
(***************************************************************************)
EXTENDS Integers, FiniteSets

CONSTANTS
    Targets,      \* addresses of the servers, as unique_targets returns them
    TargetLimit,  \* AXFR_MAX_TARGETS
    AtOnce,       \* AXFR_CONCURRENCY
    ZoneSize,     \* records between the two SOA
    RecordLimits  \* values of AXFR_MAX_RECORDS

ASSUME TransferAssumption ==
    /\ {ZoneSize, TargetLimit, AtOnce} \subseteq Nat /\ RecordLimits \subseteq Nat
    /\ IsFiniteSet(Targets)

VARIABLES
    chosen,    \* bounded_targets
    transfer,  \* how each transfer stands
    arrived,   \* records received of each
    reloaded,  \* the server reloaded: its closing SOA is another
    recordLimit,    \* AXFR_MAX_RECORDS
    sourced,   \* targets whose names became sources
    axfr       \* "running", "done"

axfrVars == <<chosen, transfer, arrived, reloaded, recordLimit, sourced, axfr>>

Failures == {"Refused", "Timeout", "ProtocolError", "Empty"}

AxfrInit ==
    /\ chosen \in {C \in SUBSET Targets :
            Cardinality(C) = (IF Cardinality(Targets) > TargetLimit THEN TargetLimit
                              ELSE Cardinality(Targets))}
    /\ transfer = [t \in Targets |-> IF t \in chosen THEN "waiting" ELSE "left"]
    /\ arrived = [t \in Targets |-> 0] /\ reloaded = [t \in Targets |-> FALSE]
    /\ recordLimit \in RecordLimits /\ sourced = {} /\ axfr = "running"

Open == {t \in Targets : transfer[t] = "open"}
\* The closing SOA included.
Whole == ZoneSize + 2

Connects(t) ==
    /\ axfr = "running" /\ transfer[t] = "waiting" /\ Cardinality(Open) < AtOnce
    /\ \E s \in {"open"} \cup (Failures \ {"Empty"}) : transfer' = [transfer EXCEPT ![t] = s]
    /\ UNCHANGED <<chosen, arrived, reloaded, recordLimit, sourced, axfr>>

\* A message with some of the records left; the budget is checked record by record.
Receives(t) ==
    /\ axfr = "running" /\ transfer[t] = "open"
    /\ \E n \in 1..(Whole - arrived[t]), again \in {reloaded[t], TRUE} :
        /\ reloaded' = [reloaded EXCEPT ![t] = again]
        /\ IF arrived[t] + n > recordLimit
           THEN /\ arrived' = [arrived EXCEPT ![t] = recordLimit]
                /\ transfer' = [transfer EXCEPT ![t] = "ProtocolError"]
           ELSE arrived' = [arrived EXCEPT ![t] = @ + n] /\ UNCHANGED transfer
    /\ UNCHANGED <<chosen, recordLimit, sourced, axfr>>

\* A refusal, an error, or the deadline.
BreaksOff(t) ==
    /\ axfr = "running" /\ transfer[t] = "open"
    /\ \E s \in Failures \ {"Empty"} : transfer' = [transfer EXCEPT ![t] = s]
    /\ UNCHANGED <<chosen, arrived, reloaded, recordLimit, sourced, axfr>>

\* The first and the last record are the same SOA.
ClassifyTransfer(t) == IF arrived[t] >= 2 /\ arrived[t] = Whole /\ ~reloaded[t] THEN "Success" ELSE "Empty"

\* The stream ends; a success drops the other transfers.
StreamEnds(t) ==
    /\ axfr = "running" /\ transfer[t] = "open"
    /\ transfer' = [u \in Targets |->
            CASE u = t -> ClassifyTransfer(t)
              [] u # t /\ ClassifyTransfer(t) = "Success" /\ transfer[u] \in {"waiting", "open"} -> "left"
              [] OTHER -> transfer[u]]
    /\ UNCHANGED <<chosen, arrived, reloaded, recordLimit, sourced, axfr>>

\* Only the names of a success are sources of the scan.
Collects ==
    /\ axfr = "running" /\ \A t \in Targets : transfer[t] \notin {"waiting", "open"}
    /\ axfr' = "done"
    /\ sourced' = {t \in Targets : transfer[t] = "Success"}
    /\ UNCHANGED <<chosen, transfer, arrived, reloaded, recordLimit>>

AxfrNext ==
    \/ \E t \in Targets : Connects(t) \/ Receives(t) \/ BreaksOff(t) \/ StreamEnds(t)
    \/ Collects

AxfrSpec == AxfrInit /\ [][AxfrNext]_axfrVars

-----------------------------------------------------------------------------
AxfrTypeOK ==
    /\ chosen \subseteq Targets /\ sourced \subseteq chosen /\ axfr \in {"running", "done"}
    /\ transfer \in [Targets -> Failures \cup {"waiting", "open", "Success", "left"}]
    /\ arrived \in [Targets -> 0..Whole] /\ reloaded \in [Targets -> BOOLEAN]

\* A transfer whose names become sources carried one version of the zone from its opening to
\* its closing SOA, within the budget; at most one succeeds, and the connections open at a time
\* stay within the gate.
AxfrWhole ==
    /\ \A t \in Targets : transfer[t] = "Success" =>
            arrived[t] = Whole /\ ~reloaded[t] /\ Whole <= recordLimit
    /\ Cardinality({t \in Targets : transfer[t] = "Success"}) <= 1
    /\ Cardinality(Open) <= AtOnce
=============================================================================

------------------------------ MODULE MCSources ------------------------------
(***************************************************************************)
(* One instance for the sources of names: the connectors that read         *)
(* listings or streams, their requests, the phase that collects their      *)
(* results, the zones that are walked or transferred, and the recursion    *)
(* below what was found.  They share no state that these modules model, so *)
(* a behaviour is one of one part, and the others rest in a fixed state.   *)
(***************************************************************************)
EXTENDS Connectors, ExternalTransport, PassivePhase, Zones, Recursion

CONSTANT s1  \* the server of all requests

VARIABLE part

parts == <<pagedVars, streamVars, extVars, phaseVars, zoneVars, axfrVars, recVars>>
allVars == <<part, parts>>

\* The server may be asked more often than each source.
Gaps == [l \in Limiters |-> IF l = s1 THEN 1 ELSE 2]

\* An automatic selection with a deadline, a manual one without.
PhaseModes == {<<TRUE, TRUE>>, <<FALSE, FALSE>>}

-----------------------------------------------------------------------------
(* Where the parts that do not run stand.                                  *)

PagedRests == conn = Bevigil /\ manner = "honest" /\ listing = [e \in {1} |-> 0] /\ PagedInit
StreamRests ==
    /\ source = Profundis /\ answer = [records |-> <<>>, closed |-> TRUE, count |-> 0]
    /\ StreamInit
PhRests ==
    /\ automatic = FALSE /\ memory = [s \in 1..Selected |-> {}]
    /\ PhInit
ZoneRests ==
    /\ zone = {} /\ probe = 0 /\ limit = 1 /\ row = NoRow
    /\ signing = [a \in 1..Addresses |-> "plain"]
    /\ ZoneInit
AxfrRests ==
    /\ chosen = CHOOSE c \in SUBSET Targets : Cardinality(c) = TargetLimit
    /\ recordLimit = 3 /\ AxfrInit
RecRests == adaptive = FALSE /\ timed = FALSE /\ answers = {} /\ RecInit

-----------------------------------------------------------------------------
\* Bound: a child zone is collected after a root zone that left nothing but a failure streak.
PhSteps ==
    /\ PhNext
    /\ area' # area => gathered' = {} /\ automatic /\ streak[1] = 3 /\ streak[2] = 0

\* Bound: recursion starts from one name or from none.
RecStarts == RecInit /\ answers \in {{}, {<<1>>}}

Parts == {"pages", "stream", "requests", "phase", "walk", "transfer", "recursion"}

MCInit ==
    /\ part \in Parts
    /\ IF part = "pages" THEN PagedInit ELSE PagedRests
    /\ IF part = "stream" THEN StreamInit ELSE StreamRests
    /\ ExtInit
    /\ IF part = "phase" THEN PhInit ELSE PhRests
    /\ IF part = "walk" THEN ZoneInit ELSE ZoneRests
    /\ IF part = "transfer" THEN AxfrInit ELSE AxfrRests
    /\ IF part = "recursion" THEN RecStarts ELSE RecRests

MCNext ==
    /\ UNCHANGED part
    /\ \/ part = "pages" /\ PagedNext
          /\ UNCHANGED <<streamVars, extVars, phaseVars, zoneVars, axfrVars, recVars>>
       \/ part = "stream" /\ StreamNext
          /\ UNCHANGED <<pagedVars, extVars, phaseVars, zoneVars, axfrVars, recVars>>
       \/ part = "requests" /\ ExtNext
          /\ UNCHANGED <<pagedVars, streamVars, phaseVars, zoneVars, axfrVars, recVars>>
       \/ part = "phase" /\ PhSteps
          /\ UNCHANGED <<pagedVars, streamVars, extVars, zoneVars, axfrVars, recVars>>
       \/ part = "walk" /\ ZoneNext
          /\ UNCHANGED <<pagedVars, streamVars, extVars, phaseVars, axfrVars, recVars>>
       \/ part = "transfer" /\ AxfrNext
          /\ UNCHANGED <<pagedVars, streamVars, extVars, phaseVars, zoneVars, recVars>>
       \/ part = "recursion" /\ RecNext
          /\ UNCHANGED <<pagedVars, streamVars, extVars, phaseVars, zoneVars, axfrVars>>

MCSpec == MCInit /\ [][MCNext]_allVars

-----------------------------------------------------------------------------
(* Properties.                                                             *)

\* Every variable of the part that runs keeps its type; the others do not move.
TypeOK ==
    CASE part = "pages" -> PagedTypeOK
      [] part = "stream" -> StreamTypeOK
      [] part = "requests" -> ExtTypeOK
      [] part = "phase" -> PhTypeOK
      [] part = "walk" -> ZoneTypeOK
      [] part = "transfer" -> AxfrTypeOK
      [] part = "recursion" -> RecTypeOK
=============================================================================
